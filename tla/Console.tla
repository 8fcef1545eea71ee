------------------------------- MODULE Console -------------------------------
(***************************************************************************)
(* The dashboard page: one script, one operator, and four desks that share *)
(* nothing but the page - the payout desk with its transaction dialog, the *)
(* businesses tab with its own dialog, the lists that are walked page by   *)
(* page, and the settings.  A behaviour is a visit to one of the four (a   *)
(* bound: what one desk remembers the others never read).                  *)
(***************************************************************************)
EXTENDS PayoutDesk, Listings

CONSTANTS Businesses, House, Ids,
          MaxBizClicks,   \* bound: clicks of a visit to the businesses tab
          SettingKeys, Texts,
          MaxSheetClicks, \* bound: clicks of a visit to the settings
          MaxOthers

VARIABLES ids, badges, biz, loads, stored, sheet, asks, desk

B == INSTANCE BusinessDesk WITH MaxLoads <- MaxCalls, MaxClicks <- MaxBizClicks
T == INSTANCE SettingsDesk WITH MaxAsks <- MaxCalls, MaxClicks <- MaxSheetClicks

bizVars == <<ids, badges, biz, loads>>
sheetVars == <<stored, sheet, asks>>
vars == <<deskVars, bizVars, listVars, sheetVars, desk>>

Desks == {"payouts", "businesses", "lists", "settings"}

Init ==
    /\ DeskInit /\ B!BizInit /\ ListInit /\ T!SheetInit
    /\ desk \in Desks
    /\ desk # "businesses" => ids = [r \in Businesses \cup {House} |-> None]
    /\ desk # "lists" => table = [r \in Rows |-> "business"]

VisitPayouts ==
    /\ desk = "payouts"
    /\ DeskNext
    /\ UNCHANGED <<bizVars, listVars, sheetVars, desk>>

VisitBusinesses ==
    /\ desk = "businesses"
    /\ B!BizNext
    /\ UNCHANGED <<serverVars, pageVars, calls, agreed, listVars, sheetVars, desk>>

VisitLists ==
    /\ desk = "lists"
    /\ ListNext
    /\ UNCHANGED <<deskVars, bizVars, sheetVars, desk>>

VisitSettings ==
    /\ desk = "settings"
    /\ T!SheetNext
    /\ UNCHANGED <<serverVars, pageVars, calls, agreed, bizVars, listVars, desk>>

Next == VisitPayouts \/ VisitBusinesses \/ VisitLists \/ VisitSettings

Spec == Init /\ [][Next]_vars

ShownIsOwn == B!ShownIsOwn
OwnEditsShown == T!OwnEditsShown
=============================================================================
