------------------------------ MODULE Settings ------------------------------
(***************************************************************************)
(* useSettings (web/components/settings/common.tsx), which the tabs of the *)
(* settings page share: the settings are shown as they will be while the   *)
(* PATCH is on its way, and as they were when it fails.                    *)
(***************************************************************************)
EXTENDS WebBase

CONSTANTS
    Keys,       \* settings
    KeyVals     \* their values

ASSUME SettingConstants == KeyVals # {} /\ None \notin [Keys -> KeyVals]

VARIABLES
    kept,       \* the settings of the server
    cached,     \* the ones shown: the cache of GET /api/settings
    saves,      \* PATCHes on their way
    muddled     \* history: since the last fetch two of them overlapped, or an answer was lost

settingVars == <<kept, cached, saves, muddled>>

AllSettings == [Keys -> KeyVals]
Save == [key : Keys, val : KeyVals, prev : AllSettings, answer : AllSettings \cup {None}, nr : 1..MaxMoves]

SettingsTypeOK ==
    /\ kept \in AllSettings /\ cached \in AllSettings /\ muddled \in BOOLEAN
    /\ \A q \in saves : q.key \in Keys /\ q.val \in KeyVals /\ q.prev \in AllSettings /\ q.answer \in AllSettings \cup {None}

SettingsInit ==
    /\ kept = [k \in Keys |-> CHOOSE x \in KeyVals : TRUE] /\ cached = kept /\ saves = {} /\ muddled = FALSE

MergeSettings(s, k, x) == [s EXCEPT ![k] = x]

\* save(): prev is what this render shows.
SaveSetting(k, x) ==
    /\ cached[k] # x /\ Spend(2)
    /\ cached' = MergeSettings(cached, k, x)
    /\ saves' = saves \cup {[key |-> k, val |-> x, prev |-> cached, answer |-> None, nr |-> moves']}
    /\ muddled' = (muddled \/ saves # {})
    /\ UNCHANGED kept
\* The server carries a PATCH out, and answers with all settings.
PatchApplied(q) ==
    /\ q.answer = None /\ kept' = MergeSettings(kept, q.key, q.val)
    /\ saves' = (saves \ {q}) \cup {[q EXCEPT !.answer = kept']}
    /\ UNCHANGED <<cached, muddled, moves>>
PatchDone(q) ==
    /\ q.answer # None /\ cached' = q.answer /\ saves' = saves \ {q}
    /\ UNCHANGED <<kept, muddled, moves>>
\* It was refused, or its answer is lost: back to what was shown before.
RolledBack(q) == q.prev
PatchFailed(q) ==
    /\ cached' = RolledBack(q) /\ saves' = saves \ {q}
    /\ muddled' = (muddled \/ q.answer # None)
    /\ UNCHANGED <<kept, moves>>
\* The window has focus again, or another page is entered: the settings are fetched.
Revalidate ==
    /\ cached # kept \/ muddled
    /\ cached' = kept /\ muddled' = (saves # {})
    /\ UNCHANGED <<kept, saves, moves>>
\* Someone else changes a setting, which is seen with the next fetch or answer.
OtherSaves(k, x) ==
    /\ kept[k] # x /\ Move /\ kept' = MergeSettings(kept, k, x)
    /\ muddled' = TRUE
    /\ UNCHANGED <<cached, saves>>

SettingsStep ==
    \/ \E k \in Keys, x \in KeyVals : SaveSetting(k, x) \/ OtherSaves(k, x)
    \/ \E q \in saves : PatchApplied(q) \/ PatchDone(q) \/ PatchFailed(q)
    \/ Revalidate

-----------------------------------------------------------------------------
(* "optimistic, rollback-on-error" (common.tsx:11): once nothing is on its *)
(* way, what is shown is what is stored, whichever saves failed, unless    *)
(* saves overlapped, an answer was lost or someone else saved.             *)
ShownIsStored == saves = {} /\ ~muddled => cached = kept
============================================================================
