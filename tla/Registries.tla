----------------------------- MODULE Registries -----------------------------
(***************************************************************************)
(* The registries tab of the settings                                      *)
(* (web/components/settings/RegistriesTab.tsx): tags of the built-in       *)
(* registry, which are deleted by the digest they point to, and the logins *)
(* of other registries, which are tested before they are saved.            *)
(***************************************************************************)
EXTENDS WebBase

CONSTANTS
    TagNames, Digests,
    Logins, GoodLogins  \* server, user and password; the ones their registry accepts

ASSUME RegistryConstants == GoodLogins \subseteq Logins

VARIABLES
    tags, seen,     \* the tags of a repository with their digests, or None; the ones shown
    pushed,         \* history: the tags pushed since the list was fetched
    tquest,         \* the question: the tag, and the tags said to go with it, or None
    tdels,          \* deletions on their way: the question, and the digest once it was looked up
    cform,          \* AddCredential: which one it is, its input, the refused-login state, busy; or None
    csaves,         \* its handlers on their way
    creds,          \* the logins saved: the login, whether it was tested
    refused,        \* history: the logins refused while this form was open
    raced           \* history: the input of this form was edited while it was busy

tagVars == <<tags, seen, pushed, tquest, tdels>>
credVars == <<cform, csaves, creds, refused, raced>>
registryVars == <<tagVars, credVars>>

TagList == [TagNames -> Digests \cup {None}]
TagQuestion == [tag : TagNames, named : SUBSET TagNames]
CForm == [nr : 1..MaxMoves, input : Logins, failed : BOOLEAN, busy : BOOLEAN]
CSave == [form : 1..MaxMoves, body : Logins, skip : BOOLEAN, at : {"test", "post"}, nr : 1..MaxMoves]

RegistryTypeOK ==
    /\ tags \in TagList /\ seen \in TagList /\ pushed \subseteq TagNames
    /\ tquest \in TagQuestion \cup {None} /\ tdels \subseteq [q : TagQuestion, digest : Digests \cup {None}]
    /\ cform \in CForm \cup {None} /\ csaves \subseteq CSave
    /\ creds \subseteq [login : Logins, tested : BOOLEAN] /\ refused \subseteq Logins /\ raced \in BOOLEAN

RegistryInit ==
    /\ tags \in [TagNames -> Digests] /\ seen = tags /\ pushed = {} /\ tquest = None /\ tdels = {}
    /\ cform = None /\ csaves = {} /\ creds = {} /\ refused = {} /\ raced = FALSE

-----------------------------------------------------------------------------
(* RepoRow                                                                 *)

\* (mutant) Tags that share the digest are not looked for.
Same_None(t) == {}
\* The other tags shown with the same digest.
Same(t) == {x \in TagNames \ {t} : seen[x] = seen[t]}
AskDelete(t) ==
    /\ seen[t] # None /\ tquest = None /\ Spend(2)
    /\ tquest' = [tag |-> t, named |-> Same(t)]
    /\ UNCHANGED <<tags, seen, pushed, tdels, credVars>>
ConfirmDelete ==
    /\ tquest # None /\ tquest' = None /\ tdels' = tdels \cup {[q |-> tquest, digest |-> None]}
    /\ UNCHANGED <<tags, seen, pushed, credVars, moves>>
DismissDelete == tquest # None /\ tquest' = None /\ UNCHANGED <<tags, seen, pushed, tdels, credVars, moves>>
\* DeleteTag (registry.go): the digest is looked up by the tag's name, then deleted.
DigestLookedUp(d) ==
    /\ d.digest = None /\ tags[d.q.tag] # None
    /\ tdels' = (tdels \ {d}) \cup {[d EXCEPT !.digest = tags[d.q.tag]]}
    /\ UNCHANGED <<tags, seen, pushed, tquest, credVars, moves>>
DigestDeleted(d) ==
    /\ d.digest # None /\ tdels' = tdels \ {d}
    /\ tags' = [t \in TagNames |-> IF tags[t] = d.digest THEN None ELSE tags[t]]
    /\ UNCHANGED <<seen, pushed, tquest, credVars, moves>>
DeleteFailed(d) == tdels' = tdels \ {d} /\ UNCHANGED <<tags, seen, pushed, tquest, credVars, moves>>
\* mutate() after a deletion, or focus.  A question on screen keeps what it says.
TagsFetched ==
    /\ seen # tags \/ pushed # {}
    /\ seen' = tags /\ pushed' = IF tquest = None /\ tdels = {} THEN {} ELSE pushed
    /\ UNCHANGED <<tags, tquest, tdels, credVars, moves>>
\* Someone pushes an image under a tag.
Push(t, g) ==
    /\ tags[t] # g /\ Spend(1) /\ tags' = [tags EXCEPT ![t] = g] /\ pushed' = pushed \cup {t}
    /\ UNCHANGED <<seen, tquest, tdels, credVars>>

TagStep ==
    \/ \E t \in TagNames : AskDelete(t) \/ \E g \in Digests : Push(t, g)
    \/ ConfirmDelete \/ DismissDelete \/ TagsFetched
    \/ \E d \in tdels : DigestLookedUp(d) \/ DigestDeleted(d) \/ DeleteFailed(d)

-----------------------------------------------------------------------------
(* CredentialsCard and AddCredential                                       *)

AddLogin ==
    /\ cform = None /\ Move
    /\ \E x \in Logins : cform' = [nr |-> moves', input |-> x, failed |-> FALSE, busy |-> FALSE]
    /\ refused' = {} /\ raced' = FALSE /\ UNCHANGED <<tagVars, csaves, creds>>
CancelLogin == cform # None /\ cform' = None /\ UNCHANGED <<tagVars, csaves, creds, refused, raced, moves>>
\* The effect of an edit: whatever was refused, it was another login.
Edited(x) == [cform EXCEPT !.input = x, !.failed = FALSE]
EditLogin(x) ==
    /\ cform # None /\ x # cform.input /\ Move /\ cform' = Edited(x)
    /\ raced' = (raced \/ cform.busy)
    /\ UNCHANGED <<tagVars, csaves, creds, refused>>
\* save(): Test & save, or, once a login was refused, Save anyway.
SaveLogin(skip) ==
    /\ cform # None /\ ~cform.busy /\ (skip => cform.failed) /\ Move
    /\ cform' = [cform EXCEPT !.busy = TRUE]
    /\ csaves' = csaves \cup {[form |-> cform.nr, body |-> cform.input, skip |-> skip,
                               at |-> IF skip THEN "post" ELSE "test", nr |-> moves']}
    /\ UNCHANGED <<tagVars, creds, refused, raced>>
\* What the handler of a form does to it, if it is still on screen.
ToForm(q, x) == cform' = IF cform # None /\ cform.nr = q.form THEN x ELSE cform
CredBody(q) == q.body
LoginAccepted(q) ==
    /\ q.at = "test" /\ q.body \in GoodLogins
    /\ csaves' = (csaves \ {q}) \cup {[q EXCEPT !.at = "post", !.body = CredBody(q)]}
    /\ UNCHANGED <<tagVars, cform, creds, refused, raced, moves>>
LoginRefused(q) ==
    /\ q.at = "test" /\ q.body \notin GoodLogins /\ csaves' = csaves \ {q}
    /\ ToForm(q, [cform EXCEPT !.failed = TRUE, !.busy = FALSE])
    /\ refused' = refused \cup {q.body}
    /\ UNCHANGED <<tagVars, creds, raced, moves>>
\* It is saved, and the form on screen is closed, whichever it is.
LoginSaved(q) ==
    /\ q.at = "post" /\ csaves' = csaves \ {q} /\ cform' = None
    /\ creds' = creds \cup {[login |-> q.body, tested |-> ~q.skip]}
    /\ UNCHANGED <<tagVars, refused, raced, moves>>
SaveFailed(q) ==
    /\ csaves' = csaves \ {q} /\ ToForm(q, [cform EXCEPT !.busy = FALSE])
    /\ UNCHANGED <<tagVars, creds, refused, raced, moves>>
RemoveLogin(c) == Move /\ creds' = creds \ {c} /\ UNCHANGED <<tagVars, cform, csaves, refused, raced>>

LoginStep ==
    \/ AddLogin \/ CancelLogin
    \/ \E x \in Logins : EditLogin(x)
    \/ \E skip \in BOOLEAN : SaveLogin(skip)
    \/ \E q \in csaves : LoginAccepted(q) \/ LoginRefused(q) \/ LoginSaved(q) \/ SaveFailed(q)
    \/ \E c \in creds : RemoveLogin(c)

-----------------------------------------------------------------------------
(* "those tags are deleted with it" (RegistriesTab.tsx:190): a deletion    *)
(* takes the tag asked about and the tags the question named, and no other *)
(* unless it was pushed, or the tag itself was, since the list was         *)
(* fetched: only the name is sent, and the digest looked up then.          *)
OnlyNamedTagsGo ==
    [][\A d \in tdels : DigestDeleted(d) =>
         \A t \in TagNames : tags[t] # None /\ tags'[t] = None =>
            t \in {d.q.tag} \cup d.q.named \/ pushed \cap {t, d.q.tag} # {}]_registryVars

(* "Login tested and works." (RegistriesTab.tsx:443): a login that was     *)
(* saved as tested is one its registry accepts, whatever was typed while   *)
(* it was being tested.                                                    *)
TestedLoginWorks == \A c \in creds : c.tested => c.login \in GoodLogins

(* "Save anyway" saves a login that was refused, and none that was never   *)
(* tried, unless the input was edited while the test was on its way: the   *)
(* late refusal then offers it for the new input (RegistriesTab.tsx:438).  *)
AnywayWasRefused ==
    \A q \in csaves : q.skip /\ ~raced /\ cform # None /\ cform.nr = q.form => q.body \in refused
============================================================================
