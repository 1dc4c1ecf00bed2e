---------------------------- MODULE ContainerView ---------------------------
(***************************************************************************)
(* Which containers of a host are shown and in which order                 *)
(* (web/lib/containerFilters.ts), and the filter bar                       *)
(* (web/components/host/ContainerFilters.tsx).  The view is kept in the    *)
(* URL (web/app/(app)/hosts/[id]/page.tsx): a filter picked replaces the   *)
(* URL, which is read again once the router has followed; the text typed   *)
(* reaches it 250 ms after the last key, with the other filters as they    *)
(* were when that key was pressed.                                         *)
(***************************************************************************)
EXTENDS WebBase

CONSTANTS
    CtrNames,   \* the containers of a host: numbers, for the order of their names
    Looks,      \* what a container may look like
    StackOf,    \* the stack of each, or NoStack
    NoStack,
    Queries,    \* texts to filter by, and the containers each is found in
    Found

ASSUME ViewConstants ==
    /\ CtrNames \subseteq Nat /\ NoStack \in {StackOf[c] : c \in CtrNames}
    /\ Looks \subseteq [state : {"running", "restarting", "paused", "exited", "created", "dead"},
                        health : {"", "healthy", "unhealthy", "starting"}, exit : Nat, update : BOOLEAN,
                        cpu : Nat, mem : Nat, since : Nat]
    /\ Found \in [Queries -> SUBSET CtrNames]

VARIABLES
    looks, place,   \* the containers, and their places in the server's list
    view,           \* the view in the URL
    nav,            \* the view the router is going to, or None
    box,            \* the text field: its text, and the view its timer was set with, or None
    want, hurried   \* history: the filters last picked; one was picked, or text typed, before
                    \*   what came before it had reached the URL

viewVars == <<looks, place, view, nav, box, want, hurried>>

StatusFilters == {"all", "running", "healthy", "unhealthy", "starting", "restarting", "paused", "stopped", "crashed", "updates"}
AlwaysShown == {"all", "running", "stopped"}
Sorts == {"status", "name", "cpu", "mem", "newest", "oldest"}
StackChoices == {"all"} \cup {StackOf[c] : c \in CtrNames}
PlainView == [q |-> None, status |-> "all", stack |-> "all", sort |-> "status"]
Views == [q : Queries \cup {None}, status : StatusFilters, stack : StackChoices, sort : Sorts]

ViewTypeOK ==
    /\ looks \in [CtrNames -> Looks] /\ place \in [CtrNames -> 1..Cardinality(CtrNames)]
    /\ view \in Views /\ nav \in Views \cup {None} /\ hurried \in BOOLEAN
    /\ box \in [text : Queries \cup {None}, timer : Views \cup {None}]
    /\ want \in [status : StatusFilters, stack : StackChoices, sort : Sorts]

matchesStatus(l, f) ==
    CASE f = "all" -> TRUE
      [] f = "running" -> l.state = "running"
      [] f = "healthy" -> l.state = "running" /\ l.health = "healthy"
      [] f = "unhealthy" -> l.health = "unhealthy"
      [] f = "starting" -> l.state = "running" /\ l.health = "starting"
      [] f \in {"restarting", "paused"} -> l.state = f
      [] f = "stopped" -> l.state \in {"exited", "created", "dead"}
      [] f = "crashed" -> l.state = "dead" \/ (l.state = "exited" /\ l.exit # 0)
      [] f = "updates" -> l.update
inStack(c, s) == s = "all" \/ StackOf[c] = s
matchText(c, q) == q # None => c \in Found[q]

\* Problems first, then running, then the rest.
statusRank(l) ==
    CASE l.health = "unhealthy" \/ matchesStatus(l, "crashed") -> 0
      [] l.state = "restarting" \/ l.health = "starting" -> 1
      [] l.state = "running" -> 2
      [] l.state = "paused" -> 3
      [] OTHER -> 4
Ahead(l, m, key) ==
    CASE key = "status" -> statusRank(l) < statusRank(m)
      [] key = "name" -> FALSE
      [] key = "cpu" -> l.cpu > m.cpu
      [] key = "mem" -> l.mem > m.mem
      [] key = "newest" -> l.since > m.since
      [] key = "oldest" -> l.since < m.since
sortBy(c, d, key) == Ahead(looks[c], looks[d], key) \/ (~Ahead(looks[d], looks[c], key) /\ c < d)

Visible(v) == {c \in CtrNames : inStack(c, v.stack) /\ matchesStatus(looks[c], v.status) /\ matchText(c, v.q)}
\* visibleContainers(): each container shown, with its row.
visibleContainers(v) == [c \in Visible(v) |-> Cardinality({d \in Visible(v) : sortBy(d, c, v.sort)})]

statusCounts(f) == Cardinality({c \in CtrNames : inStack(c, view.stack) /\ matchesStatus(looks[c], f)})

ViewInit ==
    /\ \E l \in Looks : looks = [c \in CtrNames |-> l]
    /\ place = [c \in CtrNames |-> Cardinality({d \in CtrNames : d <= c})]
    /\ view = PlainView /\ nav = None /\ box = [text |-> None, timer |-> None]
    /\ want = [status |-> "all", stack |-> "all", sort |-> "status"] /\ hurried = FALSE

-----------------------------------------------------------------------------
\* setView(): the parts changed, over the view this handler was made with.
setView(old, k, x) == [old EXCEPT ![k] = x]
Outstanding == nav # None \/ box.timer # None
PickFilter(k, x) ==
    /\ Spend(2) /\ nav' = setView(view, k, x)
    /\ want' = [want EXCEPT ![k] = x] /\ hurried' = (hurried \/ Outstanding)
    /\ UNCHANGED <<looks, place, view, box>>
\* A chip; the one that is on goes back to all.
PickChip(f) ==
    /\ f \in AlwaysShown \/ statusCounts(f) > 0 \/ view.status = f
    /\ PickFilter("status", IF view.status = f THEN "all" ELSE f)
PickStack(s) == PickFilter("stack", s)
PickSort(s) == PickFilter("sort", s)
ClearView ==
    /\ view # PlainView /\ Spend(2) /\ nav' = PlainView
    /\ want' = [status |-> "all", stack |-> "all", sort |-> "status"] /\ hurried' = Outstanding
    /\ UNCHANGED <<looks, place, view, box>>

TypeText(x) ==
    /\ box.text # x /\ Spend(2)
    /\ box' = [text |-> x, timer |-> IF x = view.q THEN None ELSE view]
    /\ hurried' = (hurried \/ (nav # None /\ x # view.q))
    /\ UNCHANGED <<looks, place, view, nav, want>>
TextTimer ==
    /\ box.timer # None /\ nav' = setView(box.timer, "q", box.text) /\ box' = [box EXCEPT !.timer = None]
    /\ UNCHANGED <<looks, place, view, want, hurried, moves>>
\* The router has followed: a text that changed in the URL is put into the field.
Follow ==
    /\ nav # None /\ view' = nav /\ nav' = None
    /\ box' = IF nav.q = view.q \/ nav.q = box.text THEN box ELSE [text |-> nav.q, timer |-> None]
    /\ UNCHANGED <<looks, place, want, hurried, moves>>
\* The next poll: containers in another order, or one that looks different.
PollContainers ==
    /\ Spend(1)
    /\ \/ \E c \in CtrNames, l \in Looks : l # looks[c] /\ looks' = [looks EXCEPT ![c] = l] /\ UNCHANGED place
       \/ \E c, d \in CtrNames : c < d /\ place' = [place EXCEPT ![c] = place[d], ![d] = place[c]] /\ UNCHANGED looks
    /\ UNCHANGED <<view, nav, box, want, hurried>>

ViewStep ==
    \/ \E f \in StatusFilters : PickChip(f)
    \/ \E s \in StackChoices : PickStack(s)
    \/ \E s \in Sorts : PickSort(s)
    \/ \E x \in Queries \cup {None} : TypeText(x)
    \/ ClearView \/ TextTimer \/ Follow \/ PollContainers

-----------------------------------------------------------------------------
(* Rows do not jump: the same containers with the same view are shown in   *)
(* the same order in whatever order the server lists them, since equal     *)
(* ones are ordered by name (containerFilters.ts:75).                      *)
RowsDoNotJump == [][place' # place /\ looks' = looks /\ view' = view => visibleContainers(view)' = visibleContainers(view)]_viewVars

(* The number on a chip is what a click on it shows, as long as no text is *)
(* filtered by (ContainerFilters.tsx:22 says so for text too, which        *)
(* statusCounts is not given).                                             *)
CountIsShown ==
    view.q = None => \A f \in StatusFilters : statusCounts(f) = Cardinality(Visible([view EXCEPT !.status = f]))

(* Filters picked one after another add up, whatever is typed in between,  *)
(* unless one was picked before the text or the filter before it had       *)
(* reached the URL: then the older view wins (hosts/[id]/page.tsx:263).    *)
FiltersAddUp == ~hurried /\ nav = None => \A k \in {"status", "stack", "sort"} : view[k] = want[k]
============================================================================
