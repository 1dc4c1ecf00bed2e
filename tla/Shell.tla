------------------------------- MODULE Shell --------------------------------
(***************************************************************************)
(* The shell around every page of the web UI: web/components/shell         *)
(* (AppShell.tsx with its dock, create menu, command bar, toasts and       *)
(* question dialog; Shortcuts.tsx; CommandPalette.tsx;                     *)
(* NotificationsDrawer.tsx), the Dialog and useOutside of components/ui    *)
(* and lib/theme.ts.                                                       *)
(*                                                                         *)
(* Several layers lie over the page and all of them listen to the same     *)
(* window for the Escape key: menus and Dialogs in the capture phase, in   *)
(* the order in which they registered, the side panel, the drawer and the  *)
(* question in the bubble phase.  React commits what one listener changed  *)
(* before the next one runs.  What a page or a dialog contains is not      *)
(* modelled here, only what it asks of the shell.                          *)
(***************************************************************************)
EXTENDS Naturals, Sequences, FiniteSets

CONSTANTS
    Pages, Home,
    Names,      \* what a question may want typed
    MaxToasts,  \* bound: toasts of one shell
    MaxMoves    \* bound: what the user, the requests and the system do

Untyped == "untyped"
Blank == "blank"

ASSUME ShellConstants ==
    Home \in Pages /\ {MaxMoves, MaxToasts} \subseteq Nat /\ Names \cap {Untyped, Blank} = {}

VARIABLES
    page,
    open,       \* the layers on screen
    capture,    \* keydown listeners of the capture phase, oldest first
    questions,  \* every confirm() call: the text it wants typed, its promise
    ask, typed, \* the question on screen, 0 for none; the text in its field
    blasts,     \* reboot buttons pressed whose impact is still being fetched
    toasts, timers, toastId,
    theme, stored, dark, os,        \* React state, localStorage, <html>, the system's preference
    saved, initial, sent,           \* the account's theme, as first loaded, PATCHes not yet handled
    chord,      \* G was pressed less than 1200 ms ago
    q, active, loaded, shrunk,      \* the palette; the lists it has; history: results left since active moved
    key,        \* history: whether this step was an Escape
    moves

layers == <<page, open, capture>>
asking == <<questions, ask, typed, blasts>>
toasting == <<toasts, timers, toastId>>
theming == <<theme, stored, dark, os, saved, initial, sent>>
palette == <<q, active, loaded, shrunk>>
shell == <<layers, asking, toasting, theming, chord, palette, key, moves>>

Layers == {"side", "term", "notif", "palette", "keys", "dialog", "confirm", "create", "pick"}
Themes == {"light", "dark", "system"}
Answers == {"waiting", "yes", "no"}

ShellTypeOK ==
    /\ page \in Pages /\ open \subseteq Layers /\ capture \in Seq({"create", "keys", "pick", "dialog"})
    /\ questions \in Seq([name : Names \cup {Untyped}, answer : Answers])
    /\ ask \in 0..Len(questions) /\ typed \in Names \cup {Blank} /\ blasts \in 0..MaxMoves
    /\ toastId \in Nat /\ toasts \in Seq(1..toastId) /\ timers \subseteq 1..toastId
    /\ {theme, stored, saved, initial} \subseteq Themes /\ os \in {"light", "dark"} /\ dark \in BOOLEAN
    /\ sent \subseteq [id : 1..MaxMoves, theme : {"light", "dark"}]
    /\ chord \in BOOLEAN /\ key \in BOOLEAN /\ shrunk \in BOOLEAN
    /\ q \in BOOLEAN /\ active \in Nat /\ loaded \subseteq {"hosts", "containers"}
    /\ moves \in 0..MaxMoves

Move == moves < MaxMoves /\ moves' = moves + 1 /\ key' = FALSE

-----------------------------------------------------------------------------
(* Layers.  A change of the shell's state renders the whole shell: every   *)
(* menu and Dialog gets a new onClose and registers its listener again,    *)
(* children before parents.                                                *)

\* A sequence of distinct elements without one of them.
Without(s, e) ==
    IF \A i \in DOMAIN s : s[i] # e THEN s
    ELSE LET i == CHOOSE i \in DOMAIN s : s[i] = e IN SubSeq(s, 1, i - 1) \o SubSeq(s, i + 1, Len(s))

Listener(l, o) == IF l \in o THEN <<l>> ELSE <<>>
Rendered(o) == Listener("create", o) \o Listener("keys", o) \o Listener("pick", o) \o Listener("dialog", o)

\* The layers after a change of the shell's own state.
Show(o) == open' = o /\ capture' = Rendered(o)
\* A menu keeps its own state: the listeners of the layers above it stay where they are.
ShowMenu(l) == open' = open \cup {l} /\ capture' = Append(Without(capture, l), l)
HideMenu(l) == open' = open \ {l} /\ capture' = Without(capture, l)

Scrims == {"palette", "keys", "dialog", "confirm"}
\* What a click can reach: the page and the dock only where no scrim covers them.
PageFree == open \cap ({"side", "notif"} \cup Scrims) = {}
NoScrim == open \cap Scrims = {}

\* Pressing the mouse outside the create menu closes it.
Clicked == open \ {"create"}

-----------------------------------------------------------------------------
(* confirm(): the question on screen is replaced, its field is not.        *)

Confirm(name) ==
    /\ questions' = Append(questions, [name |-> name, answer |-> "waiting"])
    /\ ask' = Len(questions) + 1
    /\ typed' = IF ask = 0 THEN Blank ELSE typed

\* A button of the page, the side panel or a dialog that asks first.
Asks(name) ==
    /\ Move
    /\ open \cap {"palette", "keys", "confirm"} = {}
    /\ Confirm(name)
    /\ Show(Clicked \cup {"confirm"})
    /\ UNCHANGED <<page, blasts, toasting, theming, chord, palette>>

\* Reboot looks up the impact first; the button stays enabled meanwhile.
PressReboot ==
    /\ Move /\ PageFree
    /\ blasts' = blasts + 1
    /\ IF "create" \in open THEN HideMenu("create") ELSE UNCHANGED <<open, capture>>
    /\ UNCHANGED <<page, questions, ask, typed, toasting, theming, chord, palette>>

BlastKnown ==
    /\ blasts > 0 /\ blasts' = blasts - 1
    /\ Confirm(Untyped)
    /\ Show(open \cup {"confirm"})
    /\ key' = FALSE
    /\ UNCHANGED <<page, toasting, theming, chord, palette, moves>>

TypeName(n) ==
    /\ Move /\ ask # 0 /\ questions[ask].name # Untyped /\ typed # n
    /\ typed' = n
    /\ UNCHANGED <<layers, questions, ask, blasts, toasting, theming, chord, palette>>

\* (mutant) Closing the question forgets to settle its promise.
ResolveNothing(v) == questions' = questions
Resolve(v) == questions' = [questions EXCEPT ![ask].answer = IF v THEN "yes" ELSE "no"]

CloseQuestion(v) == Resolve(v) /\ ask' = 0 /\ typed' = Blank

Sure == questions[ask].name \in {Untyped, typed}

AnswerQuestion(v) ==
    /\ Move /\ ask # 0 /\ (v => Sure)
    /\ CloseQuestion(v)
    /\ Show(open \ {"confirm"})
    /\ UNCHANGED <<page, blasts, toasting, theming, chord, palette>>

-----------------------------------------------------------------------------
(* toast(): the newest four, each removed by its own timer.                *)

Newest(s) == SubSeq(s, IF Len(s) > 4 THEN Len(s) - 3 ELSE 1, Len(s))

\* n answers arrive together and each leaves its toast.
Toast(n) ==
    /\ Move /\ toastId + n <= MaxToasts
    /\ toastId' = toastId + n
    /\ toasts' = Newest(toasts \o [i \in 1..n |-> toastId + i])
    /\ timers' = timers \cup (toastId + 1)..(toastId + n)
    /\ Show(open)
    /\ UNCHANGED <<page, asking, theming, chord, palette>>

ToastExpires(id) ==
    /\ timers' = timers \ {id}
    /\ toasts' = Without(toasts, id)
    /\ Show(open)
    /\ key' = FALSE
    /\ UNCHANGED <<page, asking, toastId, theming, chord, palette, moves>>

DismissToast(id) ==
    /\ Move
    /\ toasts' = Without(toasts, id)
    /\ Show(open)
    /\ UNCHANGED <<page, asking, timers, toastId, theming, chord, palette>>

-----------------------------------------------------------------------------
(* Theme.                                                                  *)

IsDark(t, o) == t = "dark" \/ (t = "system" /\ o = "dark")

ApplyTheme(t) == stored' = t /\ dark' = IsDark(t, os)

\* toggleTheme() and the PATCH it sends.
ToggleTheme ==
    LET t == IF IsDark(theme, os) THEN "light" ELSE "dark"
    IN /\ theme' = t /\ ApplyTheme(t)
       /\ sent' = sent \cup {[id |-> moves + 1, theme |-> t]}
       /\ UNCHANGED <<os, saved, initial>>

\* The server handles the requests in any order, or fails one: the error is swallowed.
PatchHandled(p) ==
    /\ sent' = sent \ {p}
    /\ saved' \in {saved, p.theme}
    /\ Show(open)
    /\ key' = FALSE
    /\ UNCHANGED <<page, asking, toasting, theme, stored, dark, os, initial, chord, palette, moves>>

\* /api/auth/state was answered again: where the account's theme differs from the
\* one answered before, it wins over this window's.
Reread(t) ==
    IF t = initial THEN UNCHANGED <<theme, stored, dark>> ELSE theme' = t /\ ApplyTheme(t)

OnScheme(o) == dark' = IF stored = "system" THEN o = "dark" ELSE dark

SystemSwitches ==
    /\ Move
    /\ os' = IF os = "dark" THEN "light" ELSE "dark"
    /\ OnScheme(os')
    /\ UNCHANGED <<layers, asking, toasting, theme, stored, saved, initial, sent, chord, palette>>

-----------------------------------------------------------------------------
(* The palette.  Its items, by group: two pages, a host, a container (only *)
(* for a search), two actions.  A search finds the container best, then    *)
(* the host, then one action.                                              *)

Item(g, r, s) == [group |-> g, run |-> r, best |-> s]
Navigation == <<Item("nav", "page", 0), Item("nav", "page", 0)>>
HostItems == IF "hosts" \in loaded THEN <<Item("host", "page", 2)>> ELSE <<>>
ContainerItems == IF "containers" \in loaded THEN <<Item("ctr", "side", 3)>> ELSE <<>>
Found == <<Item("act", "dialog", 1)>>
Actions == Found \o <<Item("act", "theme", 0)>>

\* The results, flat: every group in its order, or the matches with the best group first.
Flat == IF q THEN ContainerItems \o HostItems \o Found
             ELSE Navigation \o HostItems \o Actions

OpenPaletteWith(o) == Show(o \cup {"palette"}) /\ q' = FALSE /\ active' = 0 /\ shrunk' = FALSE

ResetActive == active' = 0 /\ shrunk' = FALSE

TypeQuery ==
    /\ Move /\ "palette" \in open
    /\ q' = ~q
    /\ ResetActive
    /\ UNCHANGED <<layers, asking, toasting, theming, chord, loaded>>

Arrow(d) ==
    /\ Move /\ "palette" \in open
    /\ active' = IF Flat = <<>> THEN 0 ELSE (active + d + Len(Flat)) % Len(Flat)
    /\ shrunk' = FALSE
    /\ UNCHANGED <<layers, asking, toasting, theming, chord, q, loaded>>

\* A list the palette reads is answered, or answered again without what was removed.
ListAnswered(l) ==
    /\ Move /\ "palette" \in open
    /\ loaded' = IF l \in loaded THEN loaded \ {l} ELSE loaded \cup {l}
    /\ shrunk' = (shrunk \/ l \in loaded)
    /\ UNCHANGED <<layers, asking, toasting, theming, chord, q, active>>

\* What an item does once the palette is closed.
RunItem(i) ==
    LET o == open \ {"palette"}
    IN CASE i.run = "page"   -> page' \in Pages /\ Show(o) /\ UNCHANGED theming
         [] i.run = "side"   -> Show(o \cup {"side"}) /\ UNCHANGED <<page, theming>>
         [] i.run = "dialog" -> Show(o \cup {"dialog"}) /\ UNCHANGED <<page, theming>>
         [] i.run = "theme"  -> ToggleTheme /\ Show(o) /\ UNCHANGED page

Enter ==
    /\ Move /\ "palette" \in open /\ active + 1 \in DOMAIN Flat
    /\ RunItem(Flat[active + 1])
    /\ UNCHANGED <<asking, toasting, chord, palette>>

-----------------------------------------------------------------------------
(* Clicks.                                                                 *)

\* The dock, the command bar and the page: go somewhere or put a layer on top.
Click(what) ==
    /\ Move /\ PageFree
    /\ CASE what = "page"    -> page' \in Pages \ {page} /\ Show(Clicked) /\ UNCHANGED <<theming, palette>>
         [] what = "palette" -> OpenPaletteWith(Clicked) /\ UNCHANGED <<page, theming, loaded>>
         [] what = "theme"   -> ToggleTheme /\ Show(Clicked) /\ UNCHANGED <<page, palette>>
         [] OTHER            -> Show(Clicked \cup {what}) /\ UNCHANGED <<page, theming, palette>>
    /\ UNCHANGED <<asking, toasting, chord>>

\* The "+": pressing it is outside the open menu, which closes, and the click opens it again.
OpenCreate ==
    /\ Move /\ PageFree
    /\ ShowMenu("create")
    /\ UNCHANGED <<page, asking, toasting, theming, chord, palette>>

\* A row of the create menu: the menu closes first.
PickCreate(what) ==
    /\ Move /\ PageFree /\ "create" \in open
    /\ IF what = "dialog" THEN Show(Clicked \cup {"dialog"}) /\ UNCHANGED page
                          ELSE HideMenu("create") /\ page' \in Pages
    /\ UNCHANGED <<asking, toasting, theming, chord, palette>>

\* The side panel opens the terminal; a dropdown opens inside a dialog.
OpenTerminal ==
    /\ Move /\ NoScrim /\ "side" \in open
    /\ Show(open \cup {"term"})
    /\ UNCHANGED <<page, asking, toasting, theming, chord, palette>>

OpenPick ==
    /\ Move /\ "dialog" \in open /\ open \cap {"confirm", "pick"} = {}
    /\ ShowMenu("pick")
    /\ UNCHANGED <<page, asking, toasting, theming, chord, palette>>

ClosePick ==
    /\ Move /\ "pick" \in open
    /\ HideMenu("pick")
    /\ UNCHANGED <<page, asking, toasting, theming, chord, palette>>

\* The cross or the scrim of a layer; a notification that leads somewhere closes the drawer.
Close(l) ==
    /\ Move /\ l \in open
    /\ l \in {"side", "term", "notif"} => NoScrim
    /\ l = "side" => "notif" \notin open
    /\ Show(open \ {l, IF l = "dialog" THEN "pick" ELSE l})
    /\ IF l = "notif" THEN page' \in Pages ELSE UNCHANGED page
    /\ UNCHANGED <<asking, toasting, theming, chord, palette>>

-----------------------------------------------------------------------------
(* Keys.                                                                   *)

Blocked == open \cap {"dialog", "confirm"} # {}

\* Ctrl+K works wherever the shell is not blocked, outside the terminal.
CtrlK ==
    /\ Move /\ ~Blocked
    /\ IF "palette" \in open THEN Show(open \ {"palette"}) /\ UNCHANGED <<q, active, shrunk>>
                             ELSE OpenPaletteWith(open)
    /\ UNCHANGED <<page, asking, toasting, theming, chord, loaded>>

Listens == ~Blocked /\ "palette" \notin open

\* A key pressed outside every field.
Press(k) ==
    /\ Move /\ Listens
    /\ IF "keys" \in open
         THEN k = "?" /\ Show(open \ {"keys"}) /\ UNCHANGED <<page, chord, theming, palette>>
         ELSE \/ /\ k = "d" /\ chord /\ chord' = FALSE
                 /\ page' \in Pages /\ UNCHANGED <<open, capture, theming, palette>>
              \/ /\ k = "?" /\ chord' = FALSE /\ Show(open \cup {"keys"}) /\ UNCHANGED <<page, theming, palette>>
              \/ /\ k = "/" /\ chord' = FALSE /\ OpenPaletteWith(open) /\ UNCHANGED <<page, theming, loaded>>
              \/ /\ k = "g" /\ chord' = TRUE /\ UNCHANGED <<layers, theming, palette>>
              \/ /\ k = "n" /\ chord' = FALSE /\ Show(open \cup {"notif"}) /\ UNCHANGED <<page, theming, palette>>
              \/ /\ k = "t" /\ chord' = FALSE /\ ToggleTheme /\ Show(open) /\ UNCHANGED <<page, palette>>
    /\ UNCHANGED <<asking, toasting>>

ChordExpires ==
    /\ chord /\ chord' = FALSE /\ key' = FALSE
    /\ UNCHANGED <<layers, asking, toasting, theming, palette, moves>>

\* The capture phase: a Dialog lets the listeners after it run, a menu does not.
Menus == {i \in DOMAIN capture : capture[i] \in {"create", "pick"}}
CaptureCloses == {capture[i] : i \in {j \in DOMAIN capture : \A m \in Menus : j <= m}}

\* (mutant) Dialogs listen in the bubble phase and let the key through.
StopsNever == FALSE
Stops == capture # <<>>

\* The bubble phase, over what the palette's own handler left.
BubbleCloses(at) ==
    LET left == IF at = "palette" THEN open \ {"palette"} ELSE open
    IN CASE at = "xterm" -> {}
         [] at = "term"  -> IF left \cap Scrims = {} THEN {"term"} ELSE {}
         [] OTHER -> (open \ left) \cup (IF left \cap Scrims = {} THEN {"side"} ELSE {})
                       \cup {"notif", "confirm"}

Escape(at) ==
    LET gone == (CaptureCloses \cup (IF Stops THEN {} ELSE BubbleCloses(at))) \cap open
        all == gone \cup (IF "dialog" \in gone THEN {"pick"} ELSE {})
    IN /\ moves < MaxMoves /\ moves' = moves + 1 /\ key' = TRUE
       /\ at \in {"palette"} => "palette" \in open
       /\ at \in {"term", "xterm"} => "term" \in open
       /\ gone # {} \/ chord
       /\ IF all \in {{"create"}, {"pick"}} THEN \E l \in all : HideMenu(l) ELSE Show(open \ all)
       /\ IF "confirm" \in gone THEN CloseQuestion(FALSE) ELSE UNCHANGED <<questions, ask, typed>>
       /\ chord' = (chord /\ (Stops \/ at # "page" \/ ~Listens))
       /\ UNCHANGED <<page, blasts, toasting, theming, palette>>

-----------------------------------------------------------------------------
ShellInit ==
    /\ page = Home /\ open = {} /\ capture = <<>>
    /\ questions = <<>> /\ ask = 0 /\ typed = Blank /\ blasts = 0
    /\ toasts = <<>> /\ timers = {} /\ toastId = 0
    /\ os = "light" /\ saved \in Themes
    /\ theme = saved /\ stored = saved /\ initial = saved /\ dark = IsDark(saved, os) /\ sent = {}
    /\ chord = FALSE /\ q = FALSE /\ active = 0 /\ loaded = {} /\ shrunk = FALSE
    /\ key = FALSE /\ moves = 0

Expire == \E id \in timers : ToastExpires(id)

ShellNext ==
    \/ \E n \in Names \cup {Untyped} : Asks(n)
    \/ PressReboot \/ BlastKnown
    \/ \E n \in Names : TypeName(n)
    \/ \E v \in BOOLEAN : AnswerQuestion(v)
    \/ \E n \in {1, 4} : Toast(n)
    \/ Expire
    \/ \E i \in DOMAIN toasts : DismissToast(toasts[i])
    \/ \E p \in sent : PatchHandled(p)
    \/ SystemSwitches
    \/ TypeQuery \/ Enter
    \/ \E d \in {1} : Arrow(d) \/ Arrow(0 - d)
    \/ \E l \in {"hosts", "containers"} : ListAnswered(l)
    \/ \E w \in {"page", "palette", "theme", "side", "term", "notif", "keys", "dialog"} : Click(w)
    \/ OpenCreate \/ OpenTerminal \/ OpenPick \/ ClosePick
    \/ \E w \in {"page", "dialog"} : PickCreate(w)
    \/ \E l \in {"side", "term", "notif", "palette", "keys", "dialog"} : Close(l)
    \/ CtrlK \/ ChordExpires
    \/ \E k \in {"d", "?", "/", "g", "n", "t"} : Press(k)
    \/ \E at \in {"page", "palette", "term", "xterm"} : Escape(at)

\* A shell is mounted, or unmounted: nothing of the last one is left.
Fresh ==
    /\ Show({})
    /\ questions' = <<>> /\ ask' = 0 /\ typed' = Blank /\ blasts' = 0
    /\ toasts' = <<>> /\ timers' = {} /\ toastId' = 0
    /\ chord' = FALSE /\ q' = FALSE /\ active' = 0 /\ loaded' = {} /\ shrunk' = FALSE

\* It takes the theme of the answer; a shell that goes leaves document and storage as they are.
Mount(t) == Fresh /\ theme' = t /\ ApplyTheme(t)
Unmount == Fresh /\ UNCHANGED <<theme, stored, dark>>

-----------------------------------------------------------------------------
(* Whatever layer took the key, the latest question is either answered or  *)
(* still on screen: a promise is lost only to a later question (AppShell's *)
(* confirm and ConfirmDialog).                                             *)
LastQuestionIsShown ==
    /\ (ask # 0) = ("confirm" \in open)
    /\ ask # 0 => ask = Len(questions)
    /\ \A i \in DOMAIN questions :
         i = Len(questions) /\ questions[i].answer = "waiting" => ask = i

(* Escape taken by a menu or a Dialog goes no further: the side panel, the *)
(* terminal, the drawer and a question stay (useOutside and Dialog of      *)
(* components/ui).                                                         *)
EscapeStopsAtADialog ==
    [][key' /\ open \cap {"create", "keys", "pick", "dialog"} # {}
         => open \cap {"side", "term", "notif", "confirm"} \subseteq open']_shell

(* Escape that answers a question leaves the side panel under it, though   *)
(* both listen to the window (ContainerSidecar looks for a scrim).         *)
QuestionShieldsSidePanel ==
    [][key' /\ {"confirm", "side"} \subseteq open => "side" \in open']_shell

\* The document and the stored theme say what the window's state says.
ThemeApplied == stored = theme /\ dark = IsDark(theme, os)

(* A toast on screen has a timer that will remove it, however many were    *)
(* pushed out or dismissed before; the newest four are shown, in order.    *)
ToastsWillLeave ==
    /\ Len(toasts) <= 4
    /\ \A i \in DOMAIN toasts : toasts[i] \in timers
    /\ \A i, j \in DOMAIN toasts : i < j => toasts[i] < toasts[j]

(* The palette highlights one of its results, unless a list lost entries   *)
(* since the highlight moved (the effect that resets active on a query).   *)
HighlightIsAResult ==
    "palette" \in open /\ ~shrunk => active < Len(Flat) \/ (active = 0 /\ Flat = <<>>)
=============================================================================
