---------------------------- MODULE ScreenProofs ----------------------------
(***************************************************************************)
(* More theorems about the pages and dialogs of Pages, on the invariants   *)
(* of PagesProofs: what is told, acted on, kept and shown as saved.        *)
(***************************************************************************)
EXTENDS PagesProofs, WellFoundedInduction

-----------------------------------------------------------------------------
(* A set of natural numbers has a least one.                               *)
LEMMA LeastNat == ASSUME NEW S, S \subseteq Nat, S # {} PROVE \E m \in S : \A k \in S : m <= k
<1> DEFINE R == OpToRel(<, Nat)
<1>1. IsWellFoundedOn(R, Nat)
  BY NatLessThanWellFounded
<1>2. R = {ss \in Nat \X Nat : ss[1] < ss[2]}
  BY DEF OpToRel
<1> HIDE DEF R
<1>3. PICK m \in S : \A k \in S : ~(<<k, m>> \in R)
  BY <1>1, WFMin
<1>4. ASSUME NEW k \in S PROVE m <= k
  <2>1. ~(<<k, m>> \in R) /\ k \in Nat /\ m \in Nat
    BY <1>3
  <2>2. <<k, m>> \in Nat \X Nat /\ <<k, m>>[1] = k /\ <<k, m>>[2] = m
    BY <2>1
  <2>3. ~(k < m)
    BY <1>2, <2>1, <2>2
  <2> QED
    BY <2>1, <2>3
<1> QED
  BY <1>4

-----------------------------------------------------------------------------
(* What trackJob says.                                                     *)
TruthInv == DoneIsSuccess /\ GivesUpAfterSilence

(* A toast of a job that says so when it is so.                            *)
LEMMA TellTruth ==
    ASSUME ToldInv, DoneIsSuccess, NEW j \in Jobs, NEW x \in Toasts, x = "ok" => work[j] = "success", Tell(j, x), UNCHANGED work
    PROVE  DoneIsSuccess'
<1>1. /\ Len(told') = Len(told) /\ told'[j] = Append(told[j], x)
      /\ \A i \in Jobs \ {j} : told'[i] = told[i]
  BY TellInv
<1>2. told[j] \in Seq(Toasts) /\ Jobs' = Jobs
  BY DEF ToldInv, Jobs
<1>3. ASSUME NEW k \in DOMAIN told'[j], told'[j][k] = "ok" PROVE work[j] = "success"
  <2>1. k \in 1..(Len(told[j]) + 1)
    BY <1>1, <1>2, <1>3
  <2>2. CASE k = Len(told[j]) + 1
    BY <1>1, <1>2, <1>3, <2>2
  <2>3. CASE k # Len(told[j]) + 1
    <3>1. k \in DOMAIN told[j] /\ told'[j][k] = told[j][k]
      BY <1>1, <1>2, <2>1, <2>3
    <3> QED
      BY <1>3, <3>1 DEF DoneIsSuccess
  <2> QED
    BY <2>2, <2>3
<1> QED
  BY <1>1, <1>2, <1>3 DEF DoneIsSuccess

(* A job that starts has no toasts.                                        *)
LEMMA StartTruth == ASSUME ToldInv, DoneIsSuccess, StartJob PROVE DoneIsSuccess'
<1>1. /\ Len(work') = Len(work) + 1 /\ Len(work) \in Nat /\ told'[Len(work) + 1] = <<>>
      /\ \A i \in Jobs : told'[i] = told[i] /\ work'[i] = work[i]
  <2>1. \A i \in Jobs : work'[i] = work[i]
    BY DEF ToldInv, StartJob, Jobs
  <2> QED
    BY <2>1, StartInv
<1>2. ASSUME NEW j \in Jobs', NEW i \in DOMAIN told'[j], told'[j][i] = "ok" PROVE work'[j] = "success"
  <2>1. CASE j \in Jobs
    BY <1>1, <1>2, <2>1 DEF DoneIsSuccess
  <2>2. CASE j = Len(work) + 1
    BY <1>1, <1>2, <2>2
  <2> QED
    BY <1>1, <2>1, <2>2 DEF Jobs
<1> QED
  BY <1>2 DEF DoneIsSuccess

(* A job that ends was not yet said to be done.                            *)
LEMMA DoneTruth == ASSUME ToldInv, DoneIsSuccess, NEW j \in Jobs, WorkIsDone(j), UNCHANGED told PROVE DoneIsSuccess'
<1>1. Jobs' = Jobs /\ \A i \in Jobs : work[i] = "success" => work'[i] = "success"
  BY DoneInv DEF WorkIsDone, ToldInv, Jobs
<1> QED
  BY <1>1 DEF DoneIsSuccess

(* A poll says only what it found, and its tracker counts the misses in a  *)
(* row.                                                                    *)
LEMMA PollTruth ==
    ASSUME ToldInv, TruthInv, NEW t \in trackers, PollRuns(t) \/ PollEnds(t) \/ PollMisses(t) \/ GivesUp(t)
    PROVE  TruthInv'
<1>t. DOMAIN t = {"job", "owner", "misses", "silent", "seen"} /\ t.job \in Jobs /\ t.misses = t.silent
  BY DEF ToldInv, IsTracker, TruthInv, GivesUpAfterSilence
<1>d. DoneIsSuccess
  BY DEF TruthInv
<1>1. CASE PollRuns(t)
  <2>1. PollAnswered(t).misses = PollAnswered(t).silent
    BY <1>t DEF PollAnswered
  <2> QED
    BY <1>1, <2>1 DEF PollRuns, TruthInv, DoneIsSuccess, GivesUpAfterSilence, Jobs
<1>2. CASE PollEnds(t)
  <2>1. Verdict(work[t.job]) \in Toasts /\ (Verdict(work[t.job]) = "ok" => work[t.job] = "success")
    BY DEF Verdict, Toasts
  <2>2. DoneIsSuccess'
    BY <1>2, <1>t, <1>d, <2>1, TellTruth DEF PollEnds
  <2> QED
    BY <1>2, <2>2 DEF PollEnds, TruthInv, GivesUpAfterSilence
<1>3. CASE PollMisses(t)
  <2> DEFINE u == [t EXCEPT !.misses = @ + 1, !.silent = @ + 1]
  <2>1. u.misses = u.silent
    BY <1>t
  <2> HIDE DEF u
  <2>2. trackers' = (trackers \ {t}) \cup {u} /\ UNCHANGED <<work, told>>
    BY <1>3 DEF PollMisses, u
  <2> QED
    BY <2>1, <2>2 DEF TruthInv, DoneIsSuccess, GivesUpAfterSilence, Jobs
<1>4. CASE GivesUp(t)
  <2>1. PICK x \in {"lost", "failed"} : Tell(t.job, x)
    BY <1>4 DEF GivesUp
  <2>2. DoneIsSuccess'
    BY <1>4, <1>t, <1>d, <2>1, TellTruth DEF GivesUp, Toasts
  <2> QED
    BY <1>4, <2>2 DEF GivesUp, TruthInv, GivesUpAfterSilence
<1> QED
  BY <1>1, <1>2, <1>3, <1>4

(* The dialogs that start a job tell the truth.                            *)
LEMMA JobTruth == ASSUME JobInv, TruthInv, JobStep \/ UNCHANGED jobVars PROVE TruthInv'
<1>i. ToldInv
  BY DEF JobInv
<1>s. ASSUME UNCHANGED trackVars PROVE TruthInv'
  BY <1>s DEF trackVars, TruthInv, DoneIsSuccess, GivesUpAfterSilence, Jobs
<1>1. CASE UNCHANGED jobVars
  BY <1>1, <1>s DEF jobVars
<1>2. ASSUME NEW p, Started(p) PROVE TruthInv'
  BY <1>i, <1>2, StartTruth DEF Started, TruthInv, GivesUpAfterSilence
<1>3. ASSUME NEW j \in Jobs, WorkEnds(j) PROVE TruthInv'
  BY <1>i, <1>3, DoneTruth DEF WorkEnds, TruthInv, GivesUpAfterSilence
<1>4. CASE ShowJob
  <2>1. CASE Announces(jd)
    <3>1. jd.job \in Jobs
      BY <1>4, <2>1 DEF ShowJob, JobInv, Jobs
    <3>2. Verdict(work[jd.job]) \in Toasts /\ (Verdict(work[jd.job]) = "ok" => work[jd.job] = "success")
      BY DEF Verdict, Toasts
    <3>3. Tell(jd.job, Verdict(work[jd.job])) /\ UNCHANGED <<work, trackers>>
      BY <1>4, <2>1 DEF ShowJob
    <3> QED
      BY <1>i, <3>1, <3>2, <3>3, TellTruth DEF TruthInv, GivesUpAfterSilence
  <2>2. CASE ~Announces(jd)
    BY <1>4, <1>s, <2>2 DEF ShowJob, trackVars
  <2> QED
    BY <2>1, <2>2
<1>5. CASE CloseJobDialog
  <2>1. Tracker(jd.job, "rebuild").misses = Tracker(jd.job, "rebuild").silent
    BY DEF Tracker
  <2> QED
    BY <1>5, <2>1 DEF CloseJobDialog, TruthInv, DoneIsSuccess, GivesUpAfterSilence, Jobs
<1>6. CASE TrackerPolls
  BY <1>i, <1>6, PollTruth DEF TrackerPolls, Polls
<1>7. ASSUME NEW k, NEW j, OpenJobDialog(k, j) PROVE TruthInv'
  BY <1>s, <1>7 DEF OpenJobDialog
<1>8. CASE Fetched \/ SetForce \/ ToCompose \/ Apply \/ TryAgain
  BY <1>s, <1>8 DEF Fetched, SetForce, ToCompose, Apply, TryAgain
<1>9. ASSUME NEW x, EditText(x) \/ Refused(x) PROVE TruthInv'
  BY <1>s, <1>9 DEF EditText, Refused
<1> QED
  BY <1>1, <1>2, <1>3, <1>4, <1>5, <1>6, <1>7, <1>8, <1>9 DEF JobStep

(* So does the page of a host.                                             *)
LEMMA PageTruth == ASSUME PageToldInv, TruthInv, ListStep \/ PanelStep \/ UNCHANGED trackVars PROVE TruthInv'
<1>i. ToldInv
  BY DEF PageToldInv
<1>s. ASSUME UNCHANGED trackVars PROVE TruthInv'
  BY <1>s DEF trackVars, TruthInv, DoneIsSuccess, GivesUpAfterSilence, Jobs
<1>1. ASSUME NEW q, JobStarts(q) PROVE TruthInv'
  <2> DEFINE n == Tracker(Len(work) + 1, Owner(q))
  <2>1. n.misses = n.silent
    BY DEF Tracker
  <2>2. StartJob /\ trackers' = trackers \cup {n}
    BY <1>1 DEF JobStarts
  <2> HIDE DEF n
  <2>3. DoneIsSuccess'
    BY <1>i, <2>2, StartTruth DEF TruthInv
  <2> QED
    BY <2>1, <2>2, <2>3 DEF TruthInv, GivesUpAfterSilence
<1>2. ASSUME NEW t \in trackers, PageTracks(t) PROVE TruthInv'
  BY <1>i, <1>2, PollTruth DEF PageTracks
<1>3. ASSUME NEW t \in trackers, PageJobEnds(t) PROVE TruthInv'
  <2>1. WorkIsDone(t.job) /\ UNCHANGED <<trackers, told>> /\ t.job \in Jobs
    BY <1>i, <1>3 DEF PageJobEnds, ToldInv, IsTracker
  <2> QED
    BY <1>i, <2>1, DoneTruth DEF TruthInv, GivesUpAfterSilence
<1>4. CASE Refresh \/ Confirmed \/ Dismissed \/ BulkStop \/ BulkStart \/ HeaderJob \/ StorageJob \/ StackRun \/ StackStop
  BY <1>s, <1>4 DEF Refresh, Confirmed, Dismissed, BulkStop, BulkStart, HeaderJob, StorageJob, StackRun, StackStop, Asks
<1>5. ASSUME NEW n, Elsewhere(n) \/ Select(n) \/ CardAction(n) \/ UpdateContainer(n) \/ RemoveContainer(n) PROVE TruthInv'
  BY <1>s, <1>5 DEF Elsewhere, Select, CardAction, UpdateContainer, RemoveContainer, Asks
<1>6. ASSUME NEW q, BulkAnswers(q) \/ CardAnswers(q) \/ RemoveAnswers(q) \/ JobRefused(q) PROVE TruthInv'
  BY <1>s, <1>6 DEF BulkAnswers, CardAnswers, RemoveAnswers, JobRefused
<1>7. CASE CloseSide \/ PanelAction \/ SwitchTab \/ RemoveShown \/ DetailArrives \/ EditConfig \/ CancelEdit \/ SaveEnv
  BY <1>s, <1>7 DEF CloseSide, PanelAction, SwitchTab, RemoveShown, DetailArrives, EditConfig, CancelEdit, SaveEnv, Asks
<1>8. ASSUME NEW n, NEW e, OpenSide(n, e) \/ EditRows(e) PROVE TruthInv'
  BY <1>s, <1>8 DEF OpenSide, EditRows
<1> QED
  BY <1>s, <1>1, <1>2, <1>3, <1>4, <1>5, <1>6, <1>7, <1>8 DEF ListStep, PanelStep, PageAnswers, PageWork

-----------------------------------------------------------------------------
(* The parser of SSH configs.                                              *)

(* What holds at first and is kept from one index to the next holds at all *)
(* of them.                                                                *)
LEMMA StaysIn ==
    ASSUME NEW N \in Nat, NEW f, NEW S, f[0] \in S, \A i \in 1..N : f[i - 1] \in S => f[i] \in S
    PROVE  \A i \in 0..N : f[i] \in S
<1> DEFINE B == {i \in 0..N : f[i] \notin S}
<1>1. ASSUME B # {} PROVE FALSE
  <2> HIDE DEF B
  <2>0. B \subseteq Nat
    BY DEF B
  <2>1. PICK m \in B : \A k \in B : m <= k
    BY <1>1, <2>0, LeastNat
  <2> USE DEF B
  <2>2. m # 0 /\ m - 1 \in 0..N /\ m - 1 \notin B /\ m \in 1..N
    BY <2>1
  <2> QED
    BY <2>1, <2>2
<1> QED
  BY <1>1

(* What makes each value from the one before, and that there is a function *)
(* made so.                                                                *)
Makers(N, S) == [1..N -> [S -> S]]

(* A function that makes each of its values from the one before exists.    *)
LEMMA StepsExist ==
    ASSUME NEW N \in Nat, NEW S, NEW b \in S, NEW g \in Makers(N, S)
    PROVE  \E f \in [0..N -> S] : f[0] = b /\ \A i \in 1..N : f[i] = g[i][f[i - 1]]
<1>0. g \in [1..N -> [S -> S]]
  BY DEF Makers
<1> DEFINE Good(n) == \E f \in [0..n -> S] : f[0] = b /\ \A i \in 1..n : f[i] = g[i][f[i - 1]]
           B == {n \in 0..N : ~Good(n)}
<1>1. ASSUME B # {} PROVE FALSE
  <2> HIDE DEF B
  <2>0. B \subseteq Nat
    BY DEF B
  <2>1. PICK m \in B : \A k \in B : m <= k
    BY <1>1, <2>0, LeastNat
  <2>2. Good(0)
    <3> DEFINE f == [i \in 0..0 |-> b]
    <3>1. f \in [0..0 -> S] /\ f[0] = b /\ 1..0 = {}
      OBVIOUS
    <3> QED
      BY <3>1
  <2>b. \A n : n \in B <=> n \in 0..N /\ ~Good(n)
    BY DEF B
  <2> HIDE DEF Good
  <2>3. m # 0 /\ m \in 1..N /\ m - 1 \in 0..N /\ m - 1 \notin B
    BY <2>1, <2>2, <2>b
  <2>4. Good(m - 1)
    BY <2>3, <2>b
  <2> USE DEF Good
  <2>5. PICK f \in [0..(m - 1) -> S] : f[0] = b /\ \A i \in 1..(m - 1) : f[i] = g[i][f[i - 1]]
    BY <2>4
  <2> DEFINE h == [i \in 0..m |-> IF i = m THEN g[m][f[m - 1]] ELSE f[i]]
  <2>6. h \in [0..m -> S]
    BY <1>0, <2>3, <2>5
  <2>7. h[0] = b
    BY <2>3, <2>5
  <2>8. ASSUME NEW i \in 1..m PROVE h[i] = g[i][h[i - 1]]
    <3>1. CASE i = m
      <4>1. m - 1 \in 0..m /\ m - 1 # m
        BY <2>3
      <4> QED
        BY <3>1, <4>1, <2>3
    <3>2. CASE i # m
      <4>1. i \in 1..(m - 1) /\ i - 1 \in 0..(m - 1)
        BY <3>2, <2>3
      <4>2. h[i] = f[i] /\ h[i - 1] = f[i - 1]
        BY <4>1, <3>2, <2>3
      <4> QED
        BY <4>1, <4>2, <2>5
    <3> QED
      BY <3>1, <3>2
  <2> HIDE DEF h
  <2>9. Good(m)
    BY <2>6, <2>7, <2>8
  <2> HIDE DEF Good
  <2> QED
    BY <2>1, <2>b, <2>9
<1> HIDE DEF Good
<1>2. N \in 0..N /\ N \notin B
  BY <1>1
<1>3. Good(N)
  BY <1>2
<1> QED
  BY <1>3 DEF Good

-----------------------------------------------------------------------------
(* What the parser has read: entries, and the block that is open.          *)
Patterns == HostNames \cup Wild
Addresses == {l.addr : l \in Lines} \cup {None}
Entry == [name : HostNames, addr : Addresses \cup Patterns]
Scan == [out : Seq(Entry), cur : [on : BOOLEAN, names : Seq(Patterns), addr : Addresses]]

(* A block that ends leaves entries.                                       *)
LEMMA FlushTyped == ASSUME NEW st \in Scan PROVE Flush(st) \in Seq(Entry)
<1> DEFINE names == st.cur.names
           N == Len(names)
           EntryOf(n) == [name |-> n, addr |-> IF st.cur.addr = None THEN n ELSE st.cur.addr]
           Loop(f) == [i \in 0..N |-> IF i = 0 THEN st.out ELSE IF names[i] \in Wild THEN f[i - 1] ELSE Append(f[i - 1], EntryOf(names[i]))]
           g == [i \in 1..N |-> [o \in Seq(Entry) |-> IF names[i] \in Wild THEN o ELSE Append(o, EntryOf(names[i]))]]
           done == CHOOSE f : f = Loop(f)
<1>1. Flush(st) = done[N]
  BY DEF Flush
<1>2. st.out \in Seq(Entry) /\ names \in Seq(Patterns) /\ N \in Nat /\ st.cur.addr \in Addresses
  BY DEF Scan
<1>3. ASSUME NEW i \in 1..N, names[i] \notin Wild PROVE EntryOf(names[i]) \in Entry
  <2>1. names[i] \in HostNames
    BY <1>2, <1>3 DEF Patterns
  <2> QED
    BY <1>2, <2>1 DEF Entry, Patterns
<1> HIDE DEF EntryOf, names, N
<1>4. g \in [1..N -> [Seq(Entry) -> Seq(Entry)]]
  BY <1>3
<1>5. PICK h \in [0..N -> Seq(Entry)] : h[0] = st.out /\ \A i \in 1..N : h[i] = g[i][h[i - 1]]
  <2> DEFINE S == Seq(Entry)
             b == st.out
  <2>1. g \in Makers(N, S) /\ b \in S /\ N \in Nat
    BY <1>2, <1>4 DEF Makers
  <2> HIDE DEF g, S, b
  <2>2. \E f \in [0..N -> S] : f[0] = b /\ \A i \in 1..N : f[i] = g[i][f[i - 1]]
    BY <2>1, StepsExist
  <2> QED
    BY <2>2 DEF S, b
<1>6. h = Loop(h)
  <2>1. ASSUME NEW i \in 0..N PROVE h[i] = Loop(h)[i]
    <3>1. CASE i = 0
      BY <1>5, <3>1
    <3>2. CASE i # 0
      <4>1. i \in 1..N /\ i - 1 \in 0..N
        BY <1>2, <3>2
      <4> QED
        BY <1>5, <3>2, <4>1
    <3> QED
      BY <3>1, <3>2
  <2> QED
    BY <1>5, <2>1
<1>7. done = Loop(done)
  <2> HIDE DEF Loop
  <2> QED
    BY <1>6
<1> HIDE DEF done
<1>8. done[0] \in Seq(Entry)
  BY <1>2, <1>7
<1>9. ASSUME NEW i \in 1..N, done[i - 1] \in Seq(Entry) PROVE done[i] \in Seq(Entry)
  <2>1. i \in 0..N /\ i # 0
    BY <1>2
  <2>2. done[i] = Loop(done)[i]
    BY <1>7 DEF Loop
  <2>3. done[i] = IF names[i] \in Wild THEN done[i - 1] ELSE Append(done[i - 1], EntryOf(names[i]))
    BY <2>1, <2>2
  <2> QED
    BY <1>3, <1>9, <2>3
<1>10. \A i \in 0..N : done[i] \in Seq(Entry)
  BY <1>2, <1>8, <1>9, StaysIn
<1> QED
  BY <1>1, <1>2, <1>10

(* So does a config.                                                       *)
LEMMA ParseTyped == ASSUME NEW text \in Seq(Lines) PROVE parseSshConfig(text) \in Seq(Entry)
<1> DEFINE N == Len(text)
           first == [out |-> <<>>, cur |-> NoBlock]
           Loop(f) == [i \in 0..N |-> IF i = 0 THEN first ELSE ParseLine(f[i - 1], text[i])]
           g == [i \in 1..N |-> [s \in Scan |-> ParseLine(s, text[i])]]
           st == CHOOSE f : f = Loop(f)
<1>1. parseSshConfig(text) = Flush(st[N])
  BY DEF parseSshConfig
<1>2. first \in Scan /\ N \in Nat
  BY DEF Scan, NoBlock, Addresses
<1>3. ASSUME NEW s \in Scan, NEW l \in Lines PROVE ParseLine(s, l) \in Scan
  <2>0. l.key \in {"host", "match", "hostname"} /\ (l.key = "host" => l.names \in Seq(Patterns)) /\ l.addr \in Addresses /\ None \in Addresses
    BY SetConstants DEF Patterns, Addresses
  <2>1. Flush(s) \in Seq(Entry) /\ s.out \in Seq(Entry)
    BY FlushTyped DEF Scan
  <2>2. CASE l.key = "host"
    BY <2>0, <2>1, <2>2 DEF ParseLine, Scan
  <2>3. CASE l.key = "match"
    BY <2>0, <2>1, <2>3 DEF ParseLine, Scan, NoBlock
  <2>4. CASE l.key = "hostname"
    BY <2>0, <2>1, <2>4 DEF ParseLine, Scan
  <2> QED
    BY <2>0, <2>2, <2>3, <2>4
<1> HIDE DEF N, first
<1>4. g \in [1..N -> [Scan -> Scan]] /\ \A i \in 1..N : text[i] \in Lines
  BY <1>3 DEF N
<1>5. PICK h \in [0..N -> Scan] : h[0] = first /\ \A i \in 1..N : h[i] = g[i][h[i - 1]]
  <2> HIDE DEF g
  <2>0. g \in Makers(N, Scan) /\ first \in Scan /\ N \in Nat
    BY <1>2, <1>4 DEF Makers
  <2>1. \E f \in [0..N -> Scan] : f[0] = first /\ \A i \in 1..N : f[i] = g[i][f[i - 1]]
    BY <2>0, StepsExist
  <2> QED
    BY <2>1
<1>6. h = Loop(h)
  <2>1. ASSUME NEW i \in 0..N PROVE h[i] = Loop(h)[i]
    <3>1. CASE i = 0
      BY <1>5, <3>1
    <3>2. CASE i # 0
      <4>1. i \in 1..N /\ i - 1 \in 0..N
        BY <1>2, <3>2
      <4> QED
        BY <1>5, <3>2, <4>1
    <3> QED
      BY <3>1, <3>2
  <2> QED
    BY <1>5, <2>1
<1>7. st = Loop(st)
  <2> HIDE DEF Loop
  <2> QED
    BY <1>6
<1> HIDE DEF st
<1>8. st[0] \in Scan
  BY <1>2, <1>7
<1>9. ASSUME NEW i \in 1..N, st[i - 1] \in Scan PROVE st[i] \in Scan
  <2>1. st[i] = ParseLine(st[i - 1], text[i])
    BY <1>2, <1>7
  <2> QED
    BY <1>3, <1>4, <1>9, <2>1
<1>10. \A i \in 0..N : st[i] \in Scan
  BY <1>2, <1>8, <1>9, StaysIn
<1> QED
  BY <1>1, <1>2, <1>10, FlushTyped

-----------------------------------------------------------------------------
(* The import: an entry that was clicked is to do, made or failed, and a   *)
(* host that was made is known to be even while its answer is on its way.  *)
ImportInv ==
    /\ itext \in Seq(Lines) /\ ImportIsAccounted
    /\ irun # None =>
        /\ DOMAIN irun = {"out", "all", "todo", "sent", "ok", "failed"}
        /\ irun.all \subseteq Nat /\ IsFiniteSet(irun.all)
        /\ irun.all = irun.todo \cup irun.ok \cup irun.failed
        /\ irun.todo \cap (irun.ok \cup irun.failed) = {} /\ irun.ok \cap irun.failed = {}
        /\ \A i, j \in irun.all : irun.out[i].name = irun.out[j].name => i = j
        /\ \A i \in irun.ok : irun.out[i].name \in imade
        /\ irun.sent => irun.todo # {} /\ irun.out[Current].name \in imade

(* The first of the entries to do is one of them.                          *)
LEMMA CurrentIsToDo == ASSUME irun.todo \subseteq Nat, irun.todo # {} PROVE Current \in irun.todo
  BY LeastNat DEF Current

(* The first entries of the names of a config are finitely many, each of   *)
(* another name.                                                           *)
LEMMA FirstsDiffer ==
    ASSUME NEW text \in Seq(Lines), NEW out, out = parseSshConfig(text)
    PROVE  /\ Firsts(out) \subseteq Nat /\ IsFiniteSet(Firsts(out))
           /\ \A i, j \in Firsts(out) : out[i].name = out[j].name => i = j
<1>1. out \in Seq(Entry)
  BY ParseTyped
<1>2. Firsts(out) \subseteq 1..Len(out) /\ Len(out) \in Nat
  BY <1>1 DEF Firsts
<1>3. IsFiniteSet(Firsts(out))
  <2>1. IsFiniteSet(1..Len(out))
    BY <1>2, FS_Interval
  <2> QED
    BY <1>2, <2>1, FS_Subset
<1>4. ASSUME NEW i \in Firsts(out), NEW j \in Firsts(out), i < j PROVE out[i].name # out[j].name
  <2>1. i \in 1..(j - 1)
    BY <1>2, <1>4
  <2> QED
    BY <2>1 DEF Firsts
<1> QED
  BY <1>2, <1>3, <1>4

(* What is told adds up.                                                   *)
LEMMA EndsAccounted == ASSUME ImportInv, EndImport PROVE ImportIsAccounted'
<1> DEFINE ok == irun.ok
           names == {irun.out[i].name : i \in ok}
           f == [i \in ok |-> irun.out[i].name]
<1>1. /\ irun.all \subseteq Nat /\ IsFiniteSet(irun.all) /\ irun.all = ok \cup irun.failed /\ ok \cap irun.failed = {}
      /\ \A i, j \in irun.all : irun.out[i].name = irun.out[j].name => i = j
      /\ \A i \in ok : irun.out[i].name \in imade
  BY DEF ImportInv, EndImport
<1>2. IsFiniteSet(ok) /\ IsFiniteSet(irun.failed)
  BY <1>1, FS_Subset
<1>3. f \in Bijection(ok, names)
  <2>1. f \in [ok -> names]
    OBVIOUS
  <2>2. \A a, b \in ok : f[a] = f[b] => a = b
    BY <1>1
  <2>3. \A n \in names : \E a \in ok : f[a] = n
    OBVIOUS
  <2> HIDE DEF f, names, ok
  <2> QED
    BY <2>1, <2>2, <2>3 DEF Bijection, Injection, Surjection, IsInjective
<1>4. Cardinality(names) = Cardinality(ok)
  BY <1>2, <1>3, FS_Bijection DEF ExistsBijection
<1>5. Cardinality(irun.all) = Cardinality(ok) + Cardinality(irun.failed)
  <2> DEFINE A == ok
             B == irun.failed
  <2>1. IsFiniteSet(A) /\ IsFiniteSet(B) /\ A \cap B = {} /\ irun.all = A \cup B
    BY <1>1, <1>2
  <2> HIDE DEF A, B
  <2>2. Cardinality(A \cup B) = Cardinality(A) + Cardinality(B) - Cardinality(A \cap B)
    BY <2>1, FS_Union
  <2>3. Cardinality(A \cap B) = 0 /\ Cardinality(A) \in Nat /\ Cardinality(B) \in Nat
    BY <2>1, FS_EmptySet, FS_CardinalityType
  <2>4. Cardinality(irun.all) = Cardinality(A) + Cardinality(B)
    BY <2>1, <2>2, <2>3
  <2> QED
    BY <2>4 DEF A, B
<1>6. itold' = [ok |-> names, failed |-> Cardinality(irun.failed), of |-> Cardinality(irun.all)] /\ imade' = imade
  BY DEF EndImport
<1> HIDE DEF f
<1>7. names \subseteq imade
  BY <1>1
<1> HIDE DEF names
<1>8. itold'.ok = names /\ itold'.failed = Cardinality(irun.failed) /\ itold'.of = Cardinality(irun.all)
  BY <1>6
<1> QED
  BY <1>4, <1>5, <1>6, <1>7, <1>8 DEF ImportIsAccounted

(* No step of the two pages breaks it.                                     *)
LEMMA ImportStays == ImportInv /\ (PickStep \/ ImportStep \/ UNCHANGED setVars) => ImportInv'
<1> SUFFICES ASSUME ImportInv, PickStep \/ ImportStep \/ UNCHANGED setVars PROVE ImportInv'
  OBVIOUS
<1>s. ASSUME UNCHANGED <<irun, itold>>, itext' \in Seq(Lines), imade \subseteq imade' PROVE ImportInv'
  BY <1>s DEF ImportInv, ImportIsAccounted, Current
<1>1. CASE UNCHANGED setVars \/ PickStep
  <2>1. UNCHANGED importVars
    BY <1>1 DEF setVars, importVars, PickStep, HostComes, HostGoes, TogglePick, HostsFetched, PicksFetched, PicksApplied, PicksSaved, PicksFail
  <2> QED
    BY <1>s, <2>1 DEF importVars, ImportInv
<1>2. CASE OpenImport \/ CancelImport \/ HostsFetched
  BY <1>2, <1>s DEF OpenImport, CancelImport, HostsFetched, importVars, ImportInv
<1>3. ASSUME NEW n \in HostNames, HostComes(n, 2) \/ HostGoes(n, 2) PROVE ImportInv'
  BY <1>3, <1>s DEF HostComes, HostGoes, importVars, ImportInv
<1>4. ASSUME NEW t \in Pastes, Paste(t) PROVE ImportInv'
  <2>1. PICK n \in 0..MaxText : t \in [1..n -> Lines]
    BY DEF Pastes
  <2>2. t \in Seq(Lines)
    BY <2>1, SetConstants
  <2> QED
    BY <1>4, <1>s, <2>2 DEF Paste, ImportInv
<1>5. CASE RunImport
  <2> DEFINE out == parseSshConfig(itext)
             fresh == {i \in Firsts(out) : out[i].name \notin fleetSeen}
             r == [out |-> out, all |-> fresh, todo |-> fresh, sent |-> FALSE, ok |-> {}, failed |-> {}]
  <2>1. irun' = r /\ UNCHANGED <<itext, itold, imade>>
    BY <1>5 DEF RunImport
  <2> HIDE DEF out
  <2>2. Firsts(out) \subseteq Nat /\ IsFiniteSet(Firsts(out)) /\ \A i, j \in Firsts(out) : out[i].name = out[j].name => i = j
    BY FirstsDiffer DEF ImportInv, out
  <2>3. fresh \subseteq Nat /\ IsFiniteSet(fresh) /\ \A i, j \in fresh : out[i].name = out[j].name => i = j
    BY <2>2, FS_Subset
  <2> HIDE DEF fresh
  <2>4. /\ DOMAIN r = {"out", "all", "todo", "sent", "ok", "failed"} /\ r.out = out /\ r.all = fresh /\ r.todo = fresh
        /\ r.sent = FALSE /\ r.ok = {} /\ r.failed = {}
    OBVIOUS
  <2> HIDE DEF r
  <2> QED
    BY <2>1, <2>3, <2>4 DEF ImportInv, ImportIsAccounted
<1>6. CASE HostMade
  <2> DEFINE r == [irun EXCEPT !.sent = TRUE]
             n == irun.out[Current].name
  <2>1. irun # None /\ irun.todo # {} /\ UNCHANGED <<itext, itold>> /\ imade' = imade \cup {n} /\ irun' = r
    BY <1>6 DEF HostMade, ImportGoesOn
  <2>2. /\ DOMAIN r = {"out", "all", "todo", "sent", "ok", "failed"} /\ r.out = irun.out /\ r.all = irun.all /\ r.todo = irun.todo
        /\ r.ok = irun.ok /\ r.failed = irun.failed
    BY <2>1 DEF ImportInv
  <2> HIDE DEF r
  <2>3. Current' = Current
    BY <2>1, <2>2 DEF Current
  <2> QED
    BY <2>1, <2>2, <2>3 DEF ImportInv, ImportIsAccounted
<1>7. CASE HostToldMade
  <2> DEFINE c == Current
             r == [irun EXCEPT !.todo = @ \ {c}, !.sent = FALSE, !.ok = @ \cup {c}]
  <2>1. irun # None /\ irun.todo # {} /\ irun.sent /\ UNCHANGED <<itext, itold, imade>> /\ irun' = r
    BY <1>7 DEF HostToldMade, ImportGoesOn
  <2>2. c \in irun.todo /\ irun.out[c].name \in imade
    BY <2>1, CurrentIsToDo DEF ImportInv
  <2> HIDE DEF c
  <2>3. /\ DOMAIN r = {"out", "all", "todo", "sent", "ok", "failed"} /\ r.out = irun.out /\ r.all = irun.all /\ r.todo = irun.todo \ {c}
        /\ r.ok = irun.ok \cup {c} /\ r.failed = irun.failed /\ r.sent = FALSE
    BY <2>1 DEF ImportInv
  <2> HIDE DEF r
  <2> QED
    BY <2>1, <2>2, <2>3 DEF ImportInv, ImportIsAccounted
<1>8. CASE HostRefused
  <2> DEFINE c == Current
             r == [irun EXCEPT !.todo = @ \ {c}, !.sent = FALSE, !.failed = @ \cup {c}]
  <2>1. irun # None /\ irun.todo # {} /\ UNCHANGED <<itext, itold, imade>> /\ irun' = r
    BY <1>8 DEF HostRefused, ImportGoesOn
  <2>2. c \in irun.todo
    BY <2>1, CurrentIsToDo DEF ImportInv
  <2> HIDE DEF c
  <2>3. /\ DOMAIN r = {"out", "all", "todo", "sent", "ok", "failed"} /\ r.out = irun.out /\ r.all = irun.all /\ r.todo = irun.todo \ {c}
        /\ r.ok = irun.ok /\ r.failed = irun.failed \cup {c} /\ r.sent = FALSE
    BY <2>1 DEF ImportInv
  <2> HIDE DEF r
  <2> QED
    BY <2>1, <2>2, <2>3 DEF ImportInv, ImportIsAccounted
<1>9. CASE EndImport
  <2>1. irun' = None /\ (itext' = <<>> \/ itext' = itext) /\ <<>> \in Seq(Lines)
    BY <1>9 DEF EndImport
  <2> QED
    BY <1>9, <2>1, EndsAccounted DEF ImportInv
<1> QED
  BY <1>1, <1>2, <1>3, <1>4, <1>5, <1>6, <1>7, <1>8, <1>9 DEF ImportStep

-----------------------------------------------------------------------------
(* A step is one of the page looked at: the pages PageSteps leaves out.    *)
LEMMA OtherSteps ==
    ASSUME [Next]_vars
    PROVE  /\ HostStep \/ UNCHANGED hostVars
           /\ SettingsStep \/ UNCHANGED settingVars
           /\ TableStep \/ UNCHANGED tableVars
           /\ ViewStep \/ UNCHANGED viewVars
           /\ TagStep \/ LoginStep \/ UNCHANGED registryVars
           /\ PickStep \/ ImportStep \/ UNCHANGED setVars
<1>1. CASE UNCHANGED vars
  BY <1>1 DEF vars
<1>2. CASE Deploys \/ EditsHost \/ FillsForm \/ Patches \/ KeepsBaseline \/ Sets
  BY <1>2 DEF Deploys, EditsHost, FillsForm, Patches, KeepsBaseline, Sets, OthersStay
<1>3. CASE Connects \/ Lists \/ ShowsContainer
  BY <1>3 DEF Connects, Lists, ShowsContainer, OthersStay
<1>4. CASE RunsJob \/ Watches \/ UsesTerminal
  BY <1>4 DEF RunsJob, Watches, UsesTerminal, OthersStay
<1>5. CASE Switches \/ Filters \/ KeepsTags \/ KeepsLogins \/ PicksHosts \/ Imports
  BY <1>5 DEF Switches, Filters, KeepsTags, KeepsLogins, PicksHosts, Imports, OthersStay
<1> QED
  BY <1>1, <1>2, <1>3, <1>4, <1>5 DEF Next

-----------------------------------------------------------------------------
(* The end of what the user started.                                       *)
EndsInv == TwiceInv /\ TruthInv /\ ImportInv

(* Nothing was started.                                                    *)
LEMMA EndsStart == Init => EndsInv
<1> SUFFICES ASSUME Init PROVE EndsInv
  OBVIOUS
<1>1. TruthInv
  <2>1. Jobs = {} /\ trackers = {}
    BY DEF Init, JobInit, TrackInit, Jobs
  <2> QED
    BY <2>1 DEF TruthInv, DoneIsSuccess, GivesUpAfterSilence
<1>2. ImportInv
  BY DEF Init, SetInit, ImportInv, ImportIsAccounted
<1> QED
  BY <1>1, <1>2, TwiceStart DEF EndsInv

(* No step of any page breaks it.                                          *)
LEMMA EndsStay == EndsInv /\ [Next]_vars => EndsInv'
<1> SUFFICES ASSUME EndsInv, [Next]_vars PROVE EndsInv'
  OBVIOUS
<1>1. TwiceInv' /\ ImportInv'
  BY TwiceStay, OtherSteps, ImportStays DEF EndsInv
<1>2. CASE page = "job"
  BY <1>1, <1>2, PageSteps, JobTruth DEF EndsInv, TwiceInv
<1>3. CASE page \in {"list", "panel"}
  BY <1>1, <1>3, PageSteps, PageTruth DEF EndsInv, TwiceInv
<1>4. CASE page \notin {"job", "list", "panel"}
  <2>1. UNCHANGED trackVars
    BY <1>4, PageSteps
  <2>2. TruthInv'
    BY <2>1 DEF EndsInv, TruthInv, DoneIsSuccess, GivesUpAfterSilence, Jobs, trackVars
  <2> QED
    BY <1>1, <2>2 DEF EndsInv
<1> QED
  BY <1>2, <1>3, <1>4

(* The end of what the user started is told as it was: a job as done only  *)
(* when it succeeded, as lost only after the answers it takes, an import   *)
(* with every host accounted for (jobs.ts:31, 28, HostsTab.tsx:182), for   *)
(* any number of jobs, pollers and hosts and any SSH config.               *)
THEOREM EndsToldTruly == Spec => []ToldAsItWas
<1>1. Init => EndsInv
  BY EndsStart
<1>2. EndsInv /\ [Next]_vars => EndsInv'
  BY EndsStay
<1>3. EndsInv => ToldAsItWas
  BY DEF EndsInv, TruthInv, ImportInv, ToldAsItWas
<1> QED
  BY <1>1, <1>2, <1>3, PTL DEF Spec

-----------------------------------------------------------------------------
(* A step of the page looked at, or none at all.                           *)
LEMMA OwnStep ==
    ASSUME [Next]_vars
    PROVE  /\ page = "deploy" => DeployStep \/ UNCHANGED vars
           /\ page = "host" => HostStep \/ UNCHANGED vars
           /\ page = "job" => JobStep \/ UNCHANGED vars
           /\ page = "form" => FormStep \/ UNCHANGED vars
           /\ page = "list" => ListStep \/ UNCHANGED vars
           /\ page = "panel" => PanelStep \/ UNCHANGED vars
           /\ page = "settings" => SettingsStep \/ UNCHANGED vars
           /\ page = "table" => TableStep \/ UNCHANGED vars
           /\ page = "view" => ViewStep \/ UNCHANGED vars
           /\ page = "tags" => TagStep \/ UNCHANGED vars
           /\ page = "watch" => WatchStep \/ UNCHANGED vars
           /\ page = "picks" => PickStep \/ UNCHANGED vars
           /\ page = "import" => ImportStep \/ UNCHANGED vars
<1>1. CASE UNCHANGED vars
  BY <1>1
<1>2. CASE Deploys \/ EditsHost \/ FillsForm \/ Patches \/ KeepsBaseline \/ Sets
  BY <1>2 DEF Deploys, EditsHost, FillsForm, Patches, KeepsBaseline, Sets
<1>3. CASE Connects \/ Lists \/ ShowsContainer
  BY <1>3 DEF Connects, Lists, ShowsContainer
<1>4. CASE RunsJob \/ Watches \/ UsesTerminal
  BY <1>4 DEF RunsJob, Watches, UsesTerminal
<1>5. CASE Switches \/ Filters \/ KeepsTags \/ KeepsLogins \/ PicksHosts \/ Imports
  BY <1>5 DEF Switches, Filters, KeepsTags, KeepsLogins, PicksHosts, Imports
<1> QED
  BY <1>1, <1>2, <1>3, <1>4, <1>5 DEF Next

-----------------------------------------------------------------------------
(* The deploy page.  A value that was typed is one, and forms are counted. *)
TypedInv == moves \in Nat /\ conf \in Nat /\ (typed => v # None)
KeepsTyped == typed /\ conf' = conf /\ (mode = "git" \/ seeded) /\ (moves' = moves \/ branch' # branch) => v' = v

(* The server fills a field only until it was typed in, or with a branch. *)
LEMMA TypedStays == ASSUME TypedInv, DeployStep \/ UNCHANGED <<moves, deployVars>> PROVE TypedInv' /\ KeepsTyped
<1>s. ASSUME UNCHANGED <<conf, v, typed>>, moves' \in Nat PROVE TypedInv' /\ KeepsTyped
  BY <1>s DEF TypedInv, KeepsTyped
<1>n. ASSUME NewForm, moves' \in Nat PROVE TypedInv' /\ KeepsTyped
  BY <1>n DEF TypedInv, KeepsTyped, NewForm
<1>e. ASSUME NEW x \in Texts, SetField(x) PROVE TypedInv' /\ KeepsTyped
  BY <1>e, DeployConstants DEF TypedInv, KeepsTyped, SetField, EditMove, Spend
<1>1. CASE UNCHANGED <<moves, deployVars>>
  BY <1>1, <1>s DEF deployVars, form, TypedInv
<1>2. ASSUME NEW m, NEW i, SwitchMode(m, i) PROVE TypedInv' /\ KeepsTyped
  BY <1>2, <1>n DEF SwitchMode, Spend, TypedInv
<1>3. ASSUME NEW i, TypeTerm(i) \/ NameStack(i) PROVE TypedInv' /\ KeepsTyped
  BY <1>3, <1>s DEF TypeTerm, NameStack, EditMove, Spend, TypedInv, form
<1>4. ASSUME NEW i, Pick(i) PROVE TypedInv' /\ KeepsTyped
  BY <1>4, <1>n DEF Pick, Move, Spend, TypedInv
<1>5. CASE Debounce \/ ArrowDown \/ NextStep \/ CheckAsks \/ ValidAsks \/ Poll \/ DeployAnother
  BY <1>5, <1>s DEF Debounce, ArrowDown, NextStep, CheckAsks, ValidAsks, Poll, DeployAnother, TypedInv, form
<1>6. CASE Back \/ Deploy
  BY <1>6, <1>s DEF Back, Deploy, Move, Spend, TypedInv, form
<1>7. ASSUME NEW b \in Branches, InspectAnswers(b) PROVE TypedInv' /\ KeepsTyped
  BY <1>7, DeployConstants DEF InspectAnswers, SeedOnce, SeedGit, TypedInv, KeepsTyped
<1>8. ASSUME NEW b \in Branches, ChangeBranch(b) PROVE TypedInv' /\ KeepsTyped
  BY <1>8, DeployConstants DEF ChangeBranch, SeedGit, EditMove, Spend, TypedInv, KeepsTyped
<1>9. ASSUME NEW x \in Texts, Edit(x) \/ ApplyFix(x) PROVE TypedInv' /\ KeepsTyped
  BY <1>9, <1>e DEF Edit, ApplyFix
<1>10. ASSUME NEW h, PickHost(h) \/ HostsChange(h) PROVE TypedInv' /\ KeepsTyped
  BY <1>10, <1>s DEF PickHost, HostsChange, EditMove, Spend, TypedInv
<1>11. ASSUME NEW a, CheckAnswers(a) \/ ValidAnswers(a) PROVE TypedInv' /\ KeepsTyped
  BY <1>11, <1>s DEF CheckAnswers, ValidAnswers, TypedInv
<1>12. ASSUME NEW p, PostOk(p) \/ PostFails(p) \/ JobEnds(p) PROVE TypedInv' /\ KeepsTyped
  BY <1>12, <1>s DEF PostOk, PostFails, JobEnds, TypedInv, form
<1>13. CASE BackToConfiguration
  <2>1. moves' \in Nat
    BY <1>13 DEF BackToConfiguration, Spend, TypedInv
  <2> QED
    BY <1>13, <1>s, <1>n, <2>1 DEF BackToConfiguration
<1> QED
  BY <1>1, <1>2, <1>3, <1>4, <1>5, <1>6, <1>7, <1>8, <1>9, <1>10, <1>11, <1>12, <1>13 DEF DeployStep

-----------------------------------------------------------------------------
(* The host dialog.                                                        *)
KeepsEdit == hd # None /\ hd.loaded /\ hd' # None /\ hd'.mount = hd.mount /\ moves' = moves /\ hd'.step = hd.step => hd'.form = hd.form

(* What was loaded is loaded once: tests and saves leave the form alone.  *)
LEMMA EditStays == ASSUME HostInv, HostStep \/ UNCHANGED <<moves, hostVars>> PROVE KeepsEdit
<1>m. moves \in Nat
  BY DEF HostInv
<1>d. hd = None \/ hd \in Dialog
  BY DEF HostInv, HostTypeOK
<1>s. ASSUME StartTest(hd), hd # None PROVE KeepsEdit
  <2>1. hd' = OnTest(hd)
    BY <1>s DEF StartTest, OnTest
  <2> QED
    BY <1>d, <1>s, <2>1, OnTestType DEF KeepsEdit
<1>1. CASE UNCHANGED <<moves, hostVars>>
  BY <1>1 DEF hostVars, KeepsEdit
<1>2. ASSUME NEW h, NEW p, OpenHost(h, p) PROVE KeepsEdit
  BY <1>2 DEF OpenHost, KeepsEdit
<1>3. ASSUME NEW f, SetForm(f) PROVE KeepsEdit
  BY <1>m, <1>3 DEF SetForm, Spend, KeepsEdit
<1>4. CASE ExistingArrives \/ Again \/ CancelTest \/ CloseHost \/ RemoveHost
  BY <1>m, <1>4 DEF ExistingArrives, Fill, Again, Move, Spend, CancelTest, CloseHost, RemoveHost, KeepsEdit
<1>5. CASE KeyAdded \/ Retry
  BY <1>5, <1>s DEF KeyAdded, Retry
<1>6. CASE HostNext
  <2>1. CASE hd.form.method = "key"
    BY <1>d, <1>6, <2>1 DEF HostNext, KeepsEdit, Dialog
  <2>2. CASE hd.form.method # "key"
    BY <1>s, <1>6, <2>2 DEF HostNext
  <2> QED
    BY <2>1, <2>2
<1>7. CASE HostBack
  BY <1>d, <1>7 DEF HostBack, KeepsEdit, Dialog
<1>e. ASSUME NEW r, NEW e, Ends(r, e) PROVE KeepsEdit
  BY <1>d, <1>e DEF Ends, Shows, KeepsEdit, Dialog
<1>8. ASSUME NEW r, TestAnswers(r) \/ Revealed(r) PROVE KeepsEdit
  BY <1>d, <1>8 DEF TestAnswers, ShowResult, Shows, Revealed, KeepsEdit, Dialog
<1>9. ASSUME NEW r, PostAnswers(r) \/ RetestAnswers(r) PROVE KeepsEdit
  BY <1>e, <1>9 DEF PostAnswers, RetestAnswers
<1>10. ASSUME NEW r, PatchAnswers(r) PROVE KeepsEdit
  BY <1>d, <1>e, <1>10 DEF PatchAnswers, KeepsEdit, Dialog
<1>11. ASSUME NEW q, DeleteAnswers(q) PROVE KeepsEdit
  BY <1>11 DEF DeleteAnswers, KeepsEdit
<1> QED
  BY <1>1, <1>2, <1>3, <1>4, <1>5, <1>6, <1>7, <1>8, <1>9, <1>10, <1>11 DEF HostStep

-----------------------------------------------------------------------------
(* The dialogs that start jobs.                                            *)
KeepsText == jd # None /\ jd.original # None /\ jd' # None /\ jd'.mount = jd.mount /\ moves' = moves => jd'.text = jd.text

(* The text is fetched once.                                              *)
LEMMA TextStays == ASSUME JobInv, moves \in Nat, JobStep \/ UNCHANGED <<moves, jobVars>> PROVE moves' \in Nat /\ KeepsText
<1>d. jd # None => DOMAIN jd = {"kind", "mount", "step", "text", "original", "blocked", "force", "busy", "job", "shown", "notified"}
  BY DEF JobInv, IsJobDialog
<1>1. CASE UNCHANGED <<moves, jobVars>>
  BY <1>1 DEF jobVars, KeepsText
<1>2. ASSUME NEW k, NEW j, OpenJobDialog(k, j) PROVE moves' \in Nat /\ KeepsText
  BY <1>2 DEF OpenJobDialog, Move, Spend, KeepsText
<1>3. CASE Fetched
  BY <1>3 DEF Fetched, Unseeded, KeepsText
<1>4. ASSUME NEW x, EditText(x) PROVE moves' \in Nat /\ KeepsText
  BY <1>4 DEF EditText, Spend, KeepsText
<1>5. CASE SetForce \/ ToCompose \/ TryAgain
  BY <1>d, <1>5 DEF SetForce, ToCompose, TryAgain, KeepsText
<1>6. CASE Apply \/ CloseJobDialog
  BY <1>6 DEF Apply, Move, Spend, CloseJobDialog, KeepsText
<1>7. CASE ShowJob
  BY <1>d, <1>7 DEF ShowJob, KeepsText
<1>8. CASE TrackerPolls
  BY <1>8 DEF TrackerPolls, KeepsText
<1>9. ASSUME NEW p, Started(p) \/ Refused(p) PROVE moves' \in Nat /\ KeepsText
  BY <1>d, <1>9 DEF Started, Refused, DialogMounted, KeepsText
<1>10. ASSUME NEW j, WorkEnds(j) PROVE moves' \in Nat /\ KeepsText
  BY <1>10 DEF WorkEnds, KeepsText
<1> QED
  BY <1>1, <1>2, <1>3, <1>4, <1>5, <1>6, <1>7, <1>8, <1>9, <1>10 DEF JobStep

-----------------------------------------------------------------------------
(* The side panel: rows are of data that arrived, and while they are       *)
(* edited, unless they were taken early, of the container it is open on.   *)
IsSide(s) == DOMAIN s = {"mount", "nr", "id", "data", "editing", "rows", "from", "early", "saving", "busy"}
SideInv(s) ==
    /\ IsSide(s) /\ s.id \in Names \X Nat
    /\ s.rows # None => s.data # None
    /\ s.editing /\ s.rows # None /\ ~s.early => s.data = s.id /\ s.from = s.id
(* What is asked, and what is sent.                                        *)
AsAsked(q) == (q.what = "bulk" => q.ids = q.asked) /\ (q.what = "env" /\ ~q.early => q.ids = {q.from})
AskedInv == (quest # None => AsAsked(quest)) /\ \A q \in preqs : AsAsked(q)
ListsInv == cont \in [Names -> Nat] /\ list \in [Names -> Nat]
PageInv == moves \in Nat /\ ListsInv /\ AskedInv /\ (side # None => SideInv(side))
KeepsRows ==
    side # None /\ side.editing /\ side.rows # None /\ side' # None /\ side'.nr = side.nr /\ side'.editing /\ moves' = moves
       => side'.rows = side.rows
SideKept == (side' # None => SideInv(side')) /\ KeepsRows

(* The panel waits, goes on, or ends its edit.                             *)
SameRows(s) ==
    /\ IsSide(s) /\ s.id = side.id /\ s.data = side.data /\ s.rows = side.rows /\ s.from = side.from /\ s.early = side.early
    /\ s.editing => side.editing
(* Rows that stay keep both.                                               *)
LEMMA SideWaits == ASSUME PageInv, side # None, SameRows(side') PROVE SideKept
  BY DEF PageInv, SideInv, SameRows, SideKept, KeepsRows

(* Rows are taken from the data that is shown.                             *)
LEMMA SnapshotInv == ASSUME NEW s, IsSide(s), s.id \in Names \X Nat, s.data # None PROVE SideInv(Snapshot(s)) /\ Snapshot(s).nr = s.nr
<1> DEFINE r == Snapshot(s)
<1>1. IsSide(r) /\ r.id = s.id /\ r.data = s.data /\ r.from = s.data /\ r.nr = s.nr
  BY DEF Snapshot, IsSide
<1>2. r.early <=> s.data # s.id
  BY DEF Snapshot, IsSide
<1> HIDE DEF r
<1>3. SideInv(r)
  BY <1>1, <1>2 DEF SideInv
<1> QED
  BY <1>1, <1>3 DEF r

(* Data arrives: it is of the container the panel is open on.              *)
LEMMA DataArrives == ASSUME PageInv, side # None, side' = Polled(side) PROVE SideKept
<1> DEFINE s == [side EXCEPT !.data = side.id]
<1>1. /\ IsSide(s) /\ s.id = side.id /\ s.data = side.id /\ s.rows = side.rows /\ s.from = side.from /\ s.early = side.early
      /\ s.editing = side.editing /\ s.nr = side.nr
  BY DEF PageInv, SideInv, IsSide
<1>2. side.id # None /\ SideInv(side)
  BY PageConstants DEF PageInv, SideInv
<1>3. CASE side.editing /\ side.data = None
  <2>1. side' = Snapshot(s)
    BY <1>3 DEF Polled
  <2> HIDE DEF s
  <2>2. SideInv(Snapshot(s))
    BY <1>1, <1>2, SnapshotInv DEF SideInv
  <2> QED
    BY <1>2, <1>3, <2>1, <2>2 DEF SideKept, KeepsRows, SideInv
<1>4. CASE ~(side.editing /\ side.data = None)
  <2>1. side' = s
    BY <1>4 DEF Polled
  <2> HIDE DEF s
  <2> QED
    BY <1>1, <1>2, <2>1 DEF SideKept, KeepsRows, SideInv
<1> QED
  BY <1>3, <1>4

(* The rest of a save: the spinner stops and the edit may end.             *)
LEMMA SideAfter == ASSUME PageInv, NEW o, NEW t, After(o, t) PROVE SideKept
<1>1. CASE side = None
  BY <1>1 DEF After, SideKept, KeepsRows
<1>2. CASE side # None
  <2>1. SameRows(side)
    BY <1>2 DEF PageInv, SideInv, SameRows
  <2>2. SameRows(side')
    <3>1. CASE o.what # "env"
      BY <1>2, <2>1, <3>1 DEF After
    <3>2. CASE o.what = "env"
      <4> DEFINE a == side.saving /\ side.nr # o.req
                 b == side.editing /\ ~(side.mount = o.mount /\ t = "ok")
                 s == [side EXCEPT !.saving = a, !.editing = b]
      <4>1. side' = s
        BY <1>2, <3>2 DEF After
      <4>2. IsSide(s) /\ s.id = side.id /\ s.data = side.data /\ s.rows = side.rows /\ s.from = side.from /\ s.early = side.early /\ s.editing = b
        BY <2>1 DEF SameRows, IsSide
      <4> HIDE DEF s
      <4> QED
        BY <4>1, <4>2 DEF SameRows
    <3> QED
      BY <3>1, <3>2
  <2> QED
    BY <1>2, <2>2, SideWaits
<1> QED
  BY <1>1, <1>2

(* No step of the lists or the panel breaks it.                            *)
LEMMA PageStays == ASSUME PageInv, ListStep \/ PanelStep \/ UNCHANGED <<moves, pageVars>> PROVE PageInv' /\ KeepsRows
<1>n. moves \in Nat /\ ListsInv /\ AskedInv /\ (side # None => IsSide(side))
  BY DEF PageInv, SideInv
<1>s. ASSUME UNCHANGED side PROVE SideKept
  BY <1>s DEF PageInv, SideKept, KeepsRows
<1>w. ASSUME UNCHANGED <<cont, list>> PROVE ListsInv'
  BY <1>n, <1>w DEF ListsInv
<1>r. ASSUME preqs' \subseteq preqs, UNCHANGED quest PROVE AskedInv'
  BY <1>n, <1>r DEF AskedInv, AsAsked
<1>p. ASSUME NEW w, NEW S, w # "env" PROVE AsAsked(Plain(w, S))
  BY <1>p DEF AsAsked, Plain
<1>a. ASSUME NEW q, Asks(q), AsAsked(q) PROVE SideKept /\ AskedInv' /\ ListsInv'
  BY <1>n, <1>s, <1>w, <1>a DEF Asks, AskedInv, AsAsked, world
<1>t. ASSUME NEW q, Sent(q), AsAsked(q), UNCHANGED quest PROVE AskedInv'
  BY <1>n, <1>t DEF Sent, AskedInv, AsAsked
<1> DEFINE Goal == PageInv' /\ KeepsRows
<1>g. ASSUME moves' \in Nat, ListsInv', SideKept, AskedInv' PROVE Goal
  BY <1>g DEF PageInv, SideKept
<1> SUFFICES Goal
  OBVIOUS
<1> HIDE DEF Goal
<1>1. CASE UNCHANGED <<moves, pageVars>>
  BY <1>1, <1>g, <1>n, <1>r, <1>s, <1>w DEF pageVars
<1>2. CASE Refresh \/ Dismissed
  <2>1. moves' \in Nat /\ UNCHANGED <<side, preqs, cont>> /\ ListsInv' /\ (quest' = None \/ quest' = quest)
    BY <1>n, <1>2 DEF ListsInv, Refresh, Dismissed, world, panel
  <2>2. AskedInv'
    BY <1>n, <2>1 DEF AskedInv, AsAsked
  <2> QED
    BY <1>g, <1>s, <2>1, <2>2
<1>3. ASSUME NEW n \in Names, Elsewhere(n) PROVE Goal
  <2>1. moves' \in Nat /\ UNCHANGED <<side, quest, preqs>> /\ ListsInv'
    BY <1>n, <1>3 DEF ListsInv, Elsewhere, Spend, panel
  <2> QED
    BY <1>g, <1>n, <1>s, <1>r, <2>1
<1>4. CASE Confirmed
  <2>1. moves' \in Nat /\ UNCHANGED <<list, cont>> /\ quest # None /\ quest' = None /\ preqs' = preqs \cup {quest}
    BY <1>n, <1>4 DEF Confirmed, Captured, Sent, world
  <2>2. AskedInv'
    BY <1>n, <2>1 DEF AskedInv, AsAsked
  <2>3. SideKept
    <3>1. CASE side' = side
      BY <1>s, <3>1
    <3>2. CASE side # None /\ side' = [side EXCEPT !.saving = TRUE]
      <4>1. SameRows(side')
        BY <1>n, <3>2 DEF SameRows, IsSide
      <4> QED
        BY <3>2, <4>1, SideWaits
    <3> QED
      BY <1>4, <3>1, <3>2 DEF Confirmed
  <2> QED
    BY <1>g, <1>w, <2>1, <2>2, <2>3
<1>5. CASE BulkStop \/ HeaderJob \/ StackStop
  <2>1. \E w \in {"bulk", "host", "stack"} : \E S : Asks(Plain(w, S))
    BY <1>5 DEF BulkStop, HeaderJob, StackStop
  <2>2. moves' \in Nat
    BY <1>n, <1>5 DEF BulkStop, HeaderJob, StackStop, Move, Spend
  <2> QED
    BY <1>g, <1>a, <1>p, <1>w, <2>1, <2>2
<1>6. ASSUME NEW n \in Names, UpdateContainer(n) \/ RemoveContainer(n) PROVE Goal
  <2>1. \E w \in {"update", "remove"} : \E S : Asks(Plain(w, S))
    BY <1>6 DEF UpdateContainer, RemoveContainer
  <2>2. moves' \in Nat
    BY <1>n, <1>6 DEF UpdateContainer, RemoveContainer, Move, Spend
  <2> QED
    BY <1>g, <1>a, <1>p, <1>w, <2>1, <2>2
<1>7. CASE BulkStart \/ StorageJob \/ StackRun \/ \E n \in Names : CardAction(n)
  <2>1. \E w \in {"bulk", "host", "stack", "act"} : \E S : Sent(Plain(w, S))
    BY <1>7 DEF BulkStart, StorageJob, StackRun, CardAction
  <2>2. moves' \in Nat
    <3>1. CASE BulkStart \/ StorageJob \/ StackRun
      BY <1>n, <3>1 DEF BulkStart, StorageJob, StackRun, Move, Spend
    <3>2. ASSUME NEW n \in Names, CardAction(n) PROVE moves' \in Nat
      BY <1>n, <3>2 DEF CardAction, Spend
    <3> QED
      BY <1>7, <3>1, <3>2
  <2>3. UNCHANGED <<quest, side, cont, list>>
    BY <1>7 DEF BulkStart, StorageJob, StackRun, CardAction, world, panel
  <2> QED
    BY <1>g, <1>t, <1>p, <1>s, <1>w, <2>1, <2>2, <2>3
<1>8. ASSUME NEW n \in Names, Select(n) PROVE Goal
  BY <1>8, <1>g, <1>n, <1>r, <1>s, <1>w DEF Select, Move, Spend, world, panel
<1>9. ASSUME NEW q, BulkAnswers(q) PROVE Goal
  <2>1. moves' \in Nat /\ UNCHANGED <<quest, side, cont, list>> /\ preqs' \subseteq preqs
    BY <1>n, <1>9 DEF BulkAnswers, world, panel
  <2> QED
    BY <1>g, <1>r, <1>s, <1>w, <2>1
<1>10. ASSUME NEW q, CardAnswers(q) PROVE Goal
  <2>1. moves' \in Nat /\ UNCHANGED <<quest, cont, list>> /\ preqs' \subseteq preqs
    BY <1>n, <1>10 DEF CardAnswers, world
  <2>2. SideKept
    <3>1. CASE side' = side
      BY <1>s, <3>1
    <3>2. CASE side # None /\ side' = [side EXCEPT !.busy = FALSE]
      <4>1. SameRows(side')
        BY <1>n, <3>2 DEF SameRows, IsSide
      <4> QED
        BY <3>2, <4>1, SideWaits
    <3> QED
      BY <1>10, <3>1, <3>2 DEF CardAnswers
  <2> QED
    BY <1>g, <1>r, <1>w, <2>1, <2>2
<1>11. ASSUME NEW q, RemoveAnswers(q) PROVE Goal
  <2>1. moves' \in Nat /\ UNCHANGED quest /\ preqs' \subseteq preqs /\ ListsInv' /\ (side' = side \/ side' = None)
    BY <1>n, <1>11 DEF ListsInv, RemoveAnswers
  <2>2. SideKept
    BY <1>s, <2>1 DEF SideKept, KeepsRows
  <2> QED
    BY <1>g, <1>n, <1>r, <2>1, <2>2
<1>12. ASSUME NEW q, JobStarts(q) PROVE Goal
  <2>1. moves' \in Nat /\ UNCHANGED <<quest, side, cont, list>> /\ preqs' \subseteq preqs
    BY <1>n, <1>12 DEF JobStarts, world, panel
  <2> QED
    BY <1>g, <1>r, <1>s, <1>w, <2>1
<1>13. ASSUME NEW q, JobRefused(q) PROVE Goal
  <2>1. moves' \in Nat /\ UNCHANGED <<quest, cont, list>> /\ preqs' \subseteq preqs /\ SideKept
    BY <1>n, <1>13, SideAfter DEF JobRefused, world
  <2> QED
    BY <1>g, <1>r, <1>w, <2>1
<1>14. ASSUME NEW t, PageTracks(t) PROVE Goal
  <2>1. moves' \in Nat /\ UNCHANGED <<quest, preqs, cont, list>> /\ SideKept
    BY <1>n, <1>s, <1>14, SideAfter DEF PageTracks, world
  <2> QED
    BY <1>g, <1>r, <1>w, <2>1
<1>15. ASSUME NEW t, PageJobEnds(t) PROVE Goal
  <2>1. UNCHANGED <<moves, quest, side, preqs, list>> /\ (cont' = cont \/ cont' = [cont EXCEPT ![t.owner.id[1]] = @ + 1])
    BY <1>15 DEF PageJobEnds, panel
  <2>2. ListsInv'
    BY <1>n, <2>1 DEF ListsInv
  <2> QED
    BY <1>g, <1>n, <1>r, <1>s, <2>1, <2>2
<1>16. CASE CloseSide
  <2>1. SideKept
    BY <1>16 DEF CloseSide, SideKept, KeepsRows
  <2> QED
    BY <1>16, <1>g, <1>n, <1>r, <1>w, <2>1 DEF CloseSide, world
<1>17. CASE PanelAction
  <2>1. SameRows(side') /\ side # None
    BY <1>n, <1>17 DEF PanelAction, SameRows, IsSide
  <2> DEFINE p == [Plain("act", {side.data}) EXCEPT !.nr = side.mount]
  <2>2. Sent(p) /\ UNCHANGED <<quest, cont, list>> /\ moves' \in Nat
    BY <1>n, <1>17 DEF PanelAction, Spend, world
  <2>3. AsAsked(p)
    BY DEF AsAsked, Plain
  <2> HIDE DEF p
  <2> QED
    BY <1>g, <1>t, <1>w, <2>1, <2>2, <2>3, SideWaits
<1>18. CASE RemoveShown
  <2> DEFINE p == [Plain("remove", {side.data}) EXCEPT !.nr = side.mount]
  <2>1. Asks(p) /\ moves' \in Nat
    BY <1>n, <1>18 DEF RemoveShown, Spend
  <2>2. AsAsked(p)
    BY DEF AsAsked, Plain
  <2> HIDE DEF p
  <2> QED
    BY <1>g, <1>a, <1>w, <2>1, <2>2
<1>19. CASE DetailArrives
  <2>1. SideKept /\ moves' \in Nat /\ UNCHANGED <<quest, preqs, cont, list>>
    BY <1>n, <1>19, DataArrives DEF DetailArrives, world
  <2> QED
    BY <1>g, <1>r, <1>w, <2>1
<1>20. CASE EditConfig
  <2> DEFINE s == [side EXCEPT !.editing = TRUE]
  <2>1. IsSide(s) /\ s.id = side.id /\ s.data = side.data /\ side # None /\ side.data # None /\ ~side.editing /\ side' = Snapshot(s)
    BY <1>n, <1>20 DEF EditConfig, IsSide
  <2> HIDE DEF s
  <2>2. SideKept
    BY <2>1, SnapshotInv DEF PageInv, SideInv, SideKept, KeepsRows
  <2> QED
    BY <1>20, <1>g, <1>n, <1>r, <1>w, <2>2 DEF EditConfig, world
<1>21. CASE SwitchTab
  <2> DEFINE s == [side EXCEPT !.nr = moves', !.saving = FALSE]
  <2>1. IsSide(s) /\ s.id = side.id /\ s.data = side.data /\ side # None /\ side.data # None /\ side' = Snapshot(s)
    BY <1>n, <1>21 DEF SwitchTab, IsSide
  <2> HIDE DEF s
  <2>2. moves' = moves + 1
    BY <1>21 DEF SwitchTab, Move, Spend
  <2>3. SideKept
    BY <1>n, <2>1, <2>2, SnapshotInv DEF PageInv, SideInv, SideKept, KeepsRows
  <2> QED
    BY <1>21, <1>g, <1>n, <1>r, <1>w, <2>2, <2>3 DEF SwitchTab, world
<1>22. CASE CancelEdit
  <2>1. SameRows(side') /\ side # None
    BY <1>n, <1>22 DEF CancelEdit, SameRows, IsSide
  <2> QED
    BY <1>22, <1>g, <1>n, <1>r, <1>w, <2>1, SideWaits DEF CancelEdit, world
<1>23. ASSUME NEW x, EditRows(x) PROVE Goal
  <2> DEFINE s == [side EXCEPT !.rows = x]
  <2>1. /\ IsSide(s) /\ s.id = side.id /\ s.data = side.data /\ s.from = side.from /\ s.early = side.early /\ s.editing = side.editing
        /\ side # None /\ side.rows # None /\ side' = s
    BY <1>n, <1>23 DEF EditRows, IsSide
  <2> HIDE DEF s
  <2>2. moves' = moves + 2
    BY <1>23 DEF EditRows, Spend
  <2>3. SideKept
    BY <1>n, <2>1, <2>2 DEF PageInv, SideInv, SideKept, KeepsRows
  <2> QED
    BY <1>23, <1>g, <1>n, <1>r, <1>w, <2>2, <2>3 DEF EditRows, world
<1>24. CASE SaveEnv
  <2> DEFINE p == [Plain("env", {side.data}) EXCEPT !.rows = side.rows, !.from = side.from, !.early = side.early, !.nr = side.nr, !.mount = side.mount]
  <2>1. Asks(p) /\ moves' \in Nat /\ side # None /\ side.editing /\ side.rows # None
    BY <1>n, <1>24 DEF SaveEnv, Spend
  <2>2. p.what = "env" /\ p.ids = {side.data} /\ p.from = side.from /\ p.early = side.early
    BY DEF Plain
  <2> HIDE DEF p
  <2>3. AsAsked(p)
    BY <2>1, <2>2 DEF AsAsked, PageInv, SideInv
  <2> QED
    BY <1>g, <1>a, <1>w, <2>1, <2>3
<1>25. ASSUME NEW n \in Names, NEW e, OpenSide(n, e) PROVE Goal
  <2>1. moves' = moves + 1 /\ UNCHANGED <<quest, preqs, cont, list>> /\ IdOf(n) \in Names \X Nat
    BY <1>n, <1>25 DEF OpenSide, Move, Spend, world, IdOf, ListsInv
  <2>2. side' # None => SideInv(side')
    <3>1. CASE side # None
      <4> DEFINE s == [Reopened(side, IdOf(n)) EXCEPT !.nr = moves']
      <4>1. IsSide(s) /\ s.id = IdOf(n) /\ s.data = side.data /\ s.rows = side.rows /\ s.editing = FALSE
        BY <1>n, <3>1 DEF Reopened, IsSide
      <4>2. side' = s
        BY <1>25, <3>1 DEF OpenSide
      <4> HIDE DEF s
      <4> QED
        BY <2>1, <3>1, <4>1, <4>2 DEF SideInv, PageInv
    <3>2. CASE side = None
      <4> DEFINE s == [mount |-> moves', nr |-> moves', id |-> IdOf(n), data |-> None, editing |-> e, rows |-> None, from |-> None,
                       early |-> FALSE, saving |-> FALSE, busy |-> FALSE]
      <4>1. IsSide(s) /\ s.id = IdOf(n) /\ s.rows = None
        BY DEF IsSide
      <4>2. side' = s
        BY <1>25, <3>2 DEF OpenSide
      <4> HIDE DEF s
      <4> QED
        BY <2>1, <4>1, <4>2 DEF SideInv
    <3> QED
      BY <3>1, <3>2
  <2>3. KeepsRows
    BY <1>n, <2>1 DEF KeepsRows
  <2> QED
    BY <1>g, <1>n, <1>r, <1>w, <2>1, <2>2, <2>3 DEF SideKept
<1> QED
  <2>1. CASE UNCHANGED <<moves, pageVars>>
    BY <1>1, <2>1
  <2>2. CASE PageAnswers \/ PageWork
    BY <1>9, <1>10, <1>11, <1>12, <1>13, <1>14, <1>15, <2>2 DEF PageAnswers, PageWork
  <2>3. CASE ListStep
    BY <1>2, <1>3, <1>4, <1>5, <1>6, <1>7, <1>8, <2>2, <2>3 DEF ListStep
  <2>4. CASE PanelStep
    BY <1>2, <1>3, <1>4, <1>16, <1>17, <1>18, <1>19, <1>20, <1>21, <1>22, <1>23, <1>24, <1>25, <2>2, <2>4 DEF PanelStep
  <2> QED
    BY <2>1, <2>3, <2>4

-----------------------------------------------------------------------------
(* The terminal window.                                                    *)
KeepsKeys == \A a \in Ssh : known[a] # None => known'[a] \in {known[a], None}

(* A known key is forgotten, or a key is saved where there is none.        *)
LEMMA KeysStay == ASSUME TermInv, TermStep \/ UNCHANGED windowVars PROVE KeepsKeys
<1>k. known \in [Ssh -> HostKeys \cup {None}]
  BY DEF TermInv, RunsInv
<1>s. ASSUME UNCHANGED known PROVE KeepsKeys
  BY <1>s DEF KeepsKeys
<1>1. CASE UNCHANGED windowVars \/ LogView \/ CloseWindow
  BY <1>1, <1>s DEF windowVars, termVars, LogView, CloseWindow
<1>2. ASSUME NEW t, OpenTerminal(t) \/ PlusMenu(t) PROVE KeepsKeys
  BY <1>2, <1>s DEF OpenTerminal, PlusMenu
<1>3. ASSUME NEW a, ConnectSsh(a) \/ ForgetRecent(a) PROVE KeepsKeys
  BY <1>3, <1>s DEF ConnectSsh, ForgetRecent
<1>4. ASSUME NEW a \in Ssh, ForgetHostKey(a) PROVE KeepsKeys
  BY <1>k, <1>4 DEF ForgetHostKey, KeepsKeys
<1>5. ASSUME NEW k, SelectTab(k) \/ Reconnect(k) PROVE KeepsKeys
  BY <1>5, <1>s DEF SelectTab, Reconnect
<1>6. ASSUME NEW k, CloseTab(k) PROVE KeepsKeys
  BY <1>6, <1>s DEF CloseTab, CloseWindow
<1>7. ASSUME NEW r, Imported(r) \/ FontsReady(r) \/ SessionOpens(r) \/ SessionExits(r) \/ SessionCloses(r) PROVE KeepsKeys
  BY <1>7, <1>s DEF Imported, FontsReady, SessionOpens, SessionExits, SessionCloses
<1>8. ASSUME NEW r, NEW fp, HostKeyMessage(r, fp) PROVE KeepsKeys
  BY <1>k, <1>8 DEF HostKeyMessage, KeepsKeys
<1> QED
  BY <1>1, <1>2, <1>3, <1>4, <1>5, <1>6, <1>7, <1>8 DEF TermStep

-----------------------------------------------------------------------------
(* The list of containers: rows are ordered by what they show.             *)
LEMMA RowsStay == ASSUME looks' = looks, view' = view PROVE visibleContainers(view)' = visibleContainers(view)
<1>1. Visible(view)' = Visible(view)
  BY DEF Visible, inStack, matchesStatus, matchText
<1>2. \A c, d : sortBy(d, c, view.sort)' <=> sortBy(d, c, view.sort)
  BY DEF sortBy, Ahead, statusRank, matchesStatus
<1> QED
  BY <1>1, <1>2 DEF visibleContainers

-----------------------------------------------------------------------------
(* The dialog that renames a monitor.                                      *)
KeepsName == wren # None /\ wren' # None /\ wren.nr = wren'.nr /\ moves' = moves => wren'.name = wren.name

(* Only what the user types is another name: polls and answers keep it.    *)
LEMMA NameStays == ASSUME RenameInv, WatchStep \/ UNCHANGED <<watchVars, moves>> PROVE KeepsName
<1>m. moves \in Nat /\ (wren # None => DOMAIN wren = {"row", "name", "busy", "nr"})
  BY DEF RenameInv
<1>s. ASSUME wren' = wren \/ wren' = None PROVE KeepsName
  BY <1>s DEF KeepsName
<1>o. ASSUME moves' # moves PROVE KeepsName
  BY <1>o DEF KeepsName
<1>1. CASE UNCHANGED <<watchVars, moves>>
  BY <1>s, <1>1 DEF watchVars
<1>2. ASSUME NEW w, ChooseView(w) \/ ViewShown(w) PROVE KeepsName
  BY <1>s, <1>2 DEF ChooseView, ViewShown, ShowsCards
<1>3. ASSUME NEW w, PollView(w) \/ ViewRead(w) \/ ViewAged(w) PROVE KeepsName
  BY <1>s, <1>3 DEF PollView, ViewRead, ViewAged
<1>4. CASE ChooseIssues \/ CancelRename
  BY <1>s, <1>4 DEF ChooseIssues, CancelRename, ShowsCards
<1>5. ASSUME NEW k, NEW S, NEW x, ActOn(k, S, x) PROVE KeepsName
  BY <1>s, <1>5 DEF ActOn
<1>6. CASE MarkAllRead \/ \E r \in Watched : MarkRead(r) \/ SnoozeAlert(r) \/ CheckNow(r) \/ SetEnabled(r)
  BY <1>5, <1>6 DEF MarkAllRead, MarkRead, SnoozeAlert, CheckNow, SetEnabled
<1>7. ASSUME NEW r, NEW x, AskRemoval(r) \/ AnswerRemoval(r) \/ RowChanges(r, x) PROVE KeepsName
  BY <1>s, <1>7 DEF AskRemoval, AnswerRemoval, RowChanges
<1>8. ASSUME NEW r, OpenRename(r) \/ TypeName(r) PROVE KeepsName
  BY <1>m, <1>o, <1>8 DEF OpenRename, TypeName, Move, Spend
<1>9. CASE SaveName
  BY <1>m, <1>o, <1>9 DEF SaveName, Move, Spend
<1>10. ASSUME NEW o, OpApplied(o) \/ OpAnswered(o) PROVE KeepsName
  BY <1>s, <1>10 DEF OpApplied, OpAnswered
<1>11. ASSUME NEW o, OpFails(o) PROVE KeepsName
  BY <1>m, <1>s, <1>11 DEF OpFails, KeepsName
<1> QED
  BY <1>1, <1>2, <1>3, <1>4, <1>6, <1>7, <1>8, <1>9, <1>10, <1>11 DEF WatchStep

-----------------------------------------------------------------------------
(* What the page looked at keeps sound, for nothing to be overwritten.     *)
KeptInv ==
    /\ TwiceInv /\ SavesInv /\ TermInv
    /\ page = "deploy" => TypedInv
    /\ page = "job" => moves \in Nat
    /\ page \in {"list", "panel"} => PageInv

(* Nothing was typed, asked or polled.                                     *)
LEMMA KeptStart == Init => KeptInv
<1> SUFFICES ASSUME Init PROVE KeptInv
  OBVIOUS
<1>1. TermInv
  BY LateStart DEF LateInv
<1>2. moves \in Nat
  BY DEF Init
<1>3. TypedInv
  BY <1>2 DEF Init, DeployInit, TypedInv
<1>4. PageInv
  BY <1>2 DEF Init, PageInit, PageInv, ListsInv, AskedInv
<1> QED
  BY <1>1, <1>2, <1>3, <1>4, TwiceStart, SavesStart DEF KeptInv

(* Lists and panels are touched by no other page.                          *)
LEMMA PanelFrame == ASSUME [Next]_vars PROVE page \in {"list", "panel"} \/ UNCHANGED pageOnly
<1>1. CASE UNCHANGED vars
  BY <1>1 DEF vars, pageVars, pageOnly
<1>2. CASE Deploys \/ EditsHost \/ FillsForm \/ Patches \/ KeepsBaseline \/ Sets
  BY <1>2 DEF Deploys, EditsHost, FillsForm, Patches, KeepsBaseline, Sets, OthersStay
<1>3. CASE Connects \/ Lists \/ ShowsContainer
  BY <1>3 DEF Connects, Lists, ShowsContainer, OthersStay
<1>4. CASE RunsJob \/ Watches \/ UsesTerminal
  BY <1>4 DEF RunsJob, Watches, UsesTerminal, OthersStay
<1>5. CASE Switches \/ Filters \/ KeepsTags \/ KeepsLogins \/ PicksHosts \/ Imports
  BY <1>5 DEF Switches, Filters, KeepsTags, KeepsLogins, PicksHosts, Imports, OthersStay
<1> QED
  BY <1>1, <1>2, <1>3, <1>4, <1>5 DEF Next

(* So are forms of the deploy page.                                        *)
LEMMA DeployKept == ASSUME [Next]_vars PROVE page = "deploy" \/ UNCHANGED deployVars
<1>1. CASE UNCHANGED vars
  BY <1>1 DEF vars
<1>2. CASE Deploys \/ EditsHost \/ FillsForm \/ Patches \/ KeepsBaseline \/ Sets
  BY <1>2 DEF Deploys, EditsHost, FillsForm, Patches, KeepsBaseline, Sets, OthersStay
<1>3. CASE Connects \/ Lists \/ ShowsContainer
  BY <1>3 DEF Connects, Lists, ShowsContainer, OthersStay
<1>4. CASE RunsJob \/ Watches \/ UsesTerminal
  BY <1>4 DEF RunsJob, Watches, UsesTerminal, OthersStay
<1>5. CASE Switches \/ Filters \/ KeepsTags \/ KeepsLogins \/ PicksHosts \/ Imports
  BY <1>5 DEF Switches, Filters, KeepsTags, KeepsLogins, PicksHosts, Imports, OthersStay
<1> QED
  BY <1>1, <1>2, <1>3, <1>4, <1>5 DEF Next

(* No step overwrites what is kept.                                        *)
AllKept == KeepsTyped /\ KeepsEdit /\ KeepsText /\ KeepsRows /\ KeepsKeys /\ KeepsName
(* Each page keeps what is its own, and leaves the others alone.           *)
LEMMA KeptStays == ASSUME KeptInv, [Next]_vars PROVE KeptInv' /\ AllKept
<1>1. TwiceInv' /\ SavesInv' /\ TermInv' /\ KeepsKeys /\ page' = page
  BY TwiceStay, SavesStay, TermStays, KeysStay, PageSteps DEF KeptInv
<1>2. KeepsTyped /\ (page = "deploy" => TypedInv')
  <2>1. CASE page = "deploy"
    <3>1. DeployStep \/ UNCHANGED <<moves, deployVars>>
      BY <2>1, OwnStep DEF vars
    <3> QED
      BY <2>1, <3>1, TypedStays DEF KeptInv
  <2>2. CASE page # "deploy"
    <3>1. UNCHANGED deployVars
      BY <2>2, DeployKept
    <3> QED
      BY <2>2, <3>1 DEF deployVars, form, KeepsTyped
  <2> QED
    BY <2>1, <2>2
<1>3. KeepsEdit
  <2>1. CASE page = "host"
    <3>1. HostStep \/ UNCHANGED <<moves, hostVars>>
      BY <2>1, OwnStep DEF vars
    <3> QED
      BY <2>1, <3>1, EditStays DEF KeptInv, SavesInv
  <2>2. CASE page # "host"
    <3>1. UNCHANGED hostVars
      BY <2>2, SavesFrame
    <3> QED
      BY <3>1 DEF hostVars, KeepsEdit
  <2> QED
    BY <2>1, <2>2
<1>4. KeepsText /\ (page = "job" => moves' \in Nat)
  <2>1. CASE page = "job"
    <3>1. JobStep \/ UNCHANGED <<moves, jobVars>>
      BY <2>1, OwnStep DEF vars, jobVars, pageVars
    <3> QED
      BY <2>1, <3>1, TextStays DEF KeptInv, TwiceInv
  <2>2. CASE page # "job"
    <3>1. UNCHANGED jobOnly
      BY <2>2, PageSteps
    <3> QED
      BY <2>2, <3>1 DEF jobOnly, KeepsText
  <2> QED
    BY <2>1, <2>2
<1>5. KeepsRows /\ (page \in {"list", "panel"} => PageInv')
  <2>1. CASE page \in {"list", "panel"}
    <3>1. ListStep \/ PanelStep \/ UNCHANGED <<moves, pageVars>>
      BY <2>1, OwnStep DEF vars
    <3> QED
      BY <2>1, <3>1, PageStays DEF KeptInv
  <2>2. CASE page \notin {"list", "panel"}
    <3>1. UNCHANGED pageOnly
      BY <2>2, PanelFrame
    <3> QED
      BY <2>2, <3>1 DEF pageOnly, KeepsRows
  <2> QED
    BY <2>1, <2>2
<1>6. KeepsName
  <2>1. CASE page = "watch"
    <3>1. WatchStep \/ UNCHANGED <<watchVars, moves>>
      BY <2>1, PageSteps
    <3> QED
      BY <2>1, <3>1, NameStays DEF KeptInv, TwiceInv
  <2>2. CASE page # "watch"
    <3>1. UNCHANGED watchVars
      BY <2>2, PageSteps
    <3> QED
      BY <3>1 DEF watchVars, KeepsName
  <2> QED
    BY <2>1, <2>2
<1> QED
  BY <1>1, <1>2, <1>3, <1>4, <1>5, <1>6 DEF KeptInv, AllKept

(* Nothing the server sends replaces what was typed, trusted or is looked  *)
(* at (GitFlow.tsx:199, HostDialog.tsx, ComposeDialog.tsx:32,              *)
(* ContainerSidecar.tsx:277, TerminalWindow.tsx:538,                       *)
(* containerFilters.ts:75, MonitorCard.tsx:178), for any numbers of        *)
(* containers, branches, texts, addresses, keys and monitors.              *)
THEOREM NothingOverwritten == Spec => NothingIsOverwritten
<1>1. Init => KeptInv
  BY KeptStart
<1>2. KeptInv /\ [Next]_vars => KeptInv'
  BY KeptStays
<1>3. KeptInv /\ [Next]_vars =>
        /\ [typed /\ conf' = conf /\ (mode = "git" \/ seeded) /\ (moves' = moves \/ branch' # branch) => v' = v]_<<moves, deployVars>>
        /\ [hd # None /\ hd.loaded /\ hd' # None /\ hd'.mount = hd.mount /\ moves' = moves /\ hd'.step = hd.step => hd'.form = hd.form]_hostVars
        /\ [jd # None /\ jd.original # None /\ jd' # None /\ jd'.mount = jd.mount /\ moves' = moves => jd'.text = jd.text]_jobVars
        /\ [side # None /\ side.editing /\ side.rows # None /\ side' # None /\ side'.nr = side.nr /\ side'.editing /\ moves' = moves
             => side'.rows = side.rows]_pageVars
        /\ [\A a \in Ssh : known[a] # None => known'[a] \in {known[a], None}]_windowVars
        /\ [wren # None /\ wren' # None /\ wren.nr = wren'.nr /\ moves' = moves => wren'.name = wren.name]_<<wren, moves>>
  BY KeptStays DEF AllKept, KeepsTyped, KeepsEdit, KeepsText, KeepsRows, KeepsKeys, KeepsName
<1>4. [place' # place /\ looks' = looks /\ view' = view => visibleContainers(view)' = visibleContainers(view)]_viewVars
  BY RowsStay
<1> QED
  BY <1>1, <1>2, <1>3, <1>4, PTL DEF Spec, NothingIsOverwritten, TypedIsKept, EditIsKept, TextIsKept, RowsAreKept, KnownKeyIsKept, RowsDoNotJump, NameIsKept

-----------------------------------------------------------------------------
(* The form dialogs: the container a monitor is to watch is on the host    *)
(* chosen, and the hosts selected for a key are in the list.               *)
CoversSelection(q) == (IF SentHosts(q) = {} THEN q.list ELSE SentHosts(q)) \subseteq q.sel
FormsInv ==
    /\ FormInv /\ listed \subseteq MHosts
    /\ MonitorIsOnItsHost /\ KeyCoversSelection
    /\ fd # None =>
        /\ fd.kind = "monitor" => fd.val \in {None, "container"} /\ (fd.val = "container" => fd.host = holder)
        /\ fd.kind = "key" /\ ~fd.relisted => fd.sel \subseteq listed

(* As many of the hosts as there are, are all of them.                     *)
LEMMA CountIsAll == ASSUME NEW S, NEW T, S \subseteq T, IsFiniteSet(T), Cardinality(S) = Cardinality(T) PROVE S = T
<1>1. IsFiniteSet(S)
  BY FS_Subset
<1>2. IsFiniteSet(T \ S) /\ Cardinality(T \ S) = Cardinality(T) - Cardinality(T \cap S)
  BY FS_Difference
<1>3. T \cap S = S
  OBVIOUS
<1>4. Cardinality(T \ S) = Cardinality(S) - Cardinality(S) /\ Cardinality(S) \in Nat
  BY <1>1, <1>2, <1>3, FS_CardinalityType
<1>5. T \ S = {}
  <2>1. Cardinality(T \ S) = 0
    BY <1>4
  <2> QED
    BY <1>2, <2>1, FS_EmptySet
<1> QED
  BY <1>5

(* What is sent is what the dialog shows.                                  *)
LEMMA RequestIsShown ==
    ASSUME FormsInv, NEW op, NEW then, fd # None, Ask(op, then), fd.kind = "monitor" => fd.val # None, fd.kind = "key" => MayCreate(fd)
    PROVE  MonitorIsOnItsHost' /\ KeyCoversSelection'
<1> DEFINE q == FormRequest(op, then)
<1>1. q.kind = fd.kind /\ q.host = fd.host /\ q.held = holder /\ q.sel = fd.sel /\ q.list = listed /\ q.relisted = fd.relisted
  BY DEF FormRequest
<1>2. fposts' = fposts \cup {q}
  BY DEF Ask
<1> HIDE DEF q
<1>3. q.kind = "monitor" => q.host = q.held
  BY <1>1 DEF FormsInv
<1>4. ASSUME q.kind = "key", ~q.relisted PROVE CoversSelection(q)
  <2>1. q.sel \subseteq q.list /\ IsFiniteSet(q.list) /\ (q.list # {} => q.sel # {})
    BY <1>1, <1>4, FormConstants, FS_Subset DEF FormsInv, MayCreate
  <2>2. Cardinality(q.sel) = Cardinality(q.list) => q.sel = q.list
    BY <2>1, CountIsAll
  <2> QED
    BY <2>1, <2>2 DEF CoversSelection, SentHosts
<1> QED
  BY <1>2, <1>3, <1>4 DEF FormsInv, MonitorIsOnItsHost, KeyCoversSelection, CoversSelection

(* No step of a form dialog breaks it.                                     *)
LEMMA FormsStay == FormsInv /\ (FormStep \/ UNCHANGED formVars) => FormsInv'
<1> SUFFICES ASSUME FormsInv, FormStep \/ UNCHANGED formVars PROVE FormsInv'
  OBVIOUS
<1>f. FormInv'
  BY FormStays DEF FormsInv
<1>i. fd # None => IsFormDialog(fd)
  BY DEF FormsInv, FormInv
<1> DEFINE Shown == fd # None =>
        /\ fd.kind = "monitor" => fd.val \in {None, "container"} /\ (fd.val = "container" => fd.host = holder)
        /\ fd.kind = "key" /\ ~fd.relisted => fd.sel \subseteq listed
<1>h. Shown /\ listed \subseteq MHosts
  BY DEF FormsInv
<1>d. ASSUME UNCHANGED fposts, listed' \subseteq MHosts, Shown' PROVE FormsInv'
  BY <1>f, <1>d DEF FormsInv, MonitorIsOnItsHost, KeyCoversSelection, SentHosts
<1>q. ASSUME NEW q \in fposts, UNCHANGED <<listed, holder>>, Shown',
             \A p \in fposts' : p \in fposts \/ p = [q EXCEPT !.op = "send", !.of = Kept(fd, q)] PROVE FormsInv'
  <2> DEFINE r == [q EXCEPT !.op = "send", !.of = Kept(fd, q)]
  <2>1. IsFormPost(q)
    BY DEF FormsInv, FormInv
  <2>2. r.kind = q.kind /\ r.host = q.host /\ r.held = q.held /\ r.sel = q.sel /\ r.list = q.list /\ r.relisted = q.relisted
    BY <2>1 DEF IsFormPost
  <2>3. \A p \in fposts' : p \in fposts \/ p = r
    BY <1>q
  <2> HIDE DEF r
  <2>4. MonitorIsOnItsHost' /\ KeyCoversSelection'
    BY <2>2, <2>3 DEF FormsInv, MonitorIsOnItsHost, KeyCoversSelection, SentHosts
  <2> QED
    BY <1>f, <1>h, <1>q, <2>4 DEF FormsInv
<1>1. CASE UNCHANGED formVars
  BY <1>d, <1>h, <1>1 DEF formVars
<1>2. ASSUME NEW k, OpenForm(k) PROVE FormsInv'
  <2> DEFINE d == [kind |-> k, mount |-> fmounts', busy |-> "no", val |-> None,
              host |-> IF k = "monitor" /\ listed # {} THEN CHOOSE h \in listed : TRUE ELSE None,
              step |-> 0, saved |-> 0, dirty |-> k = "channel", sel |-> IF k = "key" THEN listed ELSE {},
              raced |-> FALSE, relisted |-> FALSE]
  <2>1. fd' = d /\ UNCHANGED <<fposts, listed, holder>>
    BY <1>2 DEF OpenForm
  <2>2. d.kind = k /\ d.val = None /\ d.sel \subseteq listed
    OBVIOUS
  <2> HIDE DEF d
  <2>3. d.val = "container" => FALSE
    BY <2>2, FormConstants
  <2> QED
    BY <1>d, <1>h, <2>1, <2>2, <2>3
<1>3. ASSUME NEW x, SetConfig(x) \/ NameNetwork(x) PROVE FormsInv'
  <2>1. fd # None /\ fd.kind \in {"channel", "network"} /\ UNCHANGED <<fposts, listed, holder>>
        /\ (fd' = [fd EXCEPT !.val = x, !.dirty = TRUE, !.raced = @ \/ fd.busy # "no"] \/ fd' = [fd EXCEPT !.val = x])
    BY <1>3 DEF SetConfig, NameNetwork
  <2>2. fd'.kind = fd.kind
    BY <1>i, <2>1 DEF IsFormDialog
  <2> QED
    BY <1>d, <1>h, <2>1, <2>2
<1>4. ASSUME NEW h, PickMonitorHost(h) PROVE FormsInv'
  <2> DEFINE x == Chosen(fd.val, h, holder)
  <2>1. fd # None /\ fd.kind = "monitor" /\ fd' = [fd EXCEPT !.host = h, !.val = x] /\ UNCHANGED <<fposts, listed, holder>>
    BY <1>4 DEF PickMonitorHost
  <2>2. x \in {None, "container"} /\ (x = "container" => h = holder)
    BY <1>h, <2>1, FormConstants DEF Chosen
  <2> HIDE DEF x
  <2>3. fd'.kind = "monitor" /\ fd'.val = x /\ fd'.host = h
    BY <1>i, <2>1 DEF IsFormDialog
  <2> QED
    BY <1>d, <1>h, <2>1, <2>2, <2>3
<1>5. ASSUME NEW h, ToggleHost(h) PROVE FormsInv'
  <2>1. fd # None /\ fd.kind = "key" /\ h \in listed /\ UNCHANGED <<fposts, listed, holder>>
        /\ fd' = [fd EXCEPT !.sel = IF h \in @ THEN @ \ {h} ELSE @ \cup {h}]
    BY <1>5 DEF ToggleHost
  <2>2. fd'.kind = "key" /\ fd'.relisted = fd.relisted /\ fd'.sel \subseteq fd.sel \cup {h}
    BY <1>i, <2>1 DEF IsFormDialog
  <2> QED
    BY <1>d, <1>h, <2>1, <2>2
<1>6. ASSUME NEW h, ContainersChange(h) PROVE FormsInv'
  <2>1. UNCHANGED <<fposts, listed>> /\ holder' = h
    BY <1>6 DEF ContainersChange
  <2>2. CASE fd # None /\ fd.kind = "monitor"
    <3> DEFINE x == Chosen(fd.val, fd.host, h)
    <3>1. fd' = [fd EXCEPT !.val = x]
      BY <1>6, <2>2 DEF ContainersChange
    <3>2. x \in {None, "container"} /\ (x = "container" => fd.host = h)
      BY <1>h, <2>2, FormConstants DEF Chosen
    <3> HIDE DEF x
    <3>3. fd'.kind = "monitor" /\ fd'.val = x /\ fd'.host = fd.host
      BY <1>i, <2>2, <3>1 DEF IsFormDialog
    <3> QED
      BY <1>d, <1>h, <2>1, <3>2, <3>3
  <2>3. CASE ~(fd # None /\ fd.kind = "monitor")
    <3>1. fd' = fd
      BY <1>6, <2>3 DEF ContainersChange
    <3> QED
      BY <1>d, <1>h, <2>1, <2>3, <3>1
  <2> QED
    BY <2>2, <2>3
<1>7. ASSUME NEW S \in SUBSET MHosts, HostsRelisted(S) PROVE FormsInv'
  <2>1. UNCHANGED <<fposts, holder>> /\ listed' \subseteq MHosts /\ fd' = IF fd # None THEN [fd EXCEPT !.relisted = TRUE] ELSE fd
    BY <1>7 DEF HostsRelisted
  <2>2. fd # None => fd'.kind = fd.kind /\ fd'.val = fd.val /\ fd'.host = fd.host /\ fd'.relisted
    BY <1>i, <2>1 DEF IsFormDialog
  <2> QED
    BY <1>d, <1>h, <2>1, <2>2
<1>8. CASE CloseForm \/ SaveClean
  BY <1>d, <1>h, <1>8 DEF CloseForm, SaveClean
<1>9. CASE PickContainer
  <2>1. fd # None /\ fd' = [fd EXCEPT !.val = "container"] /\ (fd.kind = "monitor" => fd.host = holder) /\ UNCHANGED <<fposts, listed, holder>>
    BY <1>9 DEF PickContainer
  <2>2. fd'.kind = fd.kind /\ fd'.val = "container" /\ fd'.host = fd.host /\ fd'.relisted = fd.relisted /\ fd'.sel = fd.sel
    BY <1>i, <2>1 DEF IsFormDialog
  <2> QED
    BY <1>d, <1>h, <2>1, <2>2
<1>10. CASE KeyStep
  <2>1. fd # None /\ fd' = [fd EXCEPT !.step = 1 - @] /\ UNCHANGED <<fposts, listed, holder>>
    BY <1>10 DEF KeyStep
  <2>2. fd'.kind = fd.kind /\ fd'.val = fd.val /\ fd'.host = fd.host /\ fd'.relisted = fd.relisted /\ fd'.sel = fd.sel
    BY <1>i, <2>1 DEF IsFormDialog
  <2> QED
    BY <1>d, <1>h, <2>1, <2>2
<1>11. ASSUME NEW op, NEW then, fd # None, Ask(op, then), fd.kind = "monitor" => fd.val # None, fd.kind = "key" => MayCreate(fd) PROVE FormsInv'
  <2>1. fd' = [fd EXCEPT !.busy = then] /\ UNCHANGED <<listed, holder>>
    BY <1>11 DEF Ask
  <2>2. fd'.kind = fd.kind /\ fd'.val = fd.val /\ fd'.host = fd.host /\ fd'.relisted = fd.relisted /\ fd'.sel = fd.sel
    BY <1>i, <1>11, <2>1 DEF IsFormDialog
  <2>3. MonitorIsOnItsHost' /\ KeyCoversSelection'
    BY <1>11, RequestIsShown
  <2> QED
    BY <1>f, <1>h, <1>11, <2>1, <2>2, <2>3 DEF FormsInv
<1>12. CASE SaveForm \/ CreateKey \/ \E t \in {"save", "test"} : Persist(t)
  BY <1>11, <1>12 DEF SaveForm, CreateKey, Persist
<1>13. ASSUME NEW q \in fposts, FormFails(q) \/ SendAnswers(q) PROVE FormsInv'
  <2>1. FormFails(q)
    BY <1>13 DEF SendAnswers
  <2>2. fposts' \subseteq fposts /\ UNCHANGED <<listed, holder>> /\ (fd' = fd \/ (fd # None /\ fd' = [fd EXCEPT !.busy = "no"]))
    BY <2>1 DEF FormFails, FormShown
  <2>3. fd' # None => fd # None /\ fd'.kind = fd.kind /\ fd'.val = fd.val /\ fd'.host = fd.host /\ fd'.relisted = fd.relisted /\ fd'.sel = fd.sel
    BY <1>i, <2>2 DEF IsFormDialog
  <2>4. Shown'
    BY <1>h, <2>2, <2>3
  <2> QED
    BY <1>q, <2>2, <2>4
<1>14. ASSUME NEW q \in fposts, FormSaves(q) PROVE FormsInv'
  BY <1>q, <1>14 DEF FormSaves
<1>15. ASSUME NEW q \in fposts, KeyAnswers(q) PROVE FormsInv'
  <2>2. fposts' \subseteq fposts /\ UNCHANGED <<listed, holder>> /\ (fd' = fd \/ (fd # None /\ fd' = [fd EXCEPT !.busy = "no", !.step = 2]))
    BY <1>15 DEF KeyAnswers, FormShown
  <2>3. fd' # None => fd # None /\ fd'.kind = fd.kind /\ fd'.val = fd.val /\ fd'.host = fd.host /\ fd'.relisted = fd.relisted /\ fd'.sel = fd.sel
    BY <1>i, <2>2 DEF IsFormDialog
  <2>4. Shown'
    BY <1>h, <2>2, <2>3
  <2> QED
    BY <1>q, <2>2, <2>4
<1>16. ASSUME NEW q \in fposts, PersistAnswers(q) PROVE FormsInv'
  <2> DEFINE n == Kept(fd, q)
  <2>1. \A p \in fposts' : p \in fposts \/ p = [q EXCEPT !.op = "send", !.of = n]
    BY <1>16 DEF PersistAnswers
  <2>2. UNCHANGED <<listed, holder>> /\ (fd' = fd \/ fd' = None \/ (fd # None /\ fd' = Stored(fd, n)))
    BY <1>16 DEF PersistAnswers, FormShown
  <2> HIDE DEF n
  <2>3. fd' # None => fd # None /\ fd'.kind = fd.kind /\ fd'.val = fd.val /\ fd'.host = fd.host /\ fd'.relisted = fd.relisted /\ fd'.sel = fd.sel
    <3>1. CASE fd # None /\ fd' = Stored(fd, n)
      BY <1>i, <3>1 DEF IsFormDialog, Stored
    <3>2. CASE fd' = fd \/ fd' = None
      BY <3>2
    <3> QED
      BY <2>2, <3>1, <3>2
  <2>4. Shown'
    BY <1>h, <2>2, <2>3
  <2> QED
    BY <1>q, <2>1, <2>2, <2>4 DEF n
<1> QED
  BY <1>1, <1>2, <1>3, <1>4, <1>5, <1>6, <1>7, <1>8, <1>9, <1>10, <1>12, <1>13, <1>14, <1>15, <1>16 DEF FormStep

-----------------------------------------------------------------------------
(* Tags of the built-in registry: one that was not pushed since the list   *)
(* was fetched is as it was shown, or deleted; one that was neither pushed *)
(* nor named does not share the digest of the tag asked about.             *)
Unpushed(t, u) == t \in TagNames \ pushed /\ u \in TagNames \ pushed /\ t # u
NamesAll(q) == \A t \in TagNames : Unpushed(t, q.tag) /\ tags[t] # None /\ tags[t] = tags[q.tag] => t \in q.named
CoversDigest(d) == d.digest # None => \A t \in TagNames : Unpushed(t, d.q.tag) /\ tags[t] = d.digest => t \in d.q.named
IsDel(d) == DOMAIN d = {"q", "digest"} /\ d.q.tag \in TagNames
TagsInv ==
    /\ tags \in [TagNames -> Digests \cup {None}] /\ seen \in [TagNames -> Digests \cup {None}]
    /\ \A t \in TagNames \ pushed : tags[t] \in {seen[t], None}
    /\ tquest # None => tquest.tag \in TagNames /\ NamesAll(tquest)
    /\ \A d \in tdels : IsDel(d) /\ NamesAll(d.q) /\ CoversDigest(d)
OthersAreNamed ==
    \A d \in tdels : DigestDeleted(d) =>
        \A t \in TagNames : tags[t] # None /\ tags'[t] = None => t \in {d.q.tag} \cup d.q.named \/ pushed \cap {t, d.q.tag} # {}

(* Pushes and deletions keep it: tags that were not pushed can only go.    *)
LEMMA TagsOnlyGo ==
    ASSUME TagsInv, tags' \in [TagNames -> Digests \cup {None}], pushed \subseteq pushed', UNCHANGED <<seen, tquest>>,
           \A t \in TagNames \ pushed' : tags'[t] \in {tags[t], None},
           \A d \in tdels' : d \in tdels
    PROVE  TagsInv'
<1>1. \A q : q.tag \in TagNames /\ NamesAll(q) => NamesAll(q)'
  BY DEF NamesAll, Unpushed
<1>2. \A d : IsDel(d) /\ CoversDigest(d) => CoversDigest(d)'
  BY DEF CoversDigest, Unpushed, IsDel
<1> QED
  BY <1>1, <1>2 DEF TagsInv, IsDel

(* No step of the tab breaks it.                                           *)
LEMMA TagsStay == ASSUME TagsInv, TagStep \/ LoginStep \/ UNCHANGED registryVars PROVE TagsInv' /\ OthersAreNamed
<1>n. ASSUME NEW d \in tdels, DigestDeleted(d), NEW t \in TagNames, tags[t] # None, tags'[t] = None
      PROVE  t \in {d.q.tag} \cup d.q.named \/ pushed \cap {t, d.q.tag} # {}
  <2>1. d.digest # None /\ tags'[t] = IF tags[t] = d.digest THEN None ELSE tags[t]
    BY <1>n DEF DigestDeleted
  <2>2. tags[t] = d.digest
    BY <1>n, <2>1
  <2>3. d.q.tag \in TagNames /\ CoversDigest(d)
    BY DEF TagsInv, IsDel
  <2> QED
    BY <2>1, <2>2, <2>3 DEF CoversDigest, Unpushed
<1>o. OthersAreNamed
  BY <1>n DEF OthersAreNamed
<1> SUFFICES TagsInv'
  BY <1>o
<1>s. ASSUME UNCHANGED tagVars PROVE TagsInv'
  BY <1>s, TagsOnlyGo DEF tagVars, TagsInv
<1>1. CASE UNCHANGED registryVars
  BY <1>1, <1>s DEF registryVars
<1>2. CASE LoginStep
  BY <1>2, <1>s DEF LoginStep, AddLogin, CancelLogin, EditLogin, SaveLogin, LoginAccepted, LoginRefused, LoginSaved, SaveFailed, RemoveLogin
<1>3. ASSUME NEW t \in TagNames, AskDelete(t) PROVE TagsInv'
  <2> DEFINE q == [tag |-> t, named |-> Same(t)]
  <2>1. tquest' = q /\ UNCHANGED <<tags, seen, pushed, tdels>>
    BY <1>3 DEF AskDelete
  <2>2. q.tag = t /\ q.named = Same(t)
    OBVIOUS
  <2> HIDE DEF q
  <2>3. NamesAll(q)
    BY <2>2 DEF NamesAll, Unpushed, Same, TagsInv
  <2>4. NamesAll(tquest)' /\ \A d \in tdels : (NamesAll(d.q) => NamesAll(d.q)') /\ (CoversDigest(d) => CoversDigest(d)')
    BY <2>1, <2>3 DEF NamesAll, CoversDigest, Unpushed
  <2> QED
    BY <2>1, <2>2, <2>4 DEF TagsInv
<1>4. ASSUME NEW t \in TagNames, NEW g \in Digests, Push(t, g) PROVE TagsInv'
  <2>1. tags' = [tags EXCEPT ![t] = g] /\ pushed' = pushed \cup {t} /\ UNCHANGED <<seen, tquest, tdels>>
    BY <1>4 DEF Push
  <2> QED
    BY <2>1, TagsOnlyGo DEF TagsInv
<1>5. CASE ConfirmDelete
  <2> DEFINE n == [q |-> tquest, digest |-> None]
  <2>1. tquest # None /\ tquest' = None /\ tdels' = tdels \cup {n} /\ UNCHANGED <<tags, seen, pushed>>
    BY <1>5 DEF ConfirmDelete
  <2>2. IsDel(n) /\ n.q = tquest /\ n.digest = None
    BY <2>1 DEF IsDel, TagsInv
  <2> HIDE DEF n
  <2>3. \A d \in tdels' : IsDel(d) /\ NamesAll(d.q) /\ CoversDigest(d)
    BY <2>1, <2>2 DEF TagsInv, CoversDigest
  <2>4. \A d \in tdels' : NamesAll(d.q)' /\ CoversDigest(d)'
    BY <2>1, <2>3 DEF NamesAll, CoversDigest, Unpushed
  <2> QED
    BY <2>1, <2>3, <2>4 DEF TagsInv
<1>6. CASE DismissDelete
  <2>1. tquest' = None /\ UNCHANGED <<tags, seen, pushed, tdels>>
    BY <1>6 DEF DismissDelete
  <2>2. \A d \in tdels : (NamesAll(d.q) => NamesAll(d.q)') /\ (CoversDigest(d) => CoversDigest(d)')
    BY <2>1 DEF NamesAll, CoversDigest, Unpushed
  <2> QED
    BY <2>1, <2>2 DEF TagsInv
<1>7. CASE TagsFetched
  <2>1. seen' = tags /\ UNCHANGED <<tags, tquest, tdels>> /\ (pushed' = pushed \/ (pushed' = {} /\ tquest = None /\ tdels = {}))
    BY <1>7 DEF TagsFetched
  <2>2. CASE pushed' = pushed
    <3>1. (tquest # None /\ NamesAll(tquest) => NamesAll(tquest)') /\ \A d \in tdels : (NamesAll(d.q) => NamesAll(d.q)') /\ (CoversDigest(d) => CoversDigest(d)')
      BY <2>1, <2>2 DEF NamesAll, CoversDigest, Unpushed
    <3> QED
      BY <2>1, <2>2, <3>1 DEF TagsInv
  <2>3. CASE tquest = None /\ tdels = {}
    BY <2>1, <2>3 DEF TagsInv
  <2> QED
    BY <2>1, <2>2, <2>3
<1>8. ASSUME NEW d \in tdels, DigestLookedUp(d) PROVE TagsInv'
  <2> DEFINE n == [d EXCEPT !.digest = tags[d.q.tag]]
  <2>1. tags[d.q.tag] # None /\ tdels' = (tdels \ {d}) \cup {n} /\ UNCHANGED <<tags, seen, pushed, tquest>>
    BY <1>8 DEF DigestLookedUp
  <2>2. IsDel(n) /\ n.q = d.q /\ n.digest = tags[d.q.tag]
    BY DEF IsDel, TagsInv
  <2> HIDE DEF n
  <2>3. CoversDigest(n)
    BY <2>1, <2>2 DEF CoversDigest, NamesAll, TagsInv
  <2>4. \A e \in tdels' : IsDel(e) /\ NamesAll(e.q) /\ CoversDigest(e)
    BY <2>1, <2>2, <2>3 DEF TagsInv
  <2>5. (\A e \in tdels' : NamesAll(e.q)' /\ CoversDigest(e)') /\ (tquest # None => NamesAll(tquest)')
    BY <2>1, <2>4 DEF NamesAll, CoversDigest, Unpushed, TagsInv
  <2> QED
    BY <2>1, <2>4, <2>5 DEF TagsInv
<1>9. ASSUME NEW d \in tdels, DigestDeleted(d) PROVE TagsInv'
  <2>1. tdels' = tdels \ {d} /\ UNCHANGED <<seen, pushed, tquest>> /\ tags' = [t \in TagNames |-> IF tags[t] = d.digest THEN None ELSE tags[t]]
    BY <1>9 DEF DigestDeleted
  <2>2. tags' \in [TagNames -> Digests \cup {None}] /\ \A t \in TagNames : tags'[t] \in {tags[t], None}
    BY <2>1 DEF TagsInv
  <2> QED
    BY <2>1, <2>2, TagsOnlyGo
<1>10. ASSUME NEW d \in tdels, DeleteFailed(d) PROVE TagsInv'
  BY <1>10, TagsOnlyGo DEF DeleteFailed, TagsInv
<1> QED
  BY <1>1, <1>2, <1>3, <1>4, <1>5, <1>6, <1>7, <1>8, <1>9, <1>10 DEF TagStep

-----------------------------------------------------------------------------
(* The hosts to monitor.  Saves and hosts are finitely many.               *)
PicksFinite == IsFiniteSet(psaves) /\ IsFiniteSet(fleet) /\ IsFiniteSet(fleetSeen)
OneChanges ==
    Cardinality(psaves') > Cardinality(psaves) =>
        LET before == Included(pickedIds, fleetSeen)
            after == Included(pickedIds', fleetSeen)
        IN after # {} /\ Cardinality((before \ after) \cup (after \ before)) = 1

(* A save that is answered leaves no more of them.                         *)
LEMMA NoMoreSaves == ASSUME NEW S, IsFiniteSet(S), NEW q \in S, NEW T, NEW r, T \subseteq (S \ {q}) \cup {r}
                     PROVE  IsFiniteSet(T) /\ Cardinality(T) <= Cardinality(S)
<1>1. IsFiniteSet(S \ {q}) /\ Cardinality(S \ {q}) = Cardinality(S) - 1 /\ Cardinality(S) \in Nat
  BY FS_RemoveElement, FS_CardinalityType
<1> DEFINE A == S \ {q}
<1>2. IsFiniteSet(A) /\ Cardinality(A) = Cardinality(S) - 1
  BY <1>1
<1> HIDE DEF A
<1>3. IsFiniteSet(A \cup {r}) /\ Cardinality(A \cup {r}) \in {Cardinality(A), Cardinality(A) + 1}
  BY <1>2, FS_AddElement
<1>4. IsFiniteSet(T) /\ Cardinality(T) <= Cardinality(A \cup {r}) /\ Cardinality(T) \in Nat
  BY <1>3, FS_Subset, FS_CardinalityType DEF A
<1> QED
  BY <1>1, <1>2, <1>3, <1>4

(* A click on a host puts it in or takes it out, and no other.             *)
LEMMA TogglesOne == ASSUME PicksFinite, NEW h \in HostNames, TogglePick(h) PROVE OneChanges
<1> DEFINE next == Toggled(h)
           before == Included(pickedIds, fleetSeen)
           after == Included(pickedIds', fleetSeen)
<1>1. h \in fleetSeen /\ next # {} /\ pickedIds' = IF Cardinality(next) = Cardinality(fleetSeen) THEN {} ELSE next
  BY DEF TogglePick
<1>2. before = Selected
  BY DEF Included, Selected
<1>3. next \subseteq fleetSeen
  BY <1>1 DEF Toggled, Selected
<1>4. Cardinality(next) = Cardinality(fleetSeen) => next = fleetSeen
  BY <1>3, CountIsAll DEF PicksFinite
<1>5. after = next
  <2>1. CASE Cardinality(next) = Cardinality(fleetSeen)
    BY <1>1, <1>4, <2>1 DEF Included
  <2>2. CASE Cardinality(next) # Cardinality(fleetSeen)
    BY <1>1, <1>3, <2>2 DEF Included
  <2> QED
    BY <2>1, <2>2
<1>6. (Selected \ next) \cup (next \ Selected) = {h}
  BY DEF Toggled
<1>7. Cardinality({h}) = 1
  BY FS_Singleton
<1> HIDE DEF next, before, after
<1>8. after # {} /\ Cardinality((before \ after) \cup (after \ before)) = 1
  BY <1>1, <1>2, <1>5, <1>6, <1>7
<1> QED
  BY <1>8 DEF OneChanges, before, after

(* No step of the two pages breaks it.                                     *)
LEMMA PicksStay == ASSUME PicksFinite, PickStep \/ ImportStep \/ UNCHANGED setVars PROVE PicksFinite' /\ OneChanges
<1>n. Cardinality(psaves) \in Nat
  BY FS_CardinalityType DEF PicksFinite
<1>s. ASSUME UNCHANGED psaves, IsFiniteSet(fleet'), IsFiniteSet(fleetSeen') PROVE PicksFinite' /\ OneChanges
  BY <1>n, <1>s DEF PicksFinite, OneChanges
<1>q. ASSUME NEW q \in psaves, NEW r, psaves' \subseteq (psaves \ {q}) \cup {r}, UNCHANGED <<fleet, fleetSeen>> PROVE PicksFinite' /\ OneChanges
  <2>1. IsFiniteSet(psaves') /\ Cardinality(psaves') <= Cardinality(psaves) /\ Cardinality(psaves') \in Nat
    BY <1>q, NoMoreSaves, FS_CardinalityType DEF PicksFinite
  <2> QED
    BY <1>n, <1>q, <2>1 DEF PicksFinite, OneChanges
<1>1. CASE UNCHANGED setVars
  BY <1>1, <1>s DEF setVars, PicksFinite
<1>2. ASSUME NEW n, NEW w, HostComes(n, w) PROVE PicksFinite' /\ OneChanges
  <2>1. IsFiniteSet(fleet \cup {n})
    BY FS_AddElement DEF PicksFinite
  <2> QED
    BY <1>2, <1>s, <2>1 DEF HostComes, pickVars, PicksFinite
<1>3. ASSUME NEW n, NEW w, HostGoes(n, w) PROVE PicksFinite' /\ OneChanges
  <2>1. IsFiniteSet(fleet \ {n})
    BY FS_RemoveElement, FS_Subset DEF PicksFinite
  <2> QED
    BY <1>3, <1>s, <2>1 DEF HostGoes, pickVars, PicksFinite
<1>4. CASE HostsFetched
  BY <1>4, <1>s DEF HostsFetched, pickVars, PicksFinite
<1>5. CASE PicksFetched
  BY <1>5, <1>s DEF PicksFetched, PicksFinite
<1>6. ASSUME NEW n \in HostNames, TogglePick(n) PROVE PicksFinite' /\ OneChanges
  <2>1. \E x : psaves' = psaves \cup {x} /\ UNCHANGED <<fleet, fleetSeen>>
    BY <1>6 DEF TogglePick
  <2> QED
    BY <1>6, <2>1, TogglesOne, FS_AddElement DEF PicksFinite
<1>7. ASSUME NEW q \in psaves, PicksApplied(q) PROVE PicksFinite' /\ OneChanges
  BY <1>7, <1>q DEF PicksApplied
<1>8. ASSUME NEW q \in psaves, PicksSaved(q) \/ PicksFail(q) PROVE PicksFinite' /\ OneChanges
  BY <1>8, <1>q DEF PicksSaved, PicksFail
<1>9. CASE OpenImport \/ CancelImport \/ RunImport \/ HostToldMade \/ HostRefused \/ EndImport
  BY <1>9, <1>s DEF OpenImport, CancelImport, RunImport, HostToldMade, HostRefused, EndImport, ImportGoesOn, pickVars, PicksFinite
<1>10. CASE HostMade
  <2>1. \E n : fleet' = fleet \cup {n} /\ UNCHANGED <<fleetSeen, psaves>>
    BY <1>10 DEF HostMade, ImportGoesOn, pickVars
  <2> QED
    BY <1>s, <2>1, FS_AddElement DEF PicksFinite
<1>11. ASSUME NEW t, Paste(t) PROVE PicksFinite' /\ OneChanges
  BY <1>11, <1>s DEF Paste, pickVars, PicksFinite
<1> QED
  BY <1>1, <1>2, <1>3, <1>4, <1>5, <1>6, <1>7, <1>8, <1>9, <1>10, <1>11 DEF PickStep, ImportStep

-----------------------------------------------------------------------------
(* Requests carry what was asked.                                          *)
ActInv == FormsInv /\ AskedInv /\ TagsInv /\ PicksFinite /\ (page \in {"list", "panel"} => PageInv)

(* Nothing was asked.                                                      *)
LEMMA ActStart == Init => ActInv
<1> SUFFICES ASSUME Init PROVE ActInv
  OBVIOUS
<1>1. FormsInv
  <2>1. FormInv
    BY TwiceStart DEF TwiceInv
  <2> QED
    BY <2>1 DEF Init, FormInit, FormsInv, MonitorIsOnItsHost, KeyCoversSelection
<1>2. PageInv
  BY DEF Init, PageInit, PageInv, ListsInv, AskedInv
<1>3. TagsInv
  BY DEF Init, RegistryInit, TagsInv
<1>4. PicksFinite
  BY SetConstants, FS_EmptySet DEF Init, SetInit, PicksFinite
<1> QED
  BY <1>1, <1>2, <1>3, <1>4 DEF ActInv, PageInv

(* No step of any page breaks it, or changes what was not asked about.     *)
LEMMA ActStays == ASSUME ActInv, [Next]_vars PROVE ActInv' /\ OthersAreNamed /\ OneChanges
<1>1. FormsInv' /\ page' = page
  BY PageSteps, FormsStay DEF ActInv
<1>2. TagsInv' /\ OthersAreNamed
  BY OtherSteps, TagsStay DEF ActInv
<1>3. PicksFinite' /\ OneChanges
  BY OtherSteps, PicksStay DEF ActInv
<1>4. AskedInv' /\ (page \in {"list", "panel"} => PageInv')
  <2>1. CASE page \in {"list", "panel"}
    <3>1. ListStep \/ PanelStep \/ UNCHANGED <<moves, pageVars>>
      BY <2>1, OwnStep DEF vars
    <3>2. PageInv'
      BY <2>1, <3>1, PageStays DEF ActInv
    <3> QED
      BY <3>2 DEF PageInv
  <2>2. CASE page \notin {"list", "panel"}
    <3>1. UNCHANGED pageOnly
      BY <2>2, PanelFrame
    <3> QED
      BY <2>2, <3>1 DEF pageOnly, ActInv, AskedInv, AsAsked
  <2> QED
    BY <2>1, <2>2
<1> QED
  BY <1>1, <1>2, <1>3, <1>4 DEF ActInv

(* A request acts on what its user was shown and asked about: a bulk stop, *)
(* an environment, a monitor and an API key on the containers and hosts    *)
(* that were chosen, a deletion on the tags that were named, a click on    *)
(* one host (hosts/[id]/page.tsx:143, ContainerSidecar.tsx:303,            *)
(* MonitorDialog.tsx, ApiKeyDialog.tsx:49, RegistriesTab.tsx:190,          *)
(* ConfigurePanel.tsx:25), for any numbers of them.                        *)
THEOREM ActsAsAsked == Spec => ActsOnWhatWasAsked
<1>1. Init => ActInv
  BY ActStart
<1>2. ActInv /\ [Next]_vars => ActInv'
  BY ActStays
<1>3. ActInv => BulkIsWhatWasAsked /\ EnvIsOfItsContainer /\ MonitorIsOnItsHost /\ KeyCoversSelection
  BY DEF ActInv, AskedInv, AsAsked, FormsInv, BulkIsWhatWasAsked, EnvIsOfItsContainer
<1>4. ActInv /\ [Next]_vars =>
        /\ [\A d \in tdels : DigestDeleted(d) =>
              \A t \in TagNames : tags[t] # None /\ tags'[t] = None =>
                 t \in {d.q.tag} \cup d.q.named \/ pushed \cap {t, d.q.tag} # {}]_registryVars
        /\ [Cardinality(psaves') > Cardinality(psaves) =>
             LET before == Included(pickedIds, fleetSeen)
                 after == Included(pickedIds', fleetSeen)
             IN after # {} /\ Cardinality((before \ after) \cup (after \ before)) = 1]_setVars
  BY ActStays DEF OthersAreNamed, OneChanges
<1> QED
  BY <1>1, <1>2, <1>3, <1>4, PTL DEF Spec, ActsOnWhatWasAsked, OnlyNamedTagsGo, OneHostChanges

-----------------------------------------------------------------------------
(* Settings: with at most one PATCH on its way, it is shown what is stored *)
(* before or after it.                                                     *)
IsSave(q) ==
    /\ DOMAIN q = {"key", "val", "prev", "answer", "nr"} /\ q.key \in Keys /\ q.val \in KeyVals
    /\ q.answer \in AllSettings \cup {None}
StoredAround(q) == kept = IF q.answer = None THEN q.prev ELSE q.answer
SettingInv ==
    /\ kept \in AllSettings
    /\ \A q \in saves : IsSave(q)
    /\ ~muddled => (saves = {} => cached = kept) /\ \A p, q \in saves : p = q /\ StoredAround(q)

(* No save, answer or fetch breaks it.                                     *)
LEMMA SettingsStay == SettingInv /\ (SettingsStep \/ UNCHANGED settingVars) => SettingInv'
<1> SUFFICES ASSUME SettingInv, SettingsStep \/ UNCHANGED settingVars PROVE SettingInv'
  OBVIOUS
<1>1. CASE UNCHANGED settingVars
  BY <1>1 DEF settingVars, SettingInv, StoredAround
<1>2. ASSUME NEW k \in Keys, NEW x \in KeyVals, SaveSetting(k, x) PROVE SettingInv'
  <2> DEFINE r == [key |-> k, val |-> x, prev |-> cached, answer |-> None, nr |-> moves']
  <2>1. IsSave(r) /\ r.prev = cached /\ r.answer = None
    BY DEF IsSave
  <2>2. saves' = saves \cup {r} /\ kept' = kept /\ (~muddled' => ~muddled /\ saves = {})
    BY <1>2 DEF SaveSetting
  <2> HIDE DEF r
  <2> QED
    BY <2>1, <2>2 DEF SettingInv, StoredAround
<1>3. ASSUME NEW q \in saves, PatchApplied(q) PROVE SettingInv'
  <2> DEFINE s == MergeSettings(kept, q.key, q.val)
             r == [q EXCEPT !.answer = s]
  <2>1. s \in AllSettings /\ s # None
    BY SettingConstants DEF SettingInv, IsSave, MergeSettings, AllSettings
  <2>2. IsSave(r) /\ r.answer = s
    BY <2>1 DEF SettingInv, IsSave
  <2>3. saves' = (saves \ {q}) \cup {r} /\ kept' = s /\ UNCHANGED <<cached, muddled>>
    BY <1>3 DEF PatchApplied
  <2> HIDE DEF s, r
  <2> QED
    BY <2>1, <2>2, <2>3 DEF SettingInv, StoredAround
<1>4. ASSUME NEW q \in saves, PatchDone(q) \/ PatchFailed(q) PROVE SettingInv'
  BY <1>4 DEF PatchDone, PatchFailed, RolledBack, SettingInv, StoredAround
<1>5. CASE Revalidate
  BY <1>5 DEF Revalidate, SettingInv
<1>6. ASSUME NEW k \in Keys, NEW x \in KeyVals, OtherSaves(k, x) PROVE SettingInv'
  <2>1. MergeSettings(kept, k, x) \in AllSettings
    BY DEF SettingInv, MergeSettings, AllSettings
  <2> QED
    BY <1>6, <2>1 DEF OtherSaves, SettingInv
<1> QED
  BY <1>1, <1>2, <1>3, <1>4, <1>5, <1>6 DEF SettingsStep

-----------------------------------------------------------------------------
(* Lists of rows: where a change ends with a fetch, one is on its way or   *)
(* the list is right; elsewhere one change at a time is on its way, of one *)
(* row, and the list is shown as it will be.                               *)
IsTop(q) == DOMAIN q = {"todo", "to", "prev", "sent", "bad", "nr"}
Foretold(q) ==
    /\ IsTop(q) /\ q.todo # {} /\ q.bad = FALSE
    /\ showing = With(q.prev, q.todo, q.to)
    /\ q.sent = {} \/ q.sent = q.todo
    /\ truth = IF q.sent = {} THEN q.prev ELSE showing
TableInv ==
    torn = {} =>
        IF table \in {"stacks", "snoozed"} THEN tops = {} /\ ~fetch.on => showing = truth
        ELSE (tops = {} => showing = truth) /\ \A p, q \in tops : p = q /\ Foretold(q)

(* No change, answer or fetch breaks it.                                   *)
LEMMA TableStays == TableInv /\ (TableStep \/ UNCHANGED tableVars) => TableInv'
<1> SUFFICES ASSUME TableInv, TableStep \/ UNCHANGED tableVars PROVE TableInv'
  OBVIOUS
<1> DEFINE Refreshed == table \in {"stacks", "snoozed"}
<1>0. ~Refreshed => \A S : Unit(S) = {S}
  BY DEF Unit
<1>1. CASE UNCHANGED tableVars
  BY <1>1 DEF tableVars, TableInv, Foretold
<1>2. ASSUME NEW S, NEW x, NEW prev, Start(S, x, prev), ~Refreshed => S # {} PROVE TableInv'
  <2> DEFINE r == [todo |-> S, to |-> x, prev |-> prev, sent |-> {}, bad |-> FALSE, nr |-> moves']
  <2>1. IsTop(r) /\ r.todo = S /\ r.to = x /\ r.prev = prev /\ r.sent = {} /\ r.bad = FALSE
    BY DEF IsTop
  <2>2. tops' = tops \cup {r} /\ UNCHANGED <<table, truth>> /\ showing' = With(prev, S, x)
    BY <1>2 DEF Start
  <2>3. torn' = {} => torn = {} /\ tops = {} /\ prev = showing
    BY <1>2 DEF Start
  <2> HIDE DEF r
  <2>4. ~Refreshed /\ torn' = {} => tops' = {r} /\ prev = truth /\ S # {}
    BY <1>2, <2>2, <2>3 DEF TableInv
  <2> QED
    BY <2>1, <2>2, <2>4 DEF TableInv, Foretold
<1>3. CASE \/ \E x \in {"on", "off"} : SwitchAll(x)
           \/ \E r \in Rows : SwitchRow(r) \/ Snooze(r)
           \/ ShowSnoozed \/ ConfirmRemove
  BY <1>2, <1>3 DEF SwitchAll, SwitchRow, Snooze, ShowSnoozed, ConfirmRemove
<1>4. CASE DismissRemove \/ FocusFetch \/ \E r \in Rows : AskRemove(r) \/ OtherChanges(r)
  BY <1>4 DEF DismissRemove, FocusFetch, Asked, AskRemove, OtherChanges, TableInv, Foretold
<1>5. CASE FetchRead
  BY <1>5 DEF FetchRead, Asked, TableInv, Foretold
<1>6. CASE FetchShown
  BY <1>6 DEF FetchShown, NoFetch, TableInv, Foretold
<1>7. ASSUME NEW q \in tops, NEW S \in Unit(q.todo), RequestApplied(q, S) PROVE TableInv'
  <2>1. q.sent = {} /\ truth' = With(truth, S, q.to) /\ tops' = (tops \ {q}) \cup {[q EXCEPT !.sent = S]}
        /\ UNCHANGED <<table, showing, fetch, torn>>
    BY <1>7 DEF RequestApplied
  <2>2. CASE Refreshed
    BY <2>1, <2>2 DEF TableInv
  <2>3. CASE ~Refreshed /\ torn = {}
    <3> DEFINE r == [q EXCEPT !.sent = S]
    <3>1. S = q.todo /\ Foretold(q) /\ \A p \in tops : p = q
      BY <1>0, <2>3 DEF TableInv
    <3>2. IsTop(r) /\ r.todo = S /\ r.to = q.to /\ r.prev = q.prev /\ r.sent = S /\ r.bad = FALSE
      BY <3>1 DEF Foretold, IsTop
    <3>3. tops' = {r}
      BY <2>1, <3>1
    <3> HIDE DEF r
    <3>4. truth' = showing' /\ S # {} /\ showing' = With(q.prev, S, q.to)
      BY <2>1, <3>1 DEF Foretold
    <3> QED
      BY <2>1, <2>3, <3>2, <3>3, <3>4 DEF TableInv, Foretold
  <2> QED
    BY <2>1, <2>2, <2>3 DEF TableInv
<1>8. ASSUME NEW q \in tops, NEW S, NEW ok \in BOOLEAN, RequestBack(q, S, ok), UNCHANGED <<table, truth>>, torn' = torn,
             ok => S = q.sent /\ S # {}, ~ok => q.sent = {} /\ S \in Unit(q.todo)
      PROVE TableInv'
  <2>1. CASE Refreshed
    <3>1. CASE q.todo \ S # {}
      BY <1>8, <2>1, <3>1 DEF RequestBack, TableInv
    <3>2. CASE q.todo \ S = {}
      BY <1>8, <2>1, <3>2 DEF RequestBack, Refetches, Asked, TableInv
    <3> QED
      BY <3>1, <3>2
  <2>2. CASE ~Refreshed /\ torn = {}
    <3>1. Foretold(q) /\ \A p \in tops : p = q
      BY <2>2 DEF TableInv
    <3>2. S = q.todo
      BY <1>0, <1>8, <2>2, <3>1 DEF Foretold
    <3>3. tops' = tops \ {q} /\ showing' = IF RollsBack(q.bad \/ ~ok) THEN q.prev ELSE showing
      BY <1>8, <3>2 DEF RequestBack
    <3>4. tops' = {} /\ showing' = truth
      BY <1>8, <2>2, <3>1, <3>3 DEF Foretold, RollsBack
    <3> QED
      BY <1>8, <2>2, <3>4 DEF TableInv
  <2> QED
    BY <1>8, <2>1, <2>2 DEF TableInv
<1>9. ASSUME NEW q \in tops, RequestAnswered(q) PROVE TableInv'
  BY <1>8, <1>9 DEF RequestAnswered
<1>10. ASSUME NEW q \in tops, AnswerLost(q) PROVE TableInv'
  BY <1>10 DEF AnswerLost, TableInv
<1>11. ASSUME NEW q \in tops, NEW S \in Unit(q.todo), RequestRefused(q, S) PROVE TableInv'
  BY <1>8, <1>11 DEF RequestRefused
<1> QED
  BY <1>1, <1>3, <1>4, <1>5, <1>6, <1>7, <1>9, <1>10, <1>11 DEF TableStep

-----------------------------------------------------------------------------
(* The baseline: a copy that is the last is the baseline, and a toggle     *)
(* made on it applies to it.                                               *)
BaseInv ==
    /\ version \in Nat /\ copy.at \in Nat /\ copy.at <= version
    /\ copy.at = version => copy.base = stored
    /\ \A q \in puts : q.op = "toggle" =>
         /\ q.from \in Nat /\ q.from <= version
         /\ q.from = version => q.body = Flip(stored, q.part)
    /\ LostOnlyByOverlap

(* No change, answer or fetch breaks it.                                   *)
LEMMA BaseStays == BaseInv /\ (PatchStep \/ BaselineStep \/ UNCHANGED machineVars) => BaseInv'
<1> SUFFICES ASSUME BaseInv, PatchStep \/ BaselineStep \/ UNCHANGED machineVars PROVE BaseInv'
  OBVIOUS
<1>1. ASSUME UNCHANGED baseVars PROVE BaseInv'
  BY <1>1 DEF baseVars, BaseInv, LostOnlyByOverlap
<1>2. CASE UNCHANGED machineVars
  BY <1>1, <1>2 DEF machineVars
<1>3. CASE PatchStep
  BY <1>1, <1>3 DEF PatchStep, Scanned, TogglePkg, SelectAll, PredictAsks, PredictAnswers, InstallPicked, AskMachine,
                    TellMachine, MachineYes, MachineNo, OrderDone
<1>4. ASSUME NEW op, NEW p, NEW b, NEW at, SendPut(op, p, b, at), UNCHANGED <<stored, version, copy, meant, overlapped>>,
             op = "toggle" => at = copy.at /\ copy.base # None /\ b = Flip(copy.base, p)
      PROVE BaseInv'
  <2> DEFINE r == [op |-> op, part |-> p, body |-> b, from |-> at, nr |-> moves']
  <2>1. r.op = op /\ r.part = p /\ r.body = b /\ r.from = at
    OBVIOUS
  <2>2. puts' = puts \cup {r}
    BY <1>4 DEF SendPut
  <2> HIDE DEF r
  <2> QED
    BY <1>4, <2>1, <2>2 DEF BaseInv, LostOnlyByOverlap
<1>5. ASSUME NEW p, TogglePart(p) PROVE BaseInv'
  BY <1>4, <1>5 DEF TogglePart, Body
<1>6. CASE RemoveBaseline \/ SaveDraft
  BY <1>4, <1>6 DEF RemoveBaseline, SaveDraft
<1>7. CASE EditBaseline \/ CancelDraft \/ \E p \in Parts : ToggleDraft(p)
  BY <1>7 DEF EditBaseline, CancelDraft, ToggleDraft, BaseInv, LostOnlyByOverlap
<1>8. CASE Refetch
  BY <1>8 DEF Refetch, BaseInv, LostOnlyByOverlap
<1>9. ASSUME NEW q \in puts, PutAnswers(q) PROVE BaseInv'
  <2>1. puts' \subseteq puts /\ version' = version + 1 /\ copy' = copy
    BY <1>9 DEF PutAnswers
  <2>2. LostOnlyByOverlap'
    <3>1. CASE q.op = "toggle"
      BY <1>9, <3>1 DEF PutAnswers, BaseInv, LostOnlyByOverlap
    <3>2. CASE q.op # "toggle"
      BY <1>9, <3>2 DEF PutAnswers, LostOnlyByOverlap
    <3> QED
      BY <3>1, <3>2
  <2> QED
    BY <2>1, <2>2 DEF BaseInv
<1>10. ASSUME NEW q \in puts, PutFails(q) PROVE BaseInv'
  BY <1>10 DEF PutFails, BaseInv, LostOnlyByOverlap
<1> QED
  BY <1>2, <1>3, <1>5, <1>6, <1>7, <1>8, <1>9, <1>10 DEF BaselineStep

-----------------------------------------------------------------------------
(* The hosts to monitor: with at most one PATCH on its way, it is shown    *)
(* what is stored before or after it.                                      *)
IsPick(q) == DOMAIN q = {"val", "prev", "done", "nr"} /\ q.done \in BOOLEAN
PickInv ==
    /\ \A q \in psaves : IsPick(q)
    /\ ~crossed =>
         /\ psaves = {} => pickedIds = hostIds
         /\ \A p, q \in psaves : p = q /\ hostIds = IF q.done THEN q.val ELSE q.prev

(* No click, answer or fetch breaks it.                                    *)
LEMMA PickStays == PickInv /\ (PickStep \/ ImportStep \/ UNCHANGED setVars) => PickInv'
<1> SUFFICES ASSUME PickInv, PickStep \/ ImportStep \/ UNCHANGED setVars PROVE PickInv'
  OBVIOUS
<1>1. ASSUME UNCHANGED pickVars PROVE PickInv'
  BY <1>1 DEF pickVars, PickInv
<1>2. CASE UNCHANGED setVars
  BY <1>1, <1>2 DEF setVars, pickVars
<1>3. ASSUME NEW n, NEW w, HostComes(n, w) \/ HostGoes(n, w) PROVE PickInv'
  BY <1>1, <1>3 DEF HostComes, HostGoes
<1>4. CASE HostsFetched
  BY <1>1, <1>4 DEF HostsFetched
<1>5. CASE OpenImport \/ CancelImport \/ RunImport \/ HostMade \/ HostToldMade \/ HostRefused \/ EndImport \/ \E t \in Pastes : Paste(t)
  BY <1>1, <1>5 DEF OpenImport, CancelImport, RunImport, HostMade, HostToldMade, HostRefused, EndImport, ImportGoesOn, Paste
<1>6. ASSUME NEW h, TogglePick(h) PROVE PickInv'
  <2> DEFINE save == IF Cardinality(Toggled(h)) = Cardinality(fleetSeen) THEN {} ELSE Toggled(h)
             r == [val |-> save, prev |-> pickedIds, done |-> FALSE, nr |-> moves']
  <2>1. IsPick(r) /\ r.prev = pickedIds /\ r.done = FALSE
    BY DEF IsPick
  <2>2. psaves' = psaves \cup {r} /\ hostIds' = hostIds /\ (~crossed' => ~crossed /\ psaves = {})
    BY <1>6 DEF TogglePick
  <2> HIDE DEF r
  <2> QED
    BY <2>1, <2>2 DEF PickInv
<1>7. ASSUME NEW q \in psaves, PicksApplied(q) PROVE PickInv'
  <2> DEFINE r == [q EXCEPT !.done = TRUE]
  <2>1. IsPick(r) /\ r.val = q.val /\ r.done = TRUE
    BY DEF PickInv, IsPick
  <2>2. psaves' = (psaves \ {q}) \cup {r} /\ hostIds' = q.val /\ UNCHANGED <<pickedIds, crossed>>
    BY <1>7 DEF PicksApplied
  <2> HIDE DEF r
  <2> QED
    BY <2>1, <2>2 DEF PickInv
<1>8. ASSUME NEW q \in psaves, PicksSaved(q) \/ PicksFail(q) PROVE PickInv'
  BY <1>8 DEF PicksSaved, PicksFail, PickInv, IsPick
<1>9. CASE PicksFetched
  BY <1>9 DEF PicksFetched, PickInv
<1> QED
  BY <1>2, <1>3, <1>4, <1>5, <1>6, <1>7, <1>8, <1>9 DEF PickStep, ImportStep

-----------------------------------------------------------------------------
(* The channel dialog: its own request carries what it shows, a PATCH of   *)
(* another dialog is of another channel.                                   *)
ChannelGoes(d, q) ==
    IF q.mount = d.mount THEN (~d.raced => q.val = d.val) /\ (q.op = "patch" => q.of = d.saved)
    ELSE q.op = "patch" => q.of # d.saved
ChannelForm(d) ==
    /\ d.val \in Vals \cup {None} /\ d.saved \in 0..Len(channels)
    /\ ~d.dirty /\ ~d.raced => d.saved # 0 /\ channels[d.saved] = d.val
    /\ \A q \in fposts : q.kind = "channel" /\ q.op # "send" => ChannelGoes(d, q)
ChannelPost(q) == q.val \in Vals /\ q.op \in {"post", "patch", "send"} /\ (q.op = "patch" => q.of \in 1..Len(channels))
ChannelInv ==
    /\ channels \in Seq(Vals)
    /\ \A q \in fposts : q.kind = "channel" => ChannelPost(q)
    /\ fd # None => (fd.kind = "channel" => ChannelForm(fd))
SameForm(d, e) == d.kind = e.kind /\ d.mount = e.mount /\ d.val = e.val /\ d.saved = e.saved /\ d.dirty = e.dirty /\ d.raced = e.raced

(* Requests that end and other fields leave it as it is.                   *)
LEMMA ChannelRests ==
    ASSUME ChannelInv, channels' = channels, \A q \in fposts' : q \in fposts \/ q.kind # "channel",
           fd' # None => (fd'.kind = "channel" => fd # None /\ SameForm(fd', fd))
    PROVE  ChannelInv'
<1>1. ASSUME fd' # None, fd'.kind = "channel" PROVE ChannelForm(fd)'
  BY <1>1 DEF ChannelInv, ChannelForm, ChannelGoes, SameForm
<1>2. \A q \in fposts' : q.kind = "channel" => ChannelPost(q)'
  BY DEF ChannelInv, ChannelPost
<1> QED
  BY <1>1, <1>2 DEF ChannelInv

(* What a dialog sends is what it shows.                                   *)
LEMMA ChannelAsks ==
    ASSUME ChannelInv, NEW op, NEW then, fd # None, IsFormDialog(fd), Ask(op, then),
           fd.kind = "channel" => fd.val # None /\ (op = "post" \/ op = "send" \/ (op = "patch" /\ fd.saved # 0))
    PROVE  ChannelInv'
<1> DEFINE q == FormRequest(op, then)
<1>1. q.kind = fd.kind /\ q.mount = fd.mount /\ q.op = op /\ q.of = fd.saved /\ q.val = fd.val
  BY DEF FormRequest
<1>2. fposts' = fposts \cup {q} /\ fd' = [fd EXCEPT !.busy = then] /\ UNCHANGED channels
  BY DEF Ask
<1>3. SameForm(fd', fd)
  BY <1>2 DEF IsFormDialog, SameForm
<1> HIDE DEF q
<1>4. CASE fd.kind # "channel"
  <2>1. \A p \in fposts' : p \in fposts \/ p.kind # "channel"
    BY <1>1, <1>2, <1>4
  <2> QED
    BY <1>2, <1>3, <2>1, ChannelRests
<1>5. CASE fd.kind = "channel"
  <2>1. ChannelForm(fd) /\ Len(channels) \in Nat
    BY <1>5 DEF ChannelInv
  <2>2. ChannelPost(q) /\ ChannelGoes(fd, q)
    BY <1>1, <1>5, <2>1 DEF ChannelPost, ChannelForm, ChannelGoes
  <2>3. ChannelForm(fd)'
    BY <1>2, <1>3, <2>1, <2>2 DEF ChannelForm, ChannelGoes, SameForm
  <2>4. \A p \in fposts' : p.kind = "channel" => ChannelPost(p)'
    BY <1>2, <2>2 DEF ChannelInv, ChannelPost
  <2> QED
    BY <1>2, <2>3, <2>4 DEF ChannelInv
<1> QED
  BY <1>4, <1>5

(* A channel is written: by its own dialog, which then shows what it sent, *)
(* or for another, which leaves the one on screen alone.                   *)
LEMMA ChannelWritten == ASSUME FormInv, ChannelInv, NEW q \in fposts, PersistAnswers(q) PROVE ChannelInv'
<1> DEFINE n == Kept(fd, q)
           r == [q EXCEPT !.op = "send", !.of = n]
           m == Len(channels)
<1>1. q.kind = "channel" /\ q.op # "send" /\ ChannelPost(q) /\ m \in Nat
  BY DEF PersistAnswers, ChannelInv
<1>2. /\ channels' \in Seq(Vals) /\ Len(channels') >= m /\ n \in 1..Len(channels') /\ channels'[n] = q.val
      /\ \A i \in 1..m : i # n => channels'[i] = channels[i]
      /\ q.op = "post" => n = m + 1
      /\ q.op = "patch" => n = q.of /\ n <= m
  <2>1. CASE q.op = "post"
    <3>1. channels' = Append(channels, q.val) /\ n = m + 1
      BY <2>1 DEF PersistAnswers, Kept
    <3> QED
      BY <1>1, <2>1, <3>1 DEF ChannelPost, ChannelInv
  <2>2. CASE q.op = "patch"
    <3>1. channels' = [channels EXCEPT ![q.of] = q.val] /\ n = q.of
      BY <2>2 DEF PersistAnswers, Kept
    <3>2. n \in 1..m /\ q.val \in Vals
      BY <1>1, <2>2, <3>1 DEF ChannelPost
    <3>3. channels' \in Seq(Vals) /\ Len(channels') = m /\ channels'[n] = q.val /\ \A i \in 1..m : i # n => channels'[i] = channels[i]
      BY <3>1, <3>2 DEF ChannelInv
    <3> QED
      BY <2>2, <3>1, <3>2, <3>3
  <2> QED
    BY <1>1, <2>1, <2>2 DEF ChannelPost
<1>3. r.kind = "channel" /\ r.op = "send" /\ r.val = q.val
  BY <1>1 DEF FormInv, IsFormPost
<1>4. /\ \A p \in fposts' : p = r \/ (p \in fposts /\ p.mount # q.mount)
      /\ fd' = None \/ (fd # None /\ fd' = IF fd.mount = q.mount THEN Stored(fd, n) ELSE fd)
  <2>1. \A p \in fposts : p # q => p.mount # q.mount
    BY DEF FormInv, OneRequestPerDialog
  <2> QED
    BY <2>1 DEF PersistAnswers, FormShown
<1> HIDE DEF n, r, m
<1>5. \A p \in fposts' : p.kind = "channel" => ChannelPost(p)'
  BY <1>1, <1>2, <1>3, <1>4 DEF ChannelInv, ChannelPost, m
<1>6. ASSUME fd' # None, fd'.kind = "channel" PROVE ChannelForm(fd)'
  <2>1. fd # None /\ IsFormDialog(fd)
    BY <1>4, <1>6 DEF FormInv
  <2>2. CASE fd.mount = q.mount
    <3>1. fd' = Stored(fd, n)
      BY <1>4, <1>6, <2>2
    <3>2. fd'.kind = fd.kind /\ fd'.mount = fd.mount /\ fd'.val = fd.val /\ fd'.saved = n /\ fd'.dirty = FALSE /\ fd'.raced = fd.raced
      BY <2>1, <3>1 DEF Stored, IsFormDialog
    <3>3. ChannelForm(fd) /\ ChannelGoes(fd, q)
      BY <1>1, <1>6, <2>1, <3>2 DEF ChannelInv, ChannelForm
    <3>4. \A p \in fposts' : p.kind = "channel" /\ p.op # "send" => ChannelGoes(fd', p)
      <4> SUFFICES ASSUME NEW p \in fposts', p.kind = "channel", p.op = "patch", p.mount # fd.mount PROVE p.of # n
        BY <1>3, <1>4, <2>2, <3>2 DEF ChannelGoes
      <4>1. p \in fposts /\ ChannelPost(p) /\ ChannelGoes(fd, p)
        BY <1>3, <1>4, <3>3 DEF ChannelInv, ChannelForm
      <4>2. p.of \in 1..m /\ p.of # fd.saved
        BY <4>1 DEF ChannelPost, ChannelGoes, m
      <4>3. q.op = "patch" => n = fd.saved
        BY <1>2, <2>2, <3>3 DEF ChannelGoes
      <4> QED
        BY <1>1, <1>2, <4>2, <4>3 DEF ChannelPost
    <3> QED
      BY <1>2, <2>2, <3>2, <3>3, <3>4 DEF ChannelForm, ChannelGoes
  <2>3. CASE fd.mount # q.mount
    <3>1. fd' = fd /\ ChannelForm(fd) /\ ChannelGoes(fd, q)
      BY <1>1, <1>4, <1>6, <2>3 DEF ChannelInv, ChannelForm
    <3>2. fd.saved \in 0..m /\ fd.saved # n
      BY <1>1, <1>2, <2>3, <3>1 DEF ChannelForm, ChannelGoes, ChannelPost, m
    <3>3. fd.saved # 0 => channels'[fd.saved] = channels[fd.saved]
      BY <1>1, <1>2, <3>2
    <3>4. \A p \in fposts' : p.kind = "channel" /\ p.op # "send" => ChannelGoes(fd, p)
      BY <1>3, <1>4, <3>1 DEF ChannelForm
    <3> QED
      BY <1>1, <1>2, <3>1, <3>2, <3>3, <3>4 DEF ChannelForm, m
  <2> QED
    BY <2>2, <2>3
<1> QED
  BY <1>2, <1>5, <1>6 DEF ChannelInv

(* No step of a form dialog or of its requests breaks it.                  *)
LEMMA ChannelStays == ASSUME FormInv, ChannelInv, FormStep \/ UNCHANGED formVars PROVE ChannelInv'
<1>i. fd # None => IsFormDialog(fd)
  BY DEF FormInv
<1>d. ASSUME UNCHANGED channels, fposts' \subseteq fposts, fd' # None => (fd'.kind = "channel" => fd # None /\ SameForm(fd', fd)) PROVE ChannelInv'
  BY <1>d, ChannelRests
<1>1. CASE UNCHANGED formVars
  BY <1>d, <1>1 DEF formVars, SameForm
<1>2. ASSUME NEW k, OpenForm(k) PROVE ChannelInv'
  <2> DEFINE d == [kind |-> k, mount |-> fmounts', busy |-> "no", val |-> None,
              host |-> IF k = "monitor" /\ listed # {} THEN CHOOSE h \in listed : TRUE ELSE None,
              step |-> 0, saved |-> 0, dirty |-> k = "channel", sel |-> IF k = "key" THEN listed ELSE {},
              raced |-> FALSE, relisted |-> FALSE]
  <2>1. fd' = d /\ fmounts' = fmounts + 1 /\ UNCHANGED <<fposts, channels>>
    BY <1>2 DEF OpenForm
  <2>2. d.kind = k /\ d.mount = fmounts + 1 /\ d.val = None /\ d.saved = 0 /\ d.dirty = (k = "channel")
    BY <2>1
  <2>3. \A q \in fposts : q.mount # fmounts + 1
    BY DEF FormInv
  <2> HIDE DEF d
  <2>4. ASSUME k = "channel" PROVE ChannelForm(fd)'
    <3>1. \A q \in fposts : q.kind = "channel" => ChannelGoes(d, q)
      BY <2>2, <2>3, <2>4 DEF ChannelInv, ChannelPost, ChannelGoes
    <3>2. Len(channels) \in Nat
      BY DEF ChannelInv
    <3>3. 0 \in 0..Len(channels)
      BY <3>2
    <3> QED
      BY <2>1, <2>2, <2>4, <3>1, <3>3 DEF ChannelForm
  <2> QED
    BY <2>1, <2>2, <2>4 DEF ChannelInv, ChannelPost
<1>3. ASSUME NEW x \in Vals \cup {None}, SetConfig(x) PROVE ChannelInv'
  <2>1. /\ fd # None /\ fd.kind = "channel" /\ UNCHANGED <<fposts, channels>>
        /\ fd' = [fd EXCEPT !.val = x, !.dirty = TRUE, !.raced = @ \/ fd.busy # "no"]
    BY <1>3 DEF SetConfig
  <2>2. fd'.kind = "channel" /\ fd'.mount = fd.mount /\ fd'.val = x /\ fd'.saved = fd.saved /\ fd'.dirty = TRUE /\ fd'.raced = (fd.raced \/ fd.busy # "no")
    BY <1>i, <2>1 DEF IsFormDialog
  <2>3. ~fd'.raced => \A q \in fposts : q.mount # fd.mount
    BY <2>1, <2>2 DEF FormInv
  <2>4. ChannelForm(fd)
    BY <2>1 DEF ChannelInv
  <2>5. ChannelForm(fd)'
    BY <2>1, <2>2, <2>3, <2>4 DEF ChannelForm, ChannelGoes
  <2> QED
    BY <2>1, <2>5 DEF ChannelInv, ChannelPost
<1>4. ASSUME NEW x, NameNetwork(x) \/ PickMonitorHost(x) \/ ToggleHost(x) PROVE ChannelInv'
  <2>1. /\ fd # None /\ fd.kind # "channel" /\ UNCHANGED <<fposts, channels>>
        /\ fd' = [fd EXCEPT !.val = x] \/ fd' = [fd EXCEPT !.host = x, !.val = Chosen(@, x, holder)]
             \/ fd' = [fd EXCEPT !.sel = IF x \in @ THEN @ \ {x} ELSE @ \cup {x}]
    BY <1>4 DEF NameNetwork, PickMonitorHost, ToggleHost
  <2>2. fd'.kind = fd.kind
    BY <1>i, <2>1 DEF IsFormDialog
  <2> QED
    BY <1>d, <2>1, <2>2
<1>5. ASSUME NEW h, ContainersChange(h) PROVE ChannelInv'
  <2>1. /\ UNCHANGED <<fposts, channels>>
        /\ fd' = fd \/ (fd # None /\ fd.kind = "monitor" /\ fd' = [fd EXCEPT !.val = Chosen(@, fd.host, h)])
    BY <1>5 DEF ContainersChange
  <2>2. fd' = fd \/ fd'.kind = "monitor"
    BY <1>i, <2>1 DEF IsFormDialog
  <2> QED
    BY <1>d, <2>1, <2>2 DEF SameForm
<1>6. ASSUME NEW S, HostsRelisted(S) PROVE ChannelInv'
  <2>1. UNCHANGED <<fposts, channels>> /\ (fd' = fd \/ (fd # None /\ fd' = [fd EXCEPT !.relisted = TRUE]))
    BY <1>6 DEF HostsRelisted
  <2>2. fd' # None => fd # None /\ SameForm(fd', fd)
    BY <1>i, <2>1 DEF IsFormDialog, SameForm
  <2> QED
    BY <1>d, <2>1, <2>2
<1>7. CASE CloseForm \/ SaveClean
  BY <1>d, <1>7 DEF CloseForm, SaveClean
<1>8. CASE PickContainer \/ KeyStep
  <2>1. /\ fd # None /\ fd.kind # "channel" /\ UNCHANGED <<fposts, channels>>
        /\ fd' = [fd EXCEPT !.val = "container"] \/ fd' = [fd EXCEPT !.step = 1 - @]
    BY <1>8 DEF PickContainer, KeyStep
  <2>2. fd'.kind = fd.kind
    BY <1>i, <2>1 DEF IsFormDialog
  <2> QED
    BY <1>d, <2>1, <2>2
<1>9. CASE SaveForm \/ CreateKey \/ \E t \in {"save", "test"} : Persist(t)
  BY <1>i, <1>9, ChannelAsks DEF SaveForm, CreateKey, Persist
<1>10. ASSUME NEW q \in fposts, FormFails(q) \/ SendAnswers(q) \/ FormSaves(q) \/ KeyAnswers(q) PROVE ChannelInv'
  <2>1. /\ fposts' \subseteq fposts /\ UNCHANGED channels
        /\ fd' = fd \/ fd' = None \/ (fd # None /\ (fd' = [fd EXCEPT !.busy = "no"] \/ fd' = [fd EXCEPT !.busy = "no", !.step = 2]))
    BY <1>10 DEF SendAnswers, FormFails, FormSaves, KeyAnswers, FormShown
  <2>2. fd' # None => fd # None /\ SameForm(fd', fd)
    BY <1>i, <2>1 DEF IsFormDialog, SameForm
  <2> QED
    BY <1>d, <2>1, <2>2
<1>11. ASSUME NEW q \in fposts, PersistAnswers(q) PROVE ChannelInv'
  BY <1>11, ChannelWritten
<1> QED
  BY <1>1, <1>2, <1>3, <1>4, <1>5, <1>6, <1>7, <1>8, <1>9, <1>10, <1>11 DEF FormStep

-----------------------------------------------------------------------------
(* The pages that watch a list.  What was fetched is a list of the server. *)
WFetched == [list : WList, ver : Nat]
OpTyped(o) ==
    /\ IsOp(o) /\ o.kind \in {"read", "enable", "hide", "rename", "check"}
    /\ o.kind \in {"read", "enable"} => o.val \in BOOLEAN
    /\ o.kind = "rename" => o.val \in Labels
SameOp(o, p) == IsOp(o) /\ o.kind = p.kind /\ o.rows = p.rows /\ o.val = p.val /\ o.ver = p.ver
WatchTyped ==
    /\ wrows \in WList /\ wshown.list \in WList /\ wview \in WViews
    /\ DOMAIN wcache = WViews /\ DOMAIN wfetch = WViews
    /\ \A u \in WViews : (wcache[u] # None => wcache[u] \in WFetched) /\ (wfetch[u].st = "read" => wfetch[u].got \in WFetched)
    /\ wren # None => DOMAIN wren = {"row", "name", "busy", "nr"} /\ wren.name \in Labels
    /\ \A o \in wops : OpTyped(o)

(* The cards that go take no request along.                                *)
LEMMA CardsKeepOps ==
    ASSUME NEW rows, NEW issues, \A o \in wops : IsOp(o), ShowsCards(rows, issues)
    PROVE  (wren' = None \/ wren' = wren) /\ (\A p \in wops' : \E o \in wops : SameOp(p, o)) /\ (\A o \in wops : \E p \in wops' : SameOp(p, o))
<1> DEFINE k(o) == [o EXCEPT !.card = @ /\ o.rows \subseteq Cards(rows, issues)]
<1>1. wops' = {k(o) : o \in wops}
  BY DEF ShowsCards
<1>2. \A o \in wops : SameOp(k(o), o)
  BY DEF IsOp, SameOp
<1>3. wren' = None \/ wren' = wren
  BY DEF ShowsCards
<1> HIDE DEF k
<1> QED
  BY <1>1, <1>2, <1>3

(* What the server lists and changes are rows.                             *)
LEMMA RowsTyped ==
    ASSUME wrows \in WList
    PROVE  /\ \A u \in WViews : ListFor(u) \in WList
           /\ \A r \in Watched : \A o : OpTyped(o) => Changed(wrows[r], o) \in WRow
           /\ \A r \in Watched : \A x \in ByOthers(wrows[r]) : x \in WRow
<1>1. \A r \in Watched : wrows[r] \in WRow
  BY DEF WList
<1>2. ASSUME NEW row \in WRow PROVE [row EXCEPT !.there = @ /\ ~row.flag] \in WRow
  BY DEF WRow
<1>3. ASSUME NEW row \in WRow, NEW o, OpTyped(o) PROVE Changed(row, o) \in WRow
  BY <1>3 DEF WRow, OpTyped, Changed
<1>4. ASSUME NEW row \in WRow, NEW x \in ByOthers(row) PROVE x \in WRow
  BY DEF WRow, ByOthers
<1>5. \A u \in WViews : ListFor(u) \in WList
  BY <1>1, <1>2 DEF ListFor, WList
<1> QED
  BY <1>1, <1>3, <1>4, <1>5

(* No step of the two pages breaks it.                                     *)
LEMMA WatchTypedStays == ASSUME WatchTyped, wver \in Nat, WatchStep \/ UNCHANGED watchVars PROVE WatchTyped'
<1>o. \A o \in wops : IsOp(o)
  BY DEF WatchTyped, OpTyped
<1>s. ASSUME NEW o, NEW p, SameOp(p, o), OpTyped(o) PROVE OpTyped(p)
  BY <1>s DEF SameOp, OpTyped
<1>d. ASSUME wrows' \in WList, wshown'.list \in WList, wview' \in WViews, DOMAIN wcache' = WViews, DOMAIN wfetch' = WViews,
             \A u \in WViews : (wcache[u]' # None => wcache[u]' \in WFetched) /\ (wfetch[u].st' = "read" => wfetch[u].got' \in WFetched),
             wren' = None \/ wren' = wren, \A p \in wops' : OpTyped(p) \/ \E o \in wops : SameOp(p, o) PROVE WatchTyped'
  BY <1>d, <1>s DEF WatchTyped
<1>e. ASSUME UNCHANGED <<wrows, wshown, wview, wcache, wfetch>>, wren' = None \/ wren' = wren,
             \A p \in wops' : OpTyped(p) \/ \E o \in wops : SameOp(p, o) PROVE WatchTyped'
  BY <1>d, <1>e DEF WatchTyped
<1>1. CASE UNCHANGED watchVars
  BY <1>1 DEF watchVars, WatchTyped, OpTyped
<1>2. ASSUME NEW u \in WViews, ChooseView(u) PROVE WatchTyped'
  <2>1. /\ wview' = u /\ UNCHANGED <<wrows, wcache>> /\ ShowsCards(wshown'.list, wissues)
        /\ wfetch' = IF wfetch[u].st = "none" THEN [wfetch EXCEPT ![u] = AskedNow] ELSE wfetch
        /\ wshown' = IF wcache[u] # None THEN [view |-> u, list |-> wcache[u].list] ELSE wshown
    BY <1>2 DEF ChooseView
  <2>2. wshown'.list \in WList
    BY <2>1 DEF WatchTyped, WFetched
  <2>3. DOMAIN wfetch' = WViews /\ \A w \in WViews : wfetch'[w].st = "read" => wfetch'[w] = wfetch[w]
    BY <2>1 DEF WatchTyped, AskedNow
  <2>4. (wren' = None \/ wren' = wren) /\ \A p \in wops' : \E o \in wops : SameOp(p, o)
    BY <1>o, <2>1, CardsKeepOps
  <2>5. \A w \in WViews : (wcache[w]' # None => wcache[w]' \in WFetched) /\ (wfetch[w].st' = "read" => wfetch[w].got' \in WFetched)
    BY <2>1, <2>3 DEF WatchTyped
  <2> QED
    BY <1>d, <2>1, <2>2, <2>3, <2>4, <2>5 DEF WatchTyped
<1>3. CASE ChooseIssues
  <2>1. UNCHANGED <<wrows, wshown, wview, wcache, wfetch>> /\ ShowsCards(wshown.list, wissues')
    BY <1>3 DEF ChooseIssues
  <2>2. (wren' = None \/ wren' = wren) /\ \A p \in wops' : \E o \in wops : SameOp(p, o)
    BY <1>o, <2>1, CardsKeepOps
  <2> QED
    BY <1>e, <2>1, <2>2
<1>f. ASSUME NEW u \in WViews, NEW f, wfetch' = [wfetch EXCEPT ![u] = f], f.st = "read" => f.got \in WFetched,
             UNCHANGED <<wrows, wcache, wshown, wview, wren, wops>> PROVE WatchTyped'
  BY <1>f DEF WatchTyped, OpTyped
<1>4. ASSUME NEW u \in WViews, PollView(u) \/ ViewAged(u) PROVE WatchTyped'
  <2>1. AskedNow.st # "read" /\ NoneAsked.st # "read"
    BY DEF AskedNow, NoneAsked
  <2> QED
    BY <1>f, <1>4, <2>1 DEF PollView, ViewAged
<1>5. ASSUME NEW u \in WViews, ViewRead(u) PROVE WatchTyped'
  <2> DEFINE g == [list |-> ListFor(u), ver |-> wver]
             f == [st |-> "read", got |-> g]
  <2>1. g \in WFetched
    BY RowsTyped DEF WatchTyped, WFetched
  <2>2. f.got = g
    OBVIOUS
  <2>3. wfetch' = [wfetch EXCEPT ![u] = f] /\ UNCHANGED <<wrows, wcache, wshown, wview, wren, wops>>
    BY <1>5 DEF ViewRead
  <2> HIDE DEF g, f
  <2> QED
    BY <1>f, <2>1, <2>2, <2>3
<1>6. ASSUME NEW u \in WViews, ViewShown(u) PROVE WatchTyped'
  <2> DEFINE g == wfetch[u].got
             f == [st |-> "recent", got |-> None]
  <2>1. /\ wcache' = [wcache EXCEPT ![u] = g] /\ wfetch' = [wfetch EXCEPT ![u] = f] /\ UNCHANGED <<wrows, wview>>
        /\ wshown' = (IF u = wview THEN [view |-> u, list |-> g.list] ELSE wshown) /\ ShowsCards(wshown'.list, wissues)
    BY <1>6 DEF ViewShown
  <2>2. g \in WFetched /\ g.list \in WList
    BY <1>6 DEF ViewShown, WatchTyped, WFetched
  <2>3. f.st # "read"
    OBVIOUS
  <2> HIDE DEF g, f
  <2>4. wshown'.list \in WList
    BY <2>1, <2>2 DEF WatchTyped
  <2>5. DOMAIN wcache' = WViews /\ DOMAIN wfetch' = WViews
    BY <2>1 DEF WatchTyped
  <2>6. \A w \in WViews : (wcache[w]' # None => wcache[w]' \in WFetched) /\ (wfetch[w].st' = "read" => wfetch[w].got' \in WFetched)
    BY <2>1, <2>2, <2>3 DEF WatchTyped
  <2>7. (wren' = None \/ wren' = wren) /\ \A p \in wops' : \E o \in wops : SameOp(p, o)
    BY <1>o, <2>1, CardsKeepOps
  <2> QED
    BY <1>d, <2>1, <2>4, <2>5, <2>6, <2>7 DEF WatchTyped
<1>g. ASSUME NEW kind \in {"read", "enable", "hide", "rename", "check"}, NEW S, NEW x, NEW nr, Send(kind, S, x, nr),
             kind \in {"read", "enable"} => x \in BOOLEAN, kind = "rename" => x \in Labels
      PROVE \A p \in wops' : OpTyped(p)
  <2> DEFINE o == [kind |-> kind, rows |-> S, val |-> x, ver |-> None, card |-> TRUE, nr |-> nr]
  <2>1. OpTyped(o)
    BY <1>g DEF OpTyped, IsOp
  <2>2. wops' = wops \cup {o}
    BY <1>g DEF Send
  <2> QED
    BY <2>1, <2>2 DEF WatchTyped
<1>7. ASSUME NEW kind \in {"read", "enable", "hide", "check"}, NEW S, NEW x \in BOOLEAN, ActOn(kind, S, x) PROVE WatchTyped'
  <2>1. \A p \in wops' : OpTyped(p)
    BY <1>g, <1>7 DEF ActOn
  <2> QED
    BY <1>e, <1>7, <2>1 DEF ActOn
<1>8. CASE MarkAllRead \/ \E r \in Watched : MarkRead(r) \/ SnoozeAlert(r) \/ CheckNow(r) \/ SetEnabled(r)
  BY <1>7, <1>8 DEF MarkAllRead, MarkRead, SnoozeAlert, CheckNow, SetEnabled
<1>9. ASSUME NEW r, AskRemoval(r) \/ AnswerRemoval(r) PROVE WatchTyped'
  <2>1. CASE UNCHANGED wops
    BY <1>9, <2>1 DEF AskRemoval, AnswerRemoval, WatchTyped, OpTyped
  <2>2. CASE Send("hide", {wask}, TRUE, moves)
    <3>1. \A p \in wops' : OpTyped(p)
      BY <1>g, <2>2
    <3> QED
      BY <1>9, <3>1 DEF AskRemoval, AnswerRemoval, WatchTyped, OpTyped
  <2> QED
    BY <1>9, <2>1, <2>2 DEF AskRemoval, AnswerRemoval
<1>10. ASSUME NEW r \in Watched, OpenRename(r) PROVE WatchTyped'
  <2>1. wren' = [row |-> r, name |-> wshown.list[r].name, busy |-> FALSE, nr |-> moves'] /\ UNCHANGED <<renameOnly, wops>>
    BY <1>10 DEF OpenRename
  <2>2. wshown.list[r].name \in Labels
    BY DEF WatchTyped, WList, WRow
  <2>3. DOMAIN wren' = {"row", "name", "busy", "nr"} /\ wren'.name \in Labels
    BY <2>1, <2>2
  <2> QED
    BY <2>1, <2>3 DEF renameOnly, WatchTyped, OpTyped
<1>11. ASSUME NEW x \in Labels, TypeName(x) PROVE WatchTyped'
  BY <1>11 DEF TypeName, renameOnly, WatchTyped, OpTyped
<1>12. CASE SaveName
  <2>1. CASE wren.name = wshown.list[wren.row].name
    BY <1>12, <2>1 DEF SaveName, renameOnly, WatchTyped, OpTyped
  <2>2. CASE wren.name # wshown.list[wren.row].name
    <3>1. wren # None /\ wren' = [wren EXCEPT !.busy = TRUE] /\ Send("rename", {wren.row}, wren.name, wren.nr) /\ UNCHANGED renameOnly
      BY <1>12, <2>2 DEF SaveName
    <3>2. DOMAIN wren' = {"row", "name", "busy", "nr"} /\ wren'.name \in Labels /\ wren.name \in Labels
      BY <3>1 DEF WatchTyped
    <3>3. \A p \in wops' : OpTyped(p)
      BY <1>g, <3>1, <3>2
    <3> QED
      BY <3>1, <3>2, <3>3 DEF renameOnly, WatchTyped
  <2> QED
    BY <2>1, <2>2
<1>13. CASE CancelRename
  BY <1>13 DEF CancelRename, renameOnly, WatchTyped, OpTyped
<1>14. ASSUME NEW o \in wops, OpApplied(o) PROVE WatchTyped'
  <2> DEFINE p == [o EXCEPT !.ver = wver']
             W == [r \in Watched |-> IF r \in o.rows THEN Changed(wrows[r], o) ELSE wrows[r]]
  <2>1. OpTyped(o) /\ OpTyped(p)
    BY DEF WatchTyped, OpTyped, IsOp
  <2>2. wops' = (wops \ {o}) \cup {p} /\ wrows' = W /\ UNCHANGED <<wshown, wview, wcache, wfetch, wren>>
    BY <1>14 DEF OpApplied
  <2>3. W \in WList
    BY <2>1, RowsTyped DEF WatchTyped, WList
  <2> HIDE DEF p, W
  <2>4. \A q \in wops' : OpTyped(q)
    BY <2>1, <2>2 DEF WatchTyped
  <2> QED
    BY <1>d, <2>2, <2>3, <2>4 DEF WatchTyped
<1>15. ASSUME NEW o \in wops, OpAnswered(o) PROVE WatchTyped'
  <2>1. wops' \subseteq wops /\ (wren' = None \/ wren' = wren) /\ wfetch' = Invalidated /\ UNCHANGED <<wrows, wshown, wview, wcache>>
    BY <1>15 DEF OpAnswered
  <2>2. DOMAIN Invalidated = WViews /\ \A u \in WViews : Invalidated[u].st # "read"
    BY DEF Invalidated, AskedNow, NoneAsked
  <2>3. \A u \in WViews : (wcache[u]' # None => wcache[u]' \in WFetched) /\ (wfetch[u].st' = "read" => wfetch[u].got' \in WFetched)
    BY <2>1, <2>2 DEF WatchTyped
  <2>4. \A p \in wops' : OpTyped(p)
    BY <2>1 DEF WatchTyped
  <2> QED
    BY <1>d, <2>1, <2>2, <2>3, <2>4 DEF WatchTyped
<1>16. ASSUME NEW o \in wops, OpFails(o) PROVE WatchTyped'
  <2>1. wops' \subseteq wops /\ UNCHANGED <<wrows, wshown, wview, wcache, wfetch>> /\ (wren' = wren \/ (wren # None /\ wren' = [wren EXCEPT !.busy = FALSE]))
    BY <1>16 DEF OpFails
  <2>2. wren' # None => DOMAIN wren' = {"row", "name", "busy", "nr"} /\ wren'.name \in Labels
    BY <2>1 DEF WatchTyped
  <2> QED
    BY <2>1, <2>2 DEF WatchTyped
<1>17. ASSUME NEW r \in Watched, NEW x \in ByOthers(wrows[r]), RowChanges(r, x) PROVE WatchTyped'
  <2>1. wrows' = [wrows EXCEPT ![r] = x] /\ UNCHANGED <<wshown, wview, wcache, wfetch, wren, wops>>
    BY <1>17 DEF RowChanges
  <2>2. wrows' \in WList
    BY <2>1, RowsTyped DEF WatchTyped, WList
  <2> QED
    BY <2>1, <2>2 DEF WatchTyped, OpTyped
<1> QED
  BY <1>1, <1>2, <1>3, <1>4, <1>5, <1>6, <1>8, <1>9, <1>10, <1>11, <1>12, <1>13, <1>14, <1>15, <1>16, <1>17 DEF WatchStep

-----------------------------------------------------------------------------
(* A list that was just fetched, or is on screen without a fetch on its    *)
(* way, has every change that was told; so has an answer that is on its    *)
(* way.                                                                    *)
UpToDate(u) == wcache[u] # None /\ wcache[u].ver >= wdone
ViewInv(u) ==
    /\ wfetch[u].st = "recent" => UpToDate(u)
    /\ wfetch[u].st = "read" => wfetch[u].got.ver >= wdone
    /\ wfetch[u].st = "none" /\ u \in OnScreen => UpToDate(u)
ToldInOrder == wver \in Nat /\ wdone \in Nat /\ wdone <= wver /\ \A o \in wops : o.ver # None => o.ver \in Nat /\ o.ver <= wver
TellsInv == ToldInOrder /\ \A u \in WViews : ViewInv(u)

(* No step of the two pages breaks it.                                     *)
LEMMA TellsStay == ASSUME WatchTyped, TellsInv, WatchStep \/ UNCHANGED watchVars PROVE TellsInv'
<1>o. \A o \in wops : IsOp(o)
  BY DEF WatchTyped, OpTyped
<1>n. wver \in Nat /\ wdone \in Nat /\ wdone <= wver
  BY DEF TellsInv, ToldInOrder
<1>t. ASSUME UNCHANGED <<wver, wdone>>, \A p \in wops' : p.ver = None \/ \E o \in wops : p.ver = o.ver PROVE ToldInOrder'
  BY <1>t DEF TellsInv, ToldInOrder
<1>c. ASSUME NEW rows, NEW issues, ShowsCards(rows, issues), UNCHANGED <<wver, wdone>> PROVE ToldInOrder'
  BY <1>c, <1>o, <1>t, CardsKeepOps DEF SameOp
<1>v. ASSUME UNCHANGED <<wkind, wview, wcache, wfetch, wdone>> PROVE \A u \in WViews : ViewInv(u)'
  BY <1>v DEF TellsInv, ViewInv, UpToDate, OnScreen
<1>e. ASSUME UNCHANGED <<wkind, wver, wdone, wview, wcache, wfetch>>, \A p \in wops' : p.ver = None \/ \E o \in wops : p.ver = o.ver PROVE TellsInv'
  BY <1>e, <1>t, <1>v DEF TellsInv
<1>1. CASE UNCHANGED watchVars
  BY <1>e, <1>1 DEF watchVars
<1>2. ASSUME NEW u \in WViews, ChooseView(u) PROVE TellsInv'
  <2>1. /\ wview' = u /\ UNCHANGED <<wkind, wcache, wdone, wver>> /\ ShowsCards(wshown'.list, wissues)
        /\ wfetch' = IF wfetch[u].st = "none" THEN [wfetch EXCEPT ![u] = AskedNow] ELSE wfetch
    BY <1>2 DEF ChooseView
  <2>2. ToldInOrder'
    BY <1>c, <2>1
  <2>3. \A w \in WViews : wfetch'[w] = wfetch[w] \/ wfetch'[w].st = "asked"
    BY <2>1 DEF WatchTyped, AskedNow
  <2>4. wfetch'[u].st # "none"
    BY <2>1 DEF WatchTyped, AskedNow
  <2>5. OnScreen' \subseteq OnScreen \cup {u}
    BY <2>1 DEF OnScreen
  <2>6. \A w \in WViews : ViewInv(w)'
    BY <2>1, <2>3, <2>4, <2>5 DEF TellsInv, ViewInv, UpToDate
  <2> QED
    BY <2>2, <2>6 DEF TellsInv
<1>3. CASE ChooseIssues
  <2>1. UNCHANGED <<wkind, wver, wdone, wview, wcache, wfetch>> /\ ShowsCards(wshown.list, wissues')
    BY <1>3 DEF ChooseIssues
  <2> QED
    BY <1>c, <1>v, <2>1 DEF TellsInv
<1>f. ASSUME NEW u \in WViews, NEW f, wfetch' = [wfetch EXCEPT ![u] = f], UNCHANGED <<wkind, wver, wdone, wview, wcache, wops>>,
             f.st = "asked" \/ (f.st = "none" /\ UpToDate(u)) \/ (f.st = "read" /\ f.got.ver >= wdone) PROVE TellsInv'
  <2>1. wfetch'[u] = f /\ \A w \in WViews : w # u => wfetch'[w] = wfetch[w]
    BY <1>f DEF WatchTyped
  <2>2. \A w \in WViews : ViewInv(w)'
    BY <1>f, <2>1 DEF TellsInv, ViewInv, UpToDate, OnScreen
  <2> QED
    BY <1>f, <1>t, <2>2 DEF TellsInv
<1>4. ASSUME NEW u \in WViews, PollView(u) PROVE TellsInv'
  <2>1. AskedNow.st = "asked"
    BY DEF AskedNow
  <2> QED
    BY <1>f, <1>4, <2>1 DEF PollView
<1>5. ASSUME NEW u \in WViews, ViewAged(u) PROVE TellsInv'
  <2>1. NoneAsked.st = "none"
    BY DEF NoneAsked
  <2>2. UpToDate(u)
    BY <1>5 DEF ViewAged, TellsInv, ViewInv
  <2> QED
    BY <1>f, <1>5, <2>1, <2>2 DEF ViewAged
<1>6. ASSUME NEW u \in WViews, ViewRead(u) PROVE TellsInv'
  <2> DEFINE f == [st |-> "read", got |-> [list |-> ListFor(u), ver |-> wver]]
  <2>1. f.st = "read" /\ f.got.ver = wver
    OBVIOUS
  <2>2. wfetch' = [wfetch EXCEPT ![u] = f] /\ UNCHANGED <<wkind, wver, wdone, wview, wcache, wops>>
    BY <1>6 DEF ViewRead
  <2> HIDE DEF f
  <2> QED
    BY <1>f, <1>n, <2>1, <2>2
<1>7. ASSUME NEW u \in WViews, ViewShown(u) PROVE TellsInv'
  <2> DEFINE g == wfetch[u].got
             f == [st |-> "recent", got |-> None]
  <2>1. /\ wcache' = [wcache EXCEPT ![u] = g] /\ wfetch' = [wfetch EXCEPT ![u] = f]
        /\ UNCHANGED <<wkind, wview, wdone, wver>> /\ ShowsCards(wshown'.list, wissues)
    BY <1>7 DEF ViewShown
  <2>2. g \in WFetched /\ g.ver >= wdone
    BY <1>7 DEF ViewShown, WatchTyped, TellsInv, ViewInv
  <2>3. g # None
    BY <2>2, WatchConstants DEF WFetched, WList, WRow
  <2>4. f.st = "recent"
    OBVIOUS
  <2> HIDE DEF f, g
  <2>5. wcache'[u] = g /\ wfetch'[u].st = "recent" /\ \A w \in WViews : w # u => wcache'[w] = wcache[w] /\ wfetch'[w] = wfetch[w]
    BY <2>1, <2>4 DEF WatchTyped
  <2>6. \A w \in WViews : ViewInv(w)'
    BY <2>1, <2>2, <2>3, <2>5 DEF TellsInv, ViewInv, UpToDate, OnScreen
  <2>7. ToldInOrder'
    BY <1>c, <2>1
  <2> QED
    BY <2>6, <2>7 DEF TellsInv
<1>s. ASSUME NEW kind, NEW S, NEW x, NEW nr, Send(kind, S, x, nr) PROVE \A p \in wops' : p.ver = None \/ \E o \in wops : p.ver = o.ver
  BY <1>s DEF Send
<1>8. ASSUME NEW kind, NEW S, NEW x, ActOn(kind, S, x) PROVE TellsInv'
  BY <1>e, <1>s, <1>8 DEF ActOn
<1>9. CASE MarkAllRead \/ \E r \in Watched : MarkRead(r) \/ SnoozeAlert(r) \/ CheckNow(r) \/ SetEnabled(r)
  BY <1>8, <1>9 DEF MarkAllRead, MarkRead, SnoozeAlert, CheckNow, SetEnabled
<1>10. ASSUME NEW r, AskRemoval(r) \/ AnswerRemoval(r) PROVE TellsInv'
  <2>1. \A p \in wops' : p.ver = None \/ \E o \in wops : p.ver = o.ver
    BY <1>s, <1>10 DEF AskRemoval, AnswerRemoval
  <2> QED
    BY <1>e, <1>10, <2>1 DEF AskRemoval, AnswerRemoval
<1>11. ASSUME NEW r, OpenRename(r) \/ TypeName(r) PROVE TellsInv'
  BY <1>e, <1>11 DEF OpenRename, TypeName, renameOnly
<1>12. CASE SaveName \/ CancelRename
  <2>1. \A p \in wops' : p.ver = None \/ \E o \in wops : p.ver = o.ver
    BY <1>s, <1>12 DEF SaveName, CancelRename
  <2> QED
    BY <1>e, <1>12, <2>1 DEF SaveName, CancelRename, renameOnly
<1>13. ASSUME NEW o \in wops, OpApplied(o) PROVE TellsInv'
  <2> DEFINE p == [o EXCEPT !.ver = wver']
  <2>1. wops' = (wops \ {o}) \cup {p} /\ wver' = wver + 1 /\ UNCHANGED <<wkind, wview, wcache, wfetch, wdone>>
    BY <1>13 DEF OpApplied
  <2>2. p.ver = wver'
    BY <1>o DEF IsOp
  <2> HIDE DEF p
  <2>3. ToldInOrder'
    BY <2>1, <2>2 DEF TellsInv, ToldInOrder
  <2> QED
    BY <1>v, <2>1, <2>3 DEF TellsInv
<1>14. ASSUME NEW o \in wops, OpAnswered(o) PROVE TellsInv'
  <2>1. /\ wops' = wops \ {o} /\ wdone' = (IF o.ver > wdone THEN o.ver ELSE wdone) /\ wfetch' = Invalidated
        /\ o.ver # None /\ UNCHANGED <<wkind, wver, wview, wcache>>
    BY <1>14 DEF OpAnswered
  <2>2. ToldInOrder'
    BY <2>1 DEF TellsInv, ToldInOrder
  <2>3. \A u \in WViews : Invalidated[u].st = IF u \in OnScreen THEN "asked" ELSE "none"
    BY DEF Invalidated, AskedNow, NoneAsked
  <2>4. OnScreen' = OnScreen
    BY <2>1 DEF OnScreen
  <2>5. \A u \in WViews : ViewInv(u)'
    BY <2>1, <2>3, <2>4 DEF ViewInv
  <2> QED
    BY <2>2, <2>5 DEF TellsInv
<1>15. ASSUME NEW o \in wops, OpFails(o) PROVE TellsInv'
  BY <1>e, <1>15 DEF OpFails
<1>16. ASSUME NEW r, NEW x, RowChanges(r, x) PROVE TellsInv'
  <2>1. wver' = wver + 1 /\ UNCHANGED <<wkind, wview, wcache, wfetch, wdone, wops>>
    BY <1>16 DEF RowChanges
  <2>2. ToldInOrder'
    BY <2>1 DEF TellsInv, ToldInOrder
  <2> QED
    BY <1>v, <2>1, <2>2 DEF TellsInv
<1> QED
  BY <1>1, <1>2, <1>3, <1>4, <1>5, <1>6, <1>7, <1>9, <1>10, <1>11, <1>12, <1>13, <1>14, <1>15, <1>16 DEF WatchStep

-----------------------------------------------------------------------------
(* A monitor is as its user asked last, or the request is still to be      *)
(* carried out; no other one is on its way.                                *)
Pauses(o, r) == o.kind = "enable" /\ r \in o.rows
Pending(r) == \E o \in wops : Pauses(o, r) /\ o.ver = None
PauseInv ==
    /\ DOMAIN wlast = Watched /\ \A o \in wops : o.kind = "read" => wkind = "alerts"
    /\ \A r \in Watched : wlast[r] # None =>
         /\ wkind = "uptime" /\ \A o \in wops : Pauses(o, r) => o.val = wlast[r]
         /\ wrows[r].flag = wlast[r] \/ Pending(r)

(* Requests that stay what they are leave it.                              *)
LEMMA PauseRests ==
    ASSUME PauseInv, UNCHANGED <<wkind, wrows>>, DOMAIN wlast' = Watched, \A r \in Watched : wlast'[r] \in {wlast[r], None},
           \A p \in wops' : p.kind \notin {"read", "enable"} \/ (p.kind = "read" /\ wkind = "alerts") \/ \E o \in wops : p.kind = o.kind /\ p.rows = o.rows /\ p.val = o.val,
           \A r \in Watched : wlast'[r] # None => (Pending(r) => Pending(r)')
    PROVE  PauseInv'
BY DEF PauseInv, Pauses

(* No step of the two pages breaks it.                                     *)
LEMMA PauseStays == ASSUME WatchTyped, PauseInv, WatchStep \/ UNCHANGED watchVars PROVE PauseInv'
<1>o. \A o \in wops : IsOp(o)
  BY DEF WatchTyped, OpTyped
<1>d. DOMAIN wlast = Watched
  BY DEF PauseInv
<1>e. ASSUME UNCHANGED <<wkind, wrows, wlast>>, wops \subseteq wops',
             \A p \in wops' : p.kind \notin {"read", "enable"} \/ (p.kind = "read" /\ wkind = "alerts") \/ p \in wops PROVE PauseInv'
  <2>1. \A r \in Watched : Pending(r) => Pending(r)'
    BY <1>e DEF Pending
  <2> QED
    BY <1>d, <1>e, <2>1, PauseRests
<1>c. ASSUME NEW rows, NEW issues, ShowsCards(rows, issues), UNCHANGED <<wkind, wrows, wlast>> PROVE PauseInv'
  <2>1. (\A p \in wops' : \E o \in wops : SameOp(p, o)) /\ (\A o \in wops : \E p \in wops' : SameOp(p, o))
    BY <1>c, <1>o, CardsKeepOps
  <2>2. \A r \in Watched : Pending(r) => Pending(r)'
    BY <2>1 DEF Pending, Pauses, SameOp
  <2>3. \A p \in wops' : \E o \in wops : p.kind = o.kind /\ p.rows = o.rows /\ p.val = o.val
    BY <2>1 DEF SameOp
  <2> QED
    BY <1>c, <1>d, <2>2, <2>3, PauseRests
<1>1. CASE UNCHANGED watchVars
  BY <1>e, <1>1 DEF watchVars
<1>2. ASSUME NEW u, ChooseView(u) \/ ViewShown(u) PROVE PauseInv'
  <2>1. \E rows : ShowsCards(rows, wissues) /\ UNCHANGED <<wkind, wrows, wlast>>
    BY <1>2 DEF ChooseView, ViewShown
  <2> QED
    BY <1>c, <2>1
<1>3. CASE ChooseIssues
  BY <1>c, <1>3 DEF ChooseIssues
<1>4. ASSUME NEW u, PollView(u) \/ ViewAged(u) \/ ViewRead(u) PROVE PauseInv'
  BY <1>e, <1>4 DEF PollView, ViewAged, ViewRead
<1>s. ASSUME NEW kind, NEW S, NEW x, NEW nr, Send(kind, S, x, nr), kind # "enable", kind = "read" => wkind = "alerts", UNCHANGED <<wkind, wrows, wlast>> PROVE PauseInv'
  <2> DEFINE o == [kind |-> kind, rows |-> S, val |-> x, ver |-> None, card |-> TRUE, nr |-> nr]
  <2>1. o.kind = kind /\ wops' = wops \cup {o}
    BY <1>s DEF Send
  <2> HIDE DEF o
  <2> QED
    BY <1>e, <1>s, <2>1
<1>5. CASE MarkAllRead \/ \E r \in Watched : MarkRead(r) \/ SnoozeAlert(r) \/ CheckNow(r)
  BY <1>s, <1>5 DEF MarkAllRead, MarkRead, SnoozeAlert, CheckNow, ActOn
<1>6. ASSUME NEW r \in Watched, SetEnabled(r) PROVE PauseInv'
  <2> DEFINE x == ~wshown.list[r].flag
             o == [kind |-> "enable", rows |-> {r}, val |-> x, ver |-> None, card |-> TRUE, nr |-> moves']
  <2>1. /\ wkind = "uptime" /\ UNCHANGED <<wkind, wrows>> /\ wops' = wops \cup {o}
        /\ wlast' = [wlast EXCEPT ![r] = IF CrossesAnother(r, x) THEN None ELSE x]
    BY <1>6 DEF SetEnabled, Card, ActOn, Send
  <2>2. o.kind = "enable" /\ o.rows = {r} /\ o.val = x /\ o.ver = None
    OBVIOUS
  <2>3. ~CrossesAnother(r, x) => \A p \in wops : Pauses(p, r) => p.val = x
    BY DEF CrossesAnother, Pauses
  <2> HIDE DEF o, x
  <2>4. DOMAIN wlast' = Watched /\ \A s \in Watched : s # r => wlast'[s] = wlast[s]
    BY <1>d, <2>1
  <2>5. wlast'[r] # None => wlast'[r] = x /\ ~CrossesAnother(r, x)
    BY <1>d, <2>1
  <2>6. Pending(r)' /\ \A s \in Watched : Pending(s) => Pending(s)'
    BY <2>1, <2>2 DEF Pending, Pauses
  <2>7. wlast'[r] # None => \A p \in wops' : Pauses(p, r) => p.val = wlast'[r]
    BY <2>1, <2>2, <2>3, <2>5
  <2>8. \A s \in Watched : s # r => ~Pauses(o, s)
    BY <2>2 DEF Pauses
  <2> QED
    BY <2>1, <2>2, <2>4, <2>6, <2>7, <2>8 DEF PauseInv
<1>7. ASSUME NEW r, AskRemoval(r) PROVE PauseInv'
  BY <1>e, <1>7 DEF AskRemoval
<1>8. ASSUME NEW yes, AnswerRemoval(yes) PROVE PauseInv'
  <2>1. CASE UNCHANGED wops
    BY <1>e, <1>8, <2>1 DEF AnswerRemoval
  <2>2. CASE Send("hide", {wask}, TRUE, moves)
    BY <1>s, <1>8, <2>2 DEF AnswerRemoval
  <2> QED
    BY <1>8, <2>1, <2>2 DEF AnswerRemoval
<1>9. ASSUME NEW r, OpenRename(r) \/ TypeName(r) PROVE PauseInv'
  BY <1>e, <1>9 DEF OpenRename, TypeName, renameOnly
<1>10. CASE SaveName \/ CancelRename
  <2>1. CASE UNCHANGED wops
    BY <1>e, <1>10, <2>1 DEF SaveName, CancelRename, renameOnly
  <2>2. CASE Send("rename", {wren.row}, wren.name, wren.nr)
    BY <1>s, <1>10, <2>2 DEF SaveName, CancelRename, renameOnly
  <2> QED
    BY <1>10, <2>1, <2>2 DEF SaveName, CancelRename
<1>11. ASSUME NEW o \in wops, OpApplied(o) PROVE PauseInv'
  <2> DEFINE p == [o EXCEPT !.ver = wver']
  <2>1. /\ wops' = (wops \ {o}) \cup {p} /\ UNCHANGED <<wkind, wlast>>
        /\ \A r \in Watched : wrows'[r] = IF r \in o.rows THEN Changed(wrows[r], o) ELSE wrows[r]
    BY <1>11 DEF OpApplied
  <2>2. p.kind = o.kind /\ p.rows = o.rows /\ p.val = o.val
    BY <1>o DEF IsOp
  <2> HIDE DEF p
  <2>3. \A r \in Watched : Changed(wrows[r], o).flag = IF o.kind \in {"read", "enable"} THEN o.val ELSE wrows[r].flag
    <3>1. OpTyped(o) /\ \A r \in Watched : wrows[r] \in WRow
      BY DEF WatchTyped, WList
    <3>2. ASSUME NEW row \in WRow PROVE Changed(row, o).flag = IF o.kind \in {"read", "enable"} THEN o.val ELSE row.flag
      BY <3>1 DEF Changed, WRow, OpTyped
    <3> QED
      BY <3>1, <3>2
  <2>4. ASSUME NEW r \in Watched, wlast[r] # None PROVE wrows'[r].flag = wlast[r] \/ Pending(r)'
    <3>1. CASE Pauses(o, r)
      BY <2>1, <2>3, <2>4, <3>1 DEF PauseInv, Pauses
    <3>2. CASE ~Pauses(o, r)
      <4>1. o.kind # "read"
        BY <2>4 DEF PauseInv
      <4>2. wrows'[r].flag = wrows[r].flag
        BY <2>1, <2>3, <3>2, <4>1 DEF Pauses
      <4>3. Pending(r) => Pending(r)'
        BY <2>1, <3>2 DEF Pending
      <4> QED
        BY <2>4, <4>2, <4>3 DEF PauseInv
    <3> QED
      BY <3>1, <3>2
  <2>5. \A q \in wops' : \E a \in wops : q.kind = a.kind /\ q.rows = a.rows /\ q.val = a.val
    BY <2>1, <2>2
  <2> QED
    BY <2>1, <2>4, <2>5 DEF PauseInv, Pauses
<1>12. ASSUME NEW o \in wops, OpAnswered(o) PROVE PauseInv'
  <2>1. wops' = wops \ {o} /\ o.ver # None /\ UNCHANGED <<wkind, wrows, wlast>>
    BY <1>12 DEF OpAnswered
  <2>2. \A r \in Watched : Pending(r) => Pending(r)'
    BY <2>1 DEF Pending
  <2> QED
    BY <1>d, <2>1, <2>2, PauseRests
<1>13. ASSUME NEW o \in wops, OpFails(o) PROVE PauseInv'
  <2>1. wops' = wops \ {o} /\ UNCHANGED <<wkind, wrows>>
    BY <1>13 DEF OpFails
  <2>2. /\ DOMAIN wlast' = Watched /\ \A r \in Watched : wlast'[r] \in {wlast[r], None}
        /\ \A r \in Watched : Pauses(o, r) => wlast'[r] = None
    BY <1>d, <1>13 DEF OpFails, Pauses
  <2>3. \A r \in Watched : ~Pauses(o, r) => (Pending(r) => Pending(r)')
    BY <2>1 DEF Pending
  <2> QED
    BY <2>1, <2>2, <2>3, PauseRests
<1>14. ASSUME NEW r \in Watched, NEW x, RowChanges(r, x) PROVE PauseInv'
  <2>1. wrows' = [wrows EXCEPT ![r] = x] /\ UNCHANGED <<wkind, wops>> /\ wlast' = [wlast EXCEPT ![r] = None]
    BY <1>14 DEF RowChanges
  <2>2. DOMAIN wlast' = Watched /\ wlast'[r] = None /\ \A s \in Watched : s # r => wlast'[s] = wlast[s] /\ wrows'[s] = wrows[s]
    BY <1>d, <2>1
  <2>3. \A s \in Watched : Pending(s)' = Pending(s)
    BY <2>1 DEF Pending
  <2> QED
    BY <2>1, <2>2, <2>3 DEF PauseInv
<1> QED
  BY <1>1, <1>2, <1>3, <1>4, <1>5, <1>6, <1>7, <1>8, <1>9, <1>10, <1>11, <1>12, <1>13, <1>14 DEF WatchStep

-----------------------------------------------------------------------------
(* What is shown is stored, or its answer is on its way.                   *)
ShownInv ==
    /\ SettingInv /\ TableInv /\ FormInv /\ ChannelInv /\ BaseInv
    /\ WatchTyped /\ TellsInv /\ PauseInv /\ PickInv

(* The pages start with what is stored.                                    *)
LEMMA ShownStart == Init => ShownInv
<1> SUFFICES ASSUME Init PROVE ShownInv
  OBVIOUS
<1>1. SettingInv
  <2>1. kept = [k \in Keys |-> CHOOSE x \in KeyVals : TRUE] /\ cached = kept /\ saves = {}
    BY DEF Init, SettingsInit
  <2>2. (CHOOSE x \in KeyVals : TRUE) \in KeyVals
    BY SettingConstants
  <2> QED
    BY <2>1, <2>2 DEF SettingInv, AllSettings
<1>2. TableInv
  BY DEF Init, TableInit, TableInv
<1>3. FormInv /\ ChannelInv
  <2>1. FormInv
    BY TwiceStart DEF TwiceInv
  <2> QED
    BY <2>1 DEF Init, FormInit, ChannelInv
<1>4. BaseInv
  BY DEF Init, MachineInit, BaseInv, LostOnlyByOverlap
<1>5. WatchTyped
  <2> DEFINE n == CHOOSE x \in Labels : TRUE
  <2>1. n \in Labels
    BY WatchConstants
  <2>2. /\ wrows = [r \in Watched |-> [flag |-> wkind = "uptime", there |-> TRUE, name |-> n]] /\ wview = "first"
        /\ wcache = [u \in WViews |-> IF u = "first" THEN [list |-> wrows, ver |-> 0] ELSE None]
        /\ wfetch = [u \in WViews |-> NoneAsked] /\ wshown = [view |-> "first", list |-> wrows] /\ wops = {} /\ wren = None
    BY DEF Init, WatchInit
  <2> HIDE DEF n
  <2>3. wrows \in WList
    BY <2>1, <2>2 DEF WList, WRow
  <2>4. [list |-> wrows, ver |-> 0] \in WFetched
    BY <2>3 DEF WFetched
  <2> QED
    BY <2>2, <2>3, <2>4 DEF WatchTyped, WViews, NoneAsked
<1>6. TellsInv
  <2>1. /\ wkind \in {"alerts", "uptime"} /\ wver = 0 /\ wview = "first" /\ wops = {} /\ wdone = 0
        /\ wcache["first"] = [list |-> wrows, ver |-> 0] /\ \A u \in WViews : wfetch[u] = NoneAsked
    BY DEF Init, WatchInit, WViews
  <2>2. OnScreen = {"first"}
    BY <2>1 DEF OnScreen
  <2>3. [list |-> wrows, ver |-> 0] \in WFetched
    BY <1>5, <2>1 DEF WatchTyped, WFetched
  <2>4. wcache["first"] # None
    BY <2>1, <2>3, WatchConstants DEF WFetched, WList, WRow
  <2> QED
    BY <2>1, <2>2, <2>4 DEF TellsInv, ToldInOrder, ViewInv, UpToDate, NoneAsked
<1>7. PauseInv
  BY DEF Init, WatchInit, PauseInv
<1>8. PickInv
  BY DEF Init, SetInit, PickInv
<1> QED
  BY <1>1, <1>2, <1>3, <1>4, <1>5, <1>6, <1>7, <1>8 DEF ShownInv

(* No step of any page breaks it.                                          *)
LEMMA ShownStays == ShownInv /\ [Next]_vars => ShownInv'
<1> SUFFICES ASSUME ShownInv, [Next]_vars PROVE ShownInv'
  OBVIOUS
<1>1. SettingInv' /\ TableInv' /\ PickInv'
  BY OtherSteps, SettingsStay, TableStays, PickStays DEF ShownInv
<1>2. FormInv' /\ ChannelInv'
  BY PageSteps, FormStays, ChannelStays DEF ShownInv
<1>3. BaseInv'
  BY PageSteps, BaseStays DEF ShownInv
<1>4. WatchTyped' /\ TellsInv' /\ PauseInv'
  <2>1. WatchStep \/ UNCHANGED watchVars
    BY PageSteps
  <2>2. wver \in Nat
    BY DEF ShownInv, TellsInv, ToldInOrder
  <2> QED
    BY <2>1, <2>2, WatchTypedStays, TellsStay, PauseStays DEF ShownInv
<1> QED
  BY <1>1, <1>2, <1>3, <1>4 DEF ShownInv

(* What is shown as saved is stored: nothing that was refused, answered    *)
(* late or written meanwhile by someone else is shown as if it were        *)
(* (common.tsx:26, NotificationsTab.tsx:70, GithubTab.tsx:256,             *)
(* ChannelDialog.tsx:79, machines/page.tsx:260, actions.ts:15,             *)
(* MonitorCard.tsx:58, 70), for any numbers of settings, rows, channels,   *)
(* parts, alerts, monitors, hosts and requests.                            *)
THEOREM SavedIsShown == Spec => []ShownIsSaved
<1>1. Init => ShownInv
  BY ShownStart
<1>2. ShownInv /\ [Next]_vars => ShownInv'
  BY ShownStays
<1>3. ShownInv => ShownIsSaved
  <2> SUFFICES ASSUME ShownInv PROVE ShownIsSaved
    OBVIOUS
  <2>1. ShownIsStored
    BY DEF ShownInv, SettingInv, ShownIsStored
  <2>2. RowsShownAreStored
    BY DEF ShownInv, TableInv, RowsShownAreStored
  <2>3. CleanIsSaved
    BY DEF ShownInv, ChannelInv, ChannelForm, CleanIsSaved
  <2>4. ToldIsShown
    <3>1. OnScreen \subseteq WViews
      BY DEF ShownInv, WatchTyped, OnScreen, WViews
    <3> QED
      BY <3>1 DEF ShownInv, TellsInv, ViewInv, UpToDate, ToldIsShown
  <2>5. PausedAsAsked
    BY DEF ShownInv, PauseInv, Pending, Pauses, PausedAsAsked
  <2>6. SelectedIsIncluded
    BY DEF ShownInv, PickInv, SelectedIsIncluded, Selected, Included
  <2> QED
    BY <2>1, <2>2, <2>3, <2>4, <2>5, <2>6 DEF ShownInv, BaseInv, ShownIsSaved
<1> QED
  BY <1>1, <1>2, <1>3, PTL DEF Spec
=============================================================================
