-------------------------- MODULE DegradationProofs --------------------------
(***************************************************************************)
(* Proofs about Degradation, for any history: the loop over the samples    *)
(* reports every window above the threshold that is over, once, and what   *)
(* it has reported of a history it reports of every longer one.  An        *)
(* induction over the samples is one over the set of the positions for     *)
(* which the claim holds (UpTo).                                           *)
(***************************************************************************)
EXTENDS MCDiagnosis, SubsequenceProofs

\* The loop is well defined: there is a function that it computes.
LEMMA ScansDef ==
    ASSUME NEW v, Len(v) \in Nat, NEW t, NEW l
    PROVE  /\ Scans(v, t, l)[0] = Closed
           /\ \A i \in 1 .. Len(v) : Scans(v, t, l)[i] = Scan(v, t, l, Scans(v, t, l)[i - 1], i)
<1> DEFINE n == Len(v)
           Loops(g, k) == g = [i \in 0 .. k |-> IF i = 0 THEN Closed ELSE Scan(v, t, l, g[i - 1], i)]
           T == {k \in Nat : \E g : Loops(g, k)}
<1>1. 0 \in T
  <2> DEFINE g == [i \in 0 .. 0 |-> Closed]
  <2>1. Loops(g, 0)
    OBVIOUS
  <2> QED
    BY <2>1
<1>2. ASSUME NEW k \in 1 .. n, k - 1 \in T PROVE k \in T
  <2>1. PICK g : Loops(g, k - 1)
    BY <1>2
  <2> DEFINE h == [i \in 0 .. k |-> IF i < k THEN g[i] ELSE Scan(v, t, l, g[k - 1], k)]
  <2>2. \A i \in 0 .. k : h[i] = IF i = 0 THEN Closed ELSE Scan(v, t, l, h[i - 1], i)
    <3> SUFFICES ASSUME NEW i \in 0 .. k
                 PROVE  h[i] = IF i = 0 THEN Closed ELSE Scan(v, t, l, h[i - 1], i)
      OBVIOUS
    <3>1. i # 0 => h[i - 1] = g[i - 1]
      OBVIOUS
    <3>2. i < k => g[i] = IF i = 0 THEN Closed ELSE Scan(v, t, l, g[i - 1], i)
      BY <2>1
    <3> QED
      BY <3>1, <3>2
  <2>3. Loops(h, k)
    BY <2>2
  <2>4. k \in Nat
    OBVIOUS
  <2> HIDE DEF Loops, h
  <2> QED
    BY <2>3, <2>4
<1>3. n \in T
  <2>1. n \in Nat /\ n \in 0 .. n
    OBVIOUS
  <2> HIDE DEF T, n
  <2> QED
    BY <1>1, <1>2, <2>1, UpTo
<1>4. PICK g : Loops(g, n)
  BY <1>3
<1>5. Loops(Scans(v, t, l), n)
  BY <1>4, Zenon DEF Scans
<1> HIDE DEF n
<1> QED
  BY <1>5 DEF n

\* What is between two samples of a history: over the threshold all along, and
\* a window that is over before the history is.
Above(v, t, a, b) == \A j \in a .. b : v[j] > t

Window(v, t, a, b) ==
    /\ a \in 1 .. Len(v) /\ b \in 1 .. Len(v) /\ a < b /\ b < Len(v)
    /\ Above(v, t, a, b) /\ v[b + 1] <= t
    /\ a > 1 => v[a - 1] <= t

\* The event that is reported of a window.
EventOf(v, l, a, b) == [first |-> a, last |-> b, severity |-> Severity(Peak(v, a, b), l)]
EventsOf(v, l) == {EventOf(v, l, a, b) : a \in Nat, b \in Nat}

\* The invariant of the loop, after sample i: of the window that is open, and of
\* what has been reported.
Opened(v, t, i, inEvent, start) ==
    /\ inEvent => /\ start \in 1 .. i /\ Above(v, t, start, i)
                  /\ start > 1 => v[start - 1] <= t
    /\ ~inEvent /\ i > 0 => v[i] <= t

Reported(v, t, i, events) ==
    /\ \A n \in DOMAIN events : /\ Window(v, t, events[n].first, events[n].last)
                                /\ events[n].last < i
    /\ \A m, n \in DOMAIN events : m < n => events[m].last < events[n].first
    /\ \A a, b \in 1 .. Len(v) : Window(v, t, a, b) /\ b < i =>
          \E n \in DOMAIN events : events[n].first = a /\ events[n].last = b

ScanInv(v, t, l, i, acc) ==
    /\ acc \in [inEvent : BOOLEAN, start : Nat, events : Seq(EventsOf(v, l))]
    /\ Opened(v, t, i, acc.inEvent, acc.start)
    /\ Reported(v, t, i, acc.events)

\* A window that ends before this sample is the one that is open.
LEMMA EndsHere ==
    ASSUME NEW v \in Seq(Int), NEW t \in Int, NEW i \in 1 .. Len(v), NEW in, NEW s \in Nat,
           Opened(v, t, i - 1, in, s),
           NEW a \in 1 .. Len(v), NEW b \in 1 .. Len(v), Window(v, t, a, b), b < i, ~(b < i - 1)
    PROVE  v[i] <= t /\ in /\ a = s /\ b = i - 1 /\ i - s >= 2
<1>1. Len(v) \in Nat /\ i \in Nat /\ \A j \in 1 .. Len(v) : v[j] \in Int
  OBVIOUS
<1>2. b = i - 1 /\ b + 1 = i
  BY <1>1
<1>3. v[i] <= t
  BY <1>2 DEF Window
<1>4. a < b /\ Above(v, t, a, i - 1) /\ (a > 1 => v[a - 1] <= t)
  BY <1>2 DEF Window
<1>5. v[i - 1] > t
  BY <1>1, <1>2, <1>4 DEF Above
<1>6. in
  BY <1>1, <1>2, <1>5 DEF Opened
<1>7. s \in 1 .. i - 1 /\ Above(v, t, s, i - 1) /\ (s > 1 => v[s - 1] <= t)
  BY <1>6 DEF Opened
<1>8. ~(s < a)
  <2> SUFFICES ASSUME s < a PROVE FALSE
    OBVIOUS
  <2>1. a - 1 \in s .. i - 1 /\ a > 1 /\ a - 1 \in 1 .. Len(v)
    BY <1>1, <1>2, <1>4, <1>7
  <2>2. v[a - 1] > t /\ v[a - 1] <= t
    BY <1>4, <1>7, <2>1 DEF Above
  <2>3. v[a - 1] \in Int
    BY <2>1
  <2> QED
    BY <2>2, <2>3
<1>9. ~(a < s)
  <2> SUFFICES ASSUME a < s PROVE FALSE
    OBVIOUS
  <2>1. s - 1 \in a .. i - 1 /\ s > 1 /\ s - 1 \in 1 .. Len(v)
    BY <1>1, <1>2, <1>7
  <2>2. v[s - 1] > t /\ v[s - 1] <= t
    BY <1>4, <1>7, <2>1 DEF Above
  <2>3. v[s - 1] \in Int
    BY <2>1
  <2> QED
    BY <2>2, <2>3
<1> QED
  BY <1>1, <1>2, <1>3, <1>4, <1>6, <1>8, <1>9

\* Nothing is to be reported where no window ends.
LEMMA ReportedStill ==
    ASSUME NEW v \in Seq(Int), NEW t, NEW i \in 1 .. Len(v), NEW events,
           Reported(v, t, i - 1, events),
           \A a, b \in 1 .. Len(v) : Window(v, t, a, b) /\ b < i => b < i - 1
    PROVE  Reported(v, t, i, events)
<1>1. Len(v) \in Nat /\ i \in Nat
  OBVIOUS
<1>2. \A n \in DOMAIN events : /\ Window(v, t, events[n].first, events[n].last)
                               /\ events[n].last < i
  BY <1>1 DEF Reported, Window
<1>3. \A a, b \in 1 .. Len(v) : Window(v, t, a, b) /\ b < i =>
          \E n \in DOMAIN events : events[n].first = a /\ events[n].last = b
  BY DEF Reported
<1> QED
  BY <1>2, <1>3 DEF Reported

\* A window that ends is reported behind all others.
LEMMA ReportedMore ==
    ASSUME NEW v \in Seq(Int), NEW t \in Int, NEW i \in 1 .. Len(v), NEW s \in 1 .. i - 1,
           NEW E, NEW ev \in Seq(E), NEW e \in E, e.first = s, e.last = i - 1,
           Reported(v, t, i - 1, ev), Window(v, t, s, i - 1),
           \A a, b \in 1 .. Len(v) : Window(v, t, a, b) /\ b < i /\ ~(b < i - 1) => a = s /\ b = i - 1
    PROVE  Reported(v, t, i, Append(ev, e))
<1> DEFINE ew == Append(ev, e)
           k  == Len(ev) + 1
<1>1. Len(v) \in Nat /\ i \in Nat /\ \A j \in 1 .. Len(v) : v[j] \in Int
  OBVIOUS
<1>2. /\ DOMAIN ev = 1 .. Len(ev) /\ Len(ev) \in Nat /\ DOMAIN ew = 1 .. k
      /\ \A n \in 1 .. Len(ev) : ew[n] = ev[n]
      /\ ew[k] = e
  OBVIOUS
<1> HIDE DEF ew
<1>3. \A n \in DOMAIN ew : n = k \/ (n \in DOMAIN ev /\ ew[n] = ev[n] /\ n < k)
  <2> SUFFICES ASSUME NEW n \in DOMAIN ew, n # k PROVE n \in DOMAIN ev /\ ew[n] = ev[n] /\ n < k
    OBVIOUS
  <2>1. n \in 1 .. Len(ev) /\ n < k
    BY <1>2
  <2> QED
    BY <1>2, <2>1
<1>4. /\ \A n \in DOMAIN ev : Window(v, t, ev[n].first, ev[n].last) /\ ev[n].last < i - 1
      /\ \A m, n \in DOMAIN ev : m < n => ev[m].last < ev[n].first
      /\ \A a, b \in 1 .. Len(v) : Window(v, t, a, b) /\ b < i - 1 =>
            \E n \in DOMAIN ev : ev[n].first = a /\ ev[n].last = b
  BY DEF Reported
<1>5. \A m \in DOMAIN ev : ev[m].last < s
  <2> SUFFICES ASSUME NEW m \in DOMAIN ev PROVE ev[m].last < s
    OBVIOUS
  <2> DEFINE b == ev[m].last
  <2>1. b \in 1 .. Len(v) /\ b + 1 \in 1 .. Len(v) /\ v[b + 1] <= t /\ b < i - 1
    <3>1. Window(v, t, ev[m].first, b) /\ b < i - 1
      BY <1>4
    <3> HIDE DEF b
    <3> QED
      BY <1>1, <3>1 DEF Window
  <2> HIDE DEF b
  <2>2. b + 1 \notin s .. i - 1
    <3>1. b + 1 \in s .. i - 1 => v[b + 1] > t
      BY DEF Window, Above
    <3> QED
      BY <1>1, <2>1, <3>1
  <2>3. b < s
    BY <1>1, <2>1, <2>2
  <2> QED
    BY <2>3 DEF b
<1>6. ASSUME NEW n \in DOMAIN ew
      PROVE  Window(v, t, ew[n].first, ew[n].last) /\ ew[n].last < i
  <2>1. CASE n = k
    BY <1>1, <1>2, <2>1
  <2>2. CASE n \in DOMAIN ev /\ ew[n] = ev[n]
    <3> DEFINE b == ev[n].last
    <3>1. Window(v, t, ev[n].first, b) /\ b < i - 1
      BY <1>4, <2>2
    <3> HIDE DEF b
    <3>2. b < i
      BY <1>1, <3>1 DEF Window
    <3> QED
      BY <2>2, <3>1, <3>2 DEF b
  <2> QED
    BY <1>3, <2>1, <2>2
<1>7. ASSUME NEW m \in DOMAIN ew, NEW n \in DOMAIN ew, m < n
      PROVE  ew[m].last < ew[n].first
  <2>1. m \in DOMAIN ev /\ ew[m] = ev[m]
    BY <1>2, <1>3, <1>7
  <2>2. CASE n = k
    BY <1>2, <1>5, <2>1, <2>2
  <2>3. CASE n \in DOMAIN ev /\ ew[n] = ev[n]
    BY <1>4, <1>7, <2>1, <2>3
  <2> QED
    BY <1>3, <2>2, <2>3
<1>8. ASSUME NEW a \in 1 .. Len(v), NEW b \in 1 .. Len(v), Window(v, t, a, b), b < i
      PROVE  \E n \in DOMAIN ew : ew[n].first = a /\ ew[n].last = b
  <2>1. CASE b < i - 1
    <3>1. PICK n \in DOMAIN ev : ev[n].first = a /\ ev[n].last = b
      BY <1>4, <1>8, <2>1
    <3>2. n \in DOMAIN ew /\ ew[n] = ev[n]
      BY <1>2
    <3> QED
      BY <3>1, <3>2
  <2>2. CASE ~(b < i - 1)
    <3>1. a = s /\ b = i - 1
      BY <1>8, <2>2
    <3>2. k \in DOMAIN ew
      BY <1>2
    <3> QED
      BY <1>2, <3>1, <3>2
  <2> QED
    BY <2>1, <2>2
<1>9. Reported(v, t, i, ew)
  <2>1. \A n \in DOMAIN ew : Window(v, t, ew[n].first, ew[n].last) /\ ew[n].last < i
    BY <1>6
  <2>2. \A m, n \in DOMAIN ew : m < n => ew[m].last < ew[n].first
    BY <1>7
  <2>3. \A a, b \in 1 .. Len(v) : Window(v, t, a, b) /\ b < i =>
          \E n \in DOMAIN ew : ew[n].first = a /\ ew[n].last = b
    <3> SUFFICES ASSUME NEW a \in 1 .. Len(v), NEW b \in 1 .. Len(v), Window(v, t, a, b) /\ b < i
                 PROVE  \E n \in DOMAIN ew : ew[n].first = a /\ ew[n].last = b
      OBVIOUS
    <3> QED
      BY <1>8
  <2> QED
    BY <2>1, <2>2, <2>3, Zenon DEF Reported
<1> QED
  BY <1>9 DEF ew

LEMMA ScanStep ==
    ASSUME NEW v \in Seq(Int), NEW t \in Int, NEW l, NEW i \in 1 .. Len(v), NEW acc,
           ScanInv(v, t, l, i - 1, acc)
    PROVE  ScanInv(v, t, l, i, Scan(v, t, l, acc, i))
<1> DEFINE E == EventsOf(v, l)
           S == Seq(E)
           new == Scan(v, t, l, acc, i)
           in == acc.inEvent
           s == acc.start
           ev == acc.events
<1>1. acc \in [inEvent : BOOLEAN, start : Nat, events : S]
  BY DEF ScanInv
<1> HIDE DEF S
<1>2. in \in BOOLEAN /\ s \in Nat /\ ev \in S
  BY <1>1
<1>3. Len(v) \in Nat /\ i \in Nat /\ \A j \in 1 .. Len(v) : v[j] \in Int
  OBVIOUS
<1>4. Opened(v, t, i - 1, in, s) /\ Reported(v, t, i - 1, ev)
  BY DEF ScanInv
<1> HIDE DEF in, s, ev, new, E
<1>5. \A a, b \in 1 .. Len(v) : Window(v, t, a, b) /\ b < i /\ ~(b < i - 1) =>
         v[i] <= t /\ in /\ a = s /\ b = i - 1 /\ i - s >= 2
  BY <1>2, <1>4, EndsHere
<1>6. CASE v[i] > t /\ ~in
  <2>1. new = [acc EXCEPT !.inEvent = TRUE, !.start = i]
    BY <1>6 DEF Scan, new, in
  <2>2. /\ new \in [inEvent : BOOLEAN, start : Nat, events : S]
        /\ new.inEvent = TRUE /\ new.start = i /\ new.events = ev
    BY <1>1, <1>3, <2>1 DEF ev
  <2>3. Opened(v, t, i, TRUE, i)
    <3>1. i > 1 => v[i - 1] <= t
      BY <1>3, <1>4, <1>6 DEF Opened
    <3> QED
      BY <1>3, <1>6, <3>1 DEF Opened, Above
  <2>4. Reported(v, t, i, ev)
    <3>1. \A a, b \in 1 .. Len(v) : Window(v, t, a, b) /\ b < i => b < i - 1
      BY <1>5, <1>6
    <3> QED
      BY <1>4, <3>1, ReportedStill
  <2> QED
    BY <2>2, <2>3, <2>4 DEF ScanInv, S, E, new
<1>7. CASE v[i] <= t /\ in
  <2> DEFINE e == EventOf(v, l, s, i - 1)
             later == IF i - s < 2 THEN ev ELSE Append(ev, e)
  <2>1. new = [acc EXCEPT !.inEvent = FALSE, !.events = later]
    <3>1. v[i] \in Int /\ ~(v[i] > t)
      BY <1>3, <1>7
    <3> QED
      BY <1>7, <3>1 DEF Scan, EventOf, new, in, s, ev
  <2>2. e \in E /\ e.first = s /\ e.last = i - 1
    <3>1. s \in 1 .. i - 1 /\ i - 1 \in Nat
      BY <1>3, <1>4, <1>7 DEF Opened
    <3> QED
      BY <1>2, <3>1 DEF E, EventsOf, EventOf
  <2> HIDE DEF e
  <2>3. later \in S
    BY <1>2, <2>2 DEF S
  <2>4. Reported(v, t, i, later)
    <3>1. CASE i - s < 2
      <4>1. \A a, b \in 1 .. Len(v) : Window(v, t, a, b) /\ b < i => b < i - 1
        BY <1>2, <1>3, <1>5, <3>1
      <4>2. Reported(v, t, i, ev)
        BY <1>4, <4>1, ReportedStill
      <4> QED
        BY <3>1, <4>2
    <3>2. CASE ~(i - s < 2)
      <4>1. s \in 1 .. i - 1 /\ Above(v, t, s, i - 1) /\ (s > 1 => v[s - 1] <= t)
        BY <1>4, <1>7 DEF Opened
      <4>2. s \in 1 .. Len(v) /\ i - 1 \in 1 .. Len(v) /\ s < i - 1 /\ i - 1 < Len(v) /\ (i - 1) + 1 = i
        BY <1>2, <1>3, <3>2, <4>1
      <4>3. Window(v, t, s, i - 1)
        BY <1>7, <4>1, <4>2 DEF Window
      <4>4. Reported(v, t, i, Append(ev, e))
        BY <1>2, <1>4, <1>5, <2>2, <4>1, <4>3, ReportedMore DEF S
      <4> QED
        BY <3>2, <4>4
    <3> QED
      BY <3>1, <3>2
  <2> HIDE DEF later
  <2>5. /\ new \in [inEvent : BOOLEAN, start : Nat, events : S]
        /\ new.inEvent = FALSE /\ new.events = later
    BY <1>1, <2>1, <2>3
  <2>6. Opened(v, t, i, FALSE, new.start)
    BY <1>7 DEF Opened
  <2> QED
    BY <2>4, <2>5, <2>6 DEF ScanInv, S, E, new
<1>8. CASE ~(v[i] > t /\ ~in) /\ ~(v[i] <= t /\ in)
  <2>1. new = acc
    BY <1>8 DEF Scan, new, in
  <2>2. (in => v[i] > t) /\ (~in => v[i] <= t)
    BY <1>2, <1>3, <1>8
  <2>3. Opened(v, t, i, in, s)
    <3>1. ASSUME in PROVE s \in 1 .. i /\ Above(v, t, s, i) /\ (s > 1 => v[s - 1] <= t)
      <4>1. s \in 1 .. i - 1 /\ Above(v, t, s, i - 1) /\ (s > 1 => v[s - 1] <= t)
        BY <1>4, <3>1 DEF Opened
      <4>2. s \in 1 .. i /\ \A j \in s .. i : j \in s .. i - 1 \/ j = i
        BY <1>3, <4>1
      <4> QED
        BY <2>2, <3>1, <4>1, <4>2 DEF Above
    <3> QED
      BY <2>2, <3>1 DEF Opened
  <2>4. Reported(v, t, i, ev)
    <3>1. \A a, b \in 1 .. Len(v) : Window(v, t, a, b) /\ b < i => b < i - 1
      BY <1>3, <1>5, <1>8
    <3> QED
      BY <1>4, <3>1, ReportedStill
  <2> QED
    BY <1>1, <2>1, <2>3, <2>4 DEF ScanInv, S, E, in, s, ev, new
<1> QED
  BY <1>6, <1>7, <1>8

LEMMA ScanInvariance ==
    ASSUME NEW v \in Seq(Int), NEW t \in Int, NEW l, NEW i \in 0 .. Len(v)
    PROVE  ScanInv(v, t, l, i, Scans(v, t, l)[i])
<1> DEFINE f == Scans(v, t, l)
           T == {j \in 0 .. Len(v) : ScanInv(v, t, l, j, f[j])}
<1>1. Len(v) \in Nat
  OBVIOUS
<1>2. 0 \in T
  <2>1. f[0] = Closed
    BY <1>1, ScansDef
  <2>2. ScanInv(v, t, l, 0, Closed)
    BY DEF ScanInv, Opened, Reported, Closed
  <2> QED
    BY <1>1, <2>1, <2>2
<1>3. ASSUME NEW j \in 1 .. Len(v), j - 1 \in T PROVE j \in T
  <2>1. ScanInv(v, t, l, j - 1, f[j - 1])
    BY <1>3
  <2>2. f[j] = Scan(v, t, l, f[j - 1], j)
    BY <1>1, ScansDef
  <2>3. ScanInv(v, t, l, j, f[j])
    BY <2>1, <2>2, ScanStep
  <2> QED
    BY <2>3
<1> HIDE DEF T
<1>4. 0 .. Len(v) \subseteq T
  BY <1>1, <1>2, <1>3, UpTo
<1> QED
  BY <1>4 DEF T

\* The events of a history are its windows, each once, graded by their peaks
\* (telemetry_analyzer.py:91-122).
THEOREM DetectsWindows ==
    ASSUME NEW v \in Seq(Int), NEW t \in Int, NEW l
    PROVE  LET events  == Detect(v, t, l)
               windows == {w \in (1 .. Len(v)) \X (1 .. Len(v)) : Window(v, t, w[1], w[2])}
           IN  /\ {<<events[i].first, events[i].last>> : i \in DOMAIN events} = windows
               /\ Len(events) = Cardinality(windows)
               /\ \A i \in DOMAIN events : events[i] = EventOf(v, l, events[i].first, events[i].last)
<1> DEFINE events  == Detect(v, t, l)
           windows == {w \in (1 .. Len(v)) \X (1 .. Len(v)) : Window(v, t, w[1], w[2])}
           D == 1 .. Len(events)
           pair == [i \in D |-> <<events[i].first, events[i].last>>]
<1>1. /\ events \in Seq(EventsOf(v, l))
      /\ \A n \in DOMAIN events : Window(v, t, events[n].first, events[n].last)
      /\ \A m, n \in DOMAIN events : m < n => events[m].last < events[n].first
      /\ \A a, b \in 1 .. Len(v) : Window(v, t, a, b) =>
            \E n \in DOMAIN events : events[n].first = a /\ events[n].last = b
  <2>1. Len(v) \in Nat /\ Len(v) \in 0 .. Len(v)
    OBVIOUS
  <2>2. ScanInv(v, t, l, Len(v), Scans(v, t, l)[Len(v)])
    BY <2>1, ScanInvariance
  <2>3. \A a, b \in 1 .. Len(v) : Window(v, t, a, b) => b < Len(v)
    BY DEF Window
  <2> QED
    BY <2>2, <2>3 DEF ScanInv, Reported, Detect
<1> HIDE DEF events
<1>2. DOMAIN events = D /\ Len(events) \in Nat
  BY <1>1
<1>3. \A n \in D : pair[n] \in windows
  <2> SUFFICES ASSUME NEW n \in D PROVE pair[n] \in windows
    OBVIOUS
  <2>1. Window(v, t, events[n].first, events[n].last)
    BY <1>1, <1>2
  <2>2. events[n].first \in 1 .. Len(v) /\ events[n].last \in 1 .. Len(v)
    BY <2>1 DEF Window
  <2> QED
    BY <2>1, <2>2
<1>4. \A w \in windows : \E n \in D : pair[n] = w
  <2> SUFFICES ASSUME NEW w \in windows PROVE \E n \in D : pair[n] = w
    OBVIOUS
  <2>0. w[1] \in 1 .. Len(v) /\ w[2] \in 1 .. Len(v) /\ Window(v, t, w[1], w[2])
    OBVIOUS
  <2> DEFINE a == w[1]
             b == w[2]
  <2> HIDE DEF a, b, windows, D
  <2>1. a \in 1 .. Len(v) /\ b \in 1 .. Len(v) /\ Window(v, t, a, b)
    BY <2>0 DEF a, b
  <2>2. PICK n \in DOMAIN events : events[n].first = a /\ events[n].last = b
    BY <1>1, <2>1
  <2>3. w = <<a, b>>
    BY DEF a, b, windows
  <2> QED
    BY <1>2, <2>2, <2>3 DEF D
<1>5. \A m, n \in D : m # n => pair[m] # pair[n]
  <2>1. \A m, n \in D : m < n => pair[m] # pair[n]
    <3> SUFFICES ASSUME NEW m \in D, NEW n \in D, m < n, pair[m] = pair[n] PROVE FALSE
      OBVIOUS
    <3>1. events[m].last = events[n].last /\ events[m].last < events[n].first
      BY <1>1, <1>2
    <3>2. events[n].first < events[n].last /\ events[n].first \in Nat /\ events[n].last \in Nat
      BY <1>1, <1>2 DEF Window
    <3> QED
      BY <3>1, <3>2
  <2> SUFFICES ASSUME NEW m \in D, NEW n \in D, m # n PROVE pair[m] # pair[n]
    OBVIOUS
  <2>2. m < n \/ n < m
    BY <1>2
  <2> QED
    BY <2>1, <2>2
<1> HIDE DEF windows
<1>6. {<<events[i].first, events[i].last>> : i \in DOMAIN events} = windows
  <2>1. \A i \in D : <<events[i].first, events[i].last>> = pair[i]
    OBVIOUS
  <2> HIDE DEF pair
  <2> DEFINE P == {<<events[i].first, events[i].last>> : i \in DOMAIN events}
  <2>2. P \subseteq windows
    BY <1>2, <1>3, <2>1
  <2>3. \A w \in windows : w \in P
    <3> SUFFICES ASSUME NEW w \in windows PROVE w \in P
      OBVIOUS
    <3>1. PICK n \in D : pair[n] = w
      BY <1>4
    <3> QED
      BY <1>2, <2>1, <3>1
  <2> QED
    BY <2>2, <2>3, Zenon
<1>7. Cardinality(windows) = Len(events)
  <2>1. pair \in Bijection(D, windows)
    <3>1. pair \in [D -> windows] /\ DOMAIN pair = D
      BY <1>3
    <3> HIDE DEF pair, D
    <3>2. IsInjective(pair)
      BY <1>5, <3>1 DEF IsInjective
    <3> QED
      BY <1>4, <3>1, <3>2 DEF Bijection, Injection, Surjection
  <2>2. IsFiniteSet(D) /\ Cardinality(D) = Len(events)
    <3> DEFINE k == Len(events)
    <3>1. k \in Nat
      BY <1>2
    <3> HIDE DEF k
    <3>2. IsFiniteSet(1 .. k) /\ Cardinality(1 .. k) = k
      BY <3>1, FS_Interval
    <3> QED
      BY <3>2 DEF k
  <2> QED
    BY <2>1, <2>2, FS_Bijection DEF ExistsBijection
<1>8. \A i \in DOMAIN events : events[i] = EventOf(v, l, events[i].first, events[i].last)
  <2> SUFFICES ASSUME NEW i \in DOMAIN events
               PROVE  events[i] = EventOf(v, l, events[i].first, events[i].last)
    OBVIOUS
  <2>1. events[i] \in EventsOf(v, l)
    BY <1>1
  <2>2. PICK a \in Nat, b \in Nat : events[i] = EventOf(v, l, a, b)
    BY <2>1 DEF EventsOf
  <2>3. EventOf(v, l, a, b).first = a /\ EventOf(v, l, a, b).last = b
    BY DEF EventOf
  <2> QED
    BY <2>2, <2>3
<1> QED
  BY <1>6, <1>7, <1>8 DEF windows, events

-----------------------------------------------------------------------------
(* Longer histories. *)

\* History w goes on where v ends.
GoesOn(v, w) == Len(v) <= Len(w) /\ \A i \in 1 .. Len(v) : w[i] = v[i]

LEMMA ScanAgrees ==
    ASSUME NEW v \in Seq(Int), NEW w \in Seq(Int), GoesOn(v, w), NEW t, NEW l,
           NEW i \in 1 .. Len(v), NEW acc, acc.inEvent => acc.start \in 1 .. i - 1
    PROVE  Scan(w, t, l, acc, i) = Scan(v, t, l, acc, i)
<1>1. Len(v) \in Nat /\ w[i] = v[i]
  BY DEF GoesOn
<1>2. acc.inEvent => Peak(w, acc.start, i - 1) = Peak(v, acc.start, i - 1)
  <2> SUFFICES ASSUME acc.inEvent PROVE Peak(w, acc.start, i - 1) = Peak(v, acc.start, i - 1)
    OBVIOUS
  <2> DEFINE s == acc.start
  <2>1. s \in 1 .. i - 1
    OBVIOUS
  <2> HIDE DEF s
  <2> DEFINE n == Len(v)
  <2>2. \A j \in s .. i - 1 : w[j] = v[j]
    <3>1. n \in Nat /\ i \in 1 .. n /\ \A j \in 1 .. n : w[j] = v[j]
      BY <1>1 DEF GoesOn
    <3> HIDE DEF n
    <3>2. \A j \in s .. i - 1 : j \in 1 .. n
      BY <2>1, <3>1
    <3> QED
      BY <3>1, <3>2
  <2>3. {w[j] : j \in s .. i - 1} = {v[j] : j \in s .. i - 1}
    BY <2>2
  <2> QED
    BY <2>3 DEF Peak, s
<1> QED
  BY <1>1, <1>2 DEF Scan

\* The loop does over a longer history what it does over the history.
LEMMA ScansAgree ==
    ASSUME NEW v \in Seq(Int), NEW w \in Seq(Int), GoesOn(v, w), NEW t \in Int, NEW l
    PROVE  \A i \in 0 .. Len(v) : Scans(w, t, l)[i] = Scans(v, t, l)[i]
<1> DEFINE f == Scans(v, t, l)
           g == Scans(w, t, l)
           T == {i \in 0 .. Len(v) : g[i] = f[i]}
<1>1. Len(v) \in Nat /\ Len(w) \in Nat /\ Len(v) <= Len(w)
  BY DEF GoesOn
<1>2. 0 \in T
  BY <1>1, ScansDef
<1>3. ASSUME NEW i \in 1 .. Len(v), i - 1 \in T PROVE i \in T
  <2>1. g[i - 1] = f[i - 1]
    BY <1>3
  <2>2. f[i] = Scan(v, t, l, f[i - 1], i)
    BY <1>1, ScansDef
  <2>3. g[i] = Scan(w, t, l, g[i - 1], i)
    <3>1. i \in 1 .. Len(w)
      BY <1>1
    <3> QED
      BY <1>1, <3>1, ScansDef
  <2>4. ScanInv(v, t, l, i - 1, f[i - 1])
    BY <1>1, ScanInvariance
  <2> DEFINE acc == f[i - 1]
  <2>5. acc.inEvent => acc.start \in 1 .. i - 1
    BY <2>4 DEF ScanInv, Opened
  <2> HIDE DEF acc
  <2>6. Scan(w, t, l, acc, i) = Scan(v, t, l, acc, i)
    BY <2>5, ScanAgrees
  <2> QED
    BY <2>1, <2>2, <2>3, <2>6 DEF acc
<1> HIDE DEF T
<1>4. 0 .. Len(v) \subseteq T
  BY <1>1, <1>2, <1>3, UpTo
<1> QED
  BY <1>4 DEF T

\* A sample takes no event back.
LEMMA ScanKeeps ==
    ASSUME NEW v \in Seq(Int), NEW t \in Int, NEW l, NEW i \in 1 .. Len(v)
    PROVE  ToSet(Scans(v, t, l)[i - 1].events) \subseteq ToSet(Scans(v, t, l)[i].events)
<1> DEFINE acc == Scans(v, t, l)[i - 1]
           E   == EventsOf(v, l)
<1>1. Len(v) \in Nat /\ i - 1 \in 0 .. Len(v)
  OBVIOUS
<1>2. Scans(v, t, l)[i] = Scan(v, t, l, acc, i)
  BY <1>1, ScansDef
<1>3. ScanInv(v, t, l, i - 1, acc)
  BY <1>1, ScanInvariance
<1> HIDE DEF acc, E
<1>4. acc \in [inEvent : BOOLEAN, start : Nat, events : Seq(E)] /\ acc.events \in Seq(E)
  BY <1>3 DEF ScanInv, E
<1> DEFINE e == EventOf(v, l, acc.start, i - 1)
<1>5. Scan(v, t, l, acc, i).events \in {acc.events, Append(acc.events, e)}
  BY <1>4 DEF Scan, EventOf
<1> HIDE DEF e
<1> DEFINE ev == acc.events
<1>6. ToSet(ev) \subseteq ToSet(Append(ev, e))
  <2> HIDE DEF ev
  <2>1. ev \in Seq(E)
    BY <1>4 DEF ev
  <2>2. \A n \in DOMAIN ev : n \in DOMAIN Append(ev, e) /\ Append(ev, e)[n] = ev[n]
    BY <2>1
  <2> QED
    BY <2>2 DEF ToSet
<1> QED
  BY <1>2, <1>5, <1>6 DEF acc

\* What is reported of a history is reported of every longer one.
LEMMA DetectKeeps ==
    ASSUME NEW v \in Seq(Int), NEW w \in Seq(Int), GoesOn(v, w), NEW t \in Int, NEW l
    PROVE  ToSet(Detect(v, t, l)) \subseteq ToSet(Detect(w, t, l))
<1> DEFINE n == Len(v)
           k == Len(w) - n
           told(j) == ToSet(Scans(w, t, l)[n + j].events)
           T == {j \in 0 .. k : told(0) \subseteq told(j)}
<1>1. n \in Nat /\ k \in Nat /\ n + k = Len(w)
  BY DEF GoesOn
<1>2. 0 \in T
  <2> HIDE DEF told, k
  <2> QED
    BY <1>1
<1>3. ASSUME NEW j \in 1 .. k, j - 1 \in T PROVE j \in T
  <2>1. n + j \in 1 .. Len(w) /\ n + j - 1 = n + (j - 1)
    BY <1>1
  <2>2. told(j - 1) \subseteq told(j)
    <3> DEFINE i == n + j
    <3>1. i \in 1 .. Len(w)
      BY <2>1
    <3> HIDE DEF i
    <3>2. ToSet(Scans(w, t, l)[i - 1].events) \subseteq ToSet(Scans(w, t, l)[i].events)
      BY <3>1, ScanKeeps
    <3> QED
      BY <2>1, <3>2 DEF i
  <2> HIDE DEF told
  <2>3. told(0) \subseteq told(j - 1)
    BY <1>3
  <2> QED
    BY <2>2, <2>3
<1> HIDE DEF T, n, k
<1>4. 0 .. k \subseteq T
  BY <1>1, <1>2, <1>3, UpTo
<1>5. told(0) \subseteq told(k)
  <2>1. k \in 0 .. k
    BY <1>1
  <2>2. k \in T
    BY <1>4, <2>1
  <2> HIDE DEF told
  <2> QED
    BY <2>2 DEF T
<1>6. Scans(w, t, l)[n] = Scans(v, t, l)[n]
  BY <1>1, ScansAgree DEF n
<1>7. n + 0 = n
  BY <1>1
<1> QED
  BY <1>1, <1>5, <1>6, <1>7 DEF Detect, n

\* The flaps of a history are flaps of every longer one.
LEMMA FlapsKeep ==
    ASSUME NEW v, NEW w, Len(v) \in Nat, Len(w) \in Nat, GoesOn(v, w)
    PROVE  Flaps(v) \in Nat /\ Flaps(w) \in Nat /\ Flaps(v) <= Flaps(w)
<1> DEFINE F(x) == {i \in 2 .. Len(x) : x[i] # x[i - 1] /\ x[i] # "not_configured"}
<1>1. F(v) \subseteq F(w)
  <2> SUFFICES ASSUME NEW i \in F(v) PROVE i \in F(w)
    OBVIOUS
  <2>1. i \in 2 .. Len(w) /\ w[i] = v[i] /\ w[i - 1] = v[i - 1]
    BY DEF GoesOn
  <2> QED
    BY <2>1
<1>2. IsFiniteSet(F(w))
  <2>1. IsFiniteSet(2 .. Len(w)) /\ F(w) \subseteq 2 .. Len(w)
    BY FS_Interval
  <2> QED
    BY <2>1, FS_Subset
<1> HIDE DEF F
<1>3. /\ IsFiniteSet(F(v)) /\ Cardinality(F(v)) <= Cardinality(F(w))
      /\ Cardinality(F(v)) \in Nat /\ Cardinality(F(w)) \in Nat
  BY <1>1, <1>2, FS_Subset, FS_CardinalityType
<1> QED
  BY <1>3 DEF Flaps, F

\* The greatest value of a history.
LEMMA PeakLemma ==
    ASSUME NEW v \in Seq(Int), NEW n \in 1 .. Len(v)
    PROVE  /\ Peak(v, 1, n) \in Int
           /\ \E k \in 1 .. n : Peak(v, 1, n) = v[k]
           /\ \A i \in 1 .. n : Peak(v, 1, n) >= v[i]
<1> DEFINE Greatest(j) == \E k \in 1 .. j : \A i \in 1 .. j : v[k] >= v[i]
           T == {j \in 0 .. Len(v) : j = 0 \/ Greatest(j)}
<1>1. Len(v) \in Nat /\ \A i \in 1 .. Len(v) : v[i] \in Int
  OBVIOUS
<1>2. 0 \in T
  BY <1>1
<1>3. ASSUME NEW j \in 1 .. Len(v), j - 1 \in T PROVE j \in T
  <2>1. Greatest(j)
    <3>1. CASE j = 1
      <4>1. \A i \in 1 .. 1 : v[1] >= v[i]
        BY <1>1, <3>1
      <4> QED
        BY <3>1, <4>1
    <3>2. CASE j # 1
      <4>1. PICK k \in 1 .. j - 1 : \A i \in 1 .. j - 1 : v[k] >= v[i]
        BY <1>3, <3>2
      <4>2. CASE v[k] >= v[j]
        <5>1. k \in 1 .. j /\ \A i \in 1 .. j : v[k] >= v[i]
          BY <4>1, <4>2
        <5> QED
          BY <5>1
      <4>3. CASE ~(v[k] >= v[j])
        <5>1. \A i \in 1 .. j : v[j] >= v[i]
          BY <1>1, <4>1, <4>3
        <5> QED
          BY <5>1
      <4> QED
        BY <4>2, <4>3
    <3> QED
      BY <3>1, <3>2
  <2> HIDE DEF Greatest
  <2> QED
    BY <2>1
<1> HIDE DEF T
<1>4. 0 .. Len(v) \subseteq T
  BY <1>1, <1>2, <1>3, UpTo
<1>5. Greatest(n)
  <2>1. n \in 0 .. Len(v) /\ n # 0
    BY <1>1
  <2> HIDE DEF Greatest
  <2> QED
    BY <1>4, <2>1 DEF T
<1> DEFINE S == {v[i] : i \in 1 .. n}
<1>6. \E x \in S : \A y \in S : x >= y
  BY <1>5
<1>7. Max(S) \in S /\ \A y \in S : Max(S) >= y
  <2> HIDE DEF S
  <2> QED
    BY <1>6 DEF Max
<1>8. Peak(v, 1, n) = Max(S)
  BY DEF Peak
<1> DEFINE m == Max(S)
<1>9. m \in S /\ \A y \in S : m >= y
  BY <1>7
<1> HIDE DEF m
<1>10. PICK k \in 1 .. n : m = v[k]
  BY <1>9
<1>11. \A i \in 1 .. n : m >= v[i]
  BY <1>9
<1>12. m \in Int
  BY <1>1, <1>10
<1> HIDE DEF S
<1> QED
  BY <1>8, <1>10, <1>11, <1>12 DEF m

LEMMA PeakGrows ==
    ASSUME NEW v \in Seq(Int), NEW w \in Seq(Int), GoesOn(v, w), Len(v) > 0
    PROVE  /\ Peak(v, 1, Len(v)) \in Int /\ Peak(w, 1, Len(w)) \in Int
           /\ Peak(v, 1, Len(v)) <= Peak(w, 1, Len(w))
<1>1. Len(v) \in 1 .. Len(v) /\ Len(w) \in 1 .. Len(w) /\ Len(v) <= Len(w) /\ Len(w) \in Nat
  BY DEF GoesOn
<1>2. Peak(v, 1, Len(v)) \in Int /\ Peak(w, 1, Len(w)) \in Int
  BY <1>1, PeakLemma
<1>3. PICK k \in 1 .. Len(v) : Peak(v, 1, Len(v)) = v[k]
  BY <1>1, PeakLemma
<1>4. k \in 1 .. Len(w) /\ w[k] = v[k]
  BY <1>1 DEF GoesOn
<1>5. Peak(w, 1, Len(w)) >= w[k]
  BY <1>1, <1>4, PeakLemma
<1> QED
  BY <1>2, <1>3, <1>4, <1>5

-----------------------------------------------------------------------------
(* What a report says. *)

\* The samples that collectors record, as far as a report reads them.
Samples(states) ==
    [ latency_ms : Int, packet_loss_percent : Int, signal_quality : Int, modem_temperature_c : Int,
      link_state : states, vpn_state : states, bgp_state : states ]

LEMMA ColumnTyped ==
    ASSUME NEW R, NEW f, NEW S, \A r \in R : r[f] \in S, NEW h \in Seq(R)
    PROVE  Column(h, f) \in Seq(S) /\ Len(Column(h, f)) = Len(h)
<1> DEFINE n == Len(h)
<1>1. n \in Nat /\ DOMAIN h = 1 .. n /\ \A i \in 1 .. n : h[i] \in R
  OBVIOUS
<1> HIDE DEF n
<1>2. Column(h, f) = [i \in 1 .. n |-> h[i][f]]
  BY <1>1 DEF Column
<1>3. \A i \in 1 .. n : h[i][f] \in S
  BY <1>1
<1> DEFINE c == [i \in 1 .. n |-> h[i][f]]
<1>4. c \in Seq(S) /\ Len(c) = n
  BY <1>1, <1>3
<1> QED
  BY <1>2, <1>4 DEF n

LEMMA ColumnGrows ==
    ASSUME NEW R, NEW f, NEW h \in Seq(R), NEW k \in Seq(R), GoesOn(h, k)
    PROVE  GoesOn(Column(h, f), Column(k, f))
<1> DEFINE S == {r[f] : r \in R}
<1>1. Len(Column(h, f)) = Len(h) /\ Len(Column(k, f)) = Len(k)
  <2>1. \A r \in R : r[f] \in S
    OBVIOUS
  <2> HIDE DEF S
  <2>2. Column(h, f) \in Seq(S) /\ Column(k, f) \in Seq(S)
    BY <2>1, ColumnTyped
  <2> QED
    BY <2>1, <2>2, ColumnTyped
<1>2. \A i \in 1 .. Len(h) : Column(k, f)[i] = Column(h, f)[i]
  <2> SUFFICES ASSUME NEW i \in 1 .. Len(h) PROVE Column(k, f)[i] = Column(h, f)[i]
    OBVIOUS
  <2>1. i \in DOMAIN h /\ i \in DOMAIN k /\ k[i] = h[i]
    BY DEF GoesOn
  <2> QED
    BY <2>1 DEF Column
<1> QED
  BY <1>1, <1>2 DEF GoesOn

LEMMA DetectTyped ==
    ASSUME NEW v \in Seq(Int), NEW t \in Int, NEW l
    PROVE  Detect(v, t, l) \in Seq(EventsOf(v, l))
<1>1. Len(v) \in 0 .. Len(v)
  OBVIOUS
<1>2. ScanInv(v, t, l, Len(v), Scans(v, t, l)[Len(v)])
  BY <1>1, ScanInvariance
<1> QED
  BY <1>2 DEF ScanInv, Detect

\* A report lists the events of three columns.
Join(a, b) == a \o b

LEMMA JoinTyped ==
    ASSUME NEW A, NEW B, NEW a \in Seq(A), NEW b \in Seq(B)
    PROVE  Join(a, b) \in Seq(A \cup B)
<1> DEFINE C == A \cup B
<1>1. a \in Seq(C) /\ b \in Seq(C)
  OBVIOUS
<1> HIDE DEF C
<1>2. a \o b \in Seq(C)
  BY <1>1
<1> QED
  BY <1>2 DEF C, Join

LEMMA JoinElements ==
    ASSUME NEW A, NEW B, NEW a \in Seq(A), NEW b \in Seq(B)
    PROVE  ToSet(Join(a, b)) = ToSet(a) \cup ToSet(b)
<1>1. Len(a) \in Nat /\ Len(b) \in Nat /\ DOMAIN a = 1 .. Len(a) /\ DOMAIN b = 1 .. Len(b)
  OBVIOUS
<1> DEFINE C == A \cup B
<1>2. a \in Seq(C) /\ b \in Seq(C)
  OBVIOUS
<1> HIDE DEF C
<1> DEFINE j == a \o b
<1>3. /\ j \in Seq(C) /\ DOMAIN j = 1 .. Len(a) + Len(b)
      /\ \A i \in 1 .. Len(a) + Len(b) : j[i] = IF i <= Len(a) THEN a[i] ELSE b[i - Len(a)]
  BY <1>2
<1> HIDE DEF j
<1>4. ToSet(j) \subseteq ToSet(a) \cup ToSet(b)
  <2> SUFFICES ASSUME NEW i \in 1 .. Len(a) + Len(b) PROVE j[i] \in ToSet(a) \cup ToSet(b)
    BY <1>3 DEF ToSet
  <2>1. CASE i <= Len(a)
    <3>1. j[i] = a[i] /\ i \in DOMAIN a
      BY <1>1, <1>3, <2>1
    <3> QED
      BY <3>1 DEF ToSet
  <2>2. CASE ~(i <= Len(a))
    <3>1. j[i] = b[i - Len(a)] /\ i - Len(a) \in DOMAIN b
      BY <1>1, <1>3, <2>2
    <3> QED
      BY <3>1 DEF ToSet
  <2> QED
    BY <2>1, <2>2
<1>5. ToSet(a) \subseteq ToSet(j)
  <2>1. \A i \in DOMAIN a : i \in DOMAIN j /\ j[i] = a[i]
    BY <1>1, <1>3
  <2> QED
    BY <2>1 DEF ToSet
<1>6. ToSet(b) \subseteq ToSet(j)
  <2> SUFFICES ASSUME NEW i \in DOMAIN b PROVE b[i] \in ToSet(j)
    BY DEF ToSet
  <2>1. Len(a) + i \in DOMAIN j /\ j[Len(a) + i] = b[i]
    BY <1>1, <1>3
  <2> QED
    BY <2>1 DEF ToSet
<1> QED
  BY <1>4, <1>5, <1>6 DEF j, Join
\* The events of a report, and the fields that ReportsStand compares.
ReportedEvents(h) ==
    ToSet(Detect(Column(h, "latency_ms"), 100, Levels(100, 200, 400, 600)))
      \cup ToSet(Detect(Column(h, "packet_loss_percent"), 10, Levels(10, 50, 100, 500)))
      \cup ToSet(Detect(Column(h, "signal_quality"), 7, Levels(7, 5, 3, 1)))

LEMMA ReportLemma ==
    ASSUME NEW S, NEW h \in Seq(Samples(S))
    PROVE  /\ ToSet(Report(h).events) = ReportedEvents(h)
           /\ Report(h).vpn_flaps = Flaps(Column(h, "vpn_state"))
           /\ Report(h).bgp_flaps = Flaps(Column(h, "bgp_state"))
           /\ Report(h).alerts \subseteq {"p95", "loss", "vpn", "bgp", "heat"}
           /\ "vpn" \in Report(h).alerts <=> Flaps(Column(h, "vpn_state")) > 3
           /\ "bgp" \in Report(h).alerts <=> Flaps(Column(h, "bgp_state")) > 2
           /\ "heat" \in Report(h).alerts <=> Peak(Column(h, "modem_temperature_c"), 1, Len(h)) > 750
<1> DEFINE la == Detect(Column(h, "latency_ms"), 100, Levels(100, 200, 400, 600))
           lo == Detect(Column(h, "packet_loss_percent"), 10, Levels(10, 50, 100, 500))
           si == Detect(Column(h, "signal_quality"), 7, Levels(7, 5, 3, 1))
<1>1. /\ Column(h, "latency_ms") \in Seq(Int) /\ Column(h, "packet_loss_percent") \in Seq(Int)
      /\ Column(h, "signal_quality") \in Seq(Int)
  <2>1. \A r \in Samples(S) : r["latency_ms"] \in Int /\ r["packet_loss_percent"] \in Int /\ r["signal_quality"] \in Int
    BY DEF Samples
  <2> QED
    BY <2>1, ColumnTyped
<1>2. ToSet((la \o lo) \o si) = (ToSet(la) \cup ToSet(lo)) \cup ToSet(si)
  <2>1. \E A, B, C : la \in Seq(A) /\ lo \in Seq(B) /\ si \in Seq(C)
    <3>1. \E A : la \in Seq(A)
      BY <1>1, DetectTyped
    <3>2. \E B : lo \in Seq(B)
      BY <1>1, DetectTyped
    <3>3. \E C : si \in Seq(C)
      BY <1>1, DetectTyped
    <3> QED
      BY <3>1, <3>2, <3>3
  <2> HIDE DEF la, lo, si
  <2>2. PICK A, B, C : la \in Seq(A) /\ lo \in Seq(B) /\ si \in Seq(C)
    BY <2>1
  <2>3. Join(la, lo) \in Seq(A \cup B)
    BY <2>2, JoinTyped
  <2>4. ToSet(Join(la, lo)) = ToSet(la) \cup ToSet(lo)
    BY <2>2, JoinElements
  <2>5. ToSet(Join(Join(la, lo), si)) = ToSet(Join(la, lo)) \cup ToSet(si)
    BY <2>2, <2>3, JoinElements
  <2>6. ToSet((la \o lo) \o si) = ToSet(Join(Join(la, lo), si))
    BY DEF Join
  <2> QED
    BY <2>4, <2>5, <2>6
<1>3. /\ Report(h).events = (la \o lo) \o si
      /\ Report(h).vpn_flaps = Flaps(Column(h, "vpn_state"))
      /\ Report(h).bgp_flaps = Flaps(Column(h, "bgp_state"))
  BY DEF Report
<1> DEFINE raised(a) ==
      CASE a = "p95"  -> Percentile(Column(h, "latency_ms"), 95) > 20000
        [] a = "loss" -> Sum(Column(h, "packet_loss_percent")) > 10 * Len(h)
        [] a = "vpn"  -> Flaps(Column(h, "vpn_state")) > 3
        [] a = "bgp"  -> Flaps(Column(h, "bgp_state")) > 2
        [] a = "heat" -> Peak(Column(h, "modem_temperature_c"), 1, Len(h)) > 750
<1>4. Report(h).alerts = {a \in {"p95", "loss", "vpn", "bgp", "heat"} : raised(a)}
  <2> DEFINE up == Cardinality({i \in DOMAIN h : h[i].link_state = "up"})
             alerts == {a \in {"p95", "loss", "vpn", "bgp", "heat"} : raised(a)}
  <2>1. Report(h) = [ up |-> up, events |-> (la \o lo) \o si, vpn_flaps |-> Flaps(Column(h, "vpn_state")),
                      bgp_flaps |-> Flaps(Column(h, "bgp_state")), alerts |-> alerts ]
    BY DEF Report
  <2> HIDE DEF up, alerts, la, lo, si
  <2>2. Report(h).alerts = alerts
    BY <2>1
  <2> QED
    BY <2>2 DEF alerts
<1>5. /\ raised("vpn") <=> Flaps(Column(h, "vpn_state")) > 3
      /\ raised("bgp") <=> Flaps(Column(h, "bgp_state")) > 2
      /\ raised("heat") <=> Peak(Column(h, "modem_temperature_c"), 1, Len(h)) > 750
  OBVIOUS
<1> HIDE DEF raised, la, lo, si
<1>6. ReportedEvents(h) = (ToSet(la) \cup ToSet(lo)) \cup ToSet(si)
  BY DEF ReportedEvents, la, lo, si
<1> QED
  BY <1>2, <1>3, <1>4, <1>5, <1>6

\* What ReportsStand says of a history and a longer one.
Stands(h, k) ==
    LET was == Report(h)  is == Report(k) IN
    /\ ToSet(was.events) \subseteq ToSet(is.events)
    /\ was.vpn_flaps <= is.vpn_flaps /\ was.bgp_flaps <= is.bgp_flaps
    /\ was.alerts \ {"p95", "loss"} \subseteq is.alerts

\* Whatever a history was and however it goes on, what its report says stands:
\* events, flaps, and the alerts that count flaps or look at a maximum
\* (telemetry_analyzer.py:91-122, 148-153, 193-204).
THEOREM ReportsGrow ==
    ASSUME NEW S, NEW h \in Seq(Samples(S)), NEW k \in Seq(Samples(S)), h # <<>>, GoesOn(h, k)
    PROVE  Stands(h, k)
<1>1. \A f : GoesOn(Column(h, f), Column(k, f))
  BY ColumnGrows
<1>2. ReportedEvents(h) \subseteq ReportedEvents(k)
  <2>1. ASSUME NEW f \in {"latency_ms", "packet_loss_percent", "signal_quality"}, NEW t \in Int, NEW l
        PROVE  ToSet(Detect(Column(h, f), t, l)) \subseteq ToSet(Detect(Column(k, f), t, l))
    <3>1. \A r \in Samples(S) : r[f] \in Int
      BY DEF Samples
    <3>2. Column(h, f) \in Seq(Int) /\ Column(k, f) \in Seq(Int)
      BY <3>1, ColumnTyped
    <3> QED
      BY <1>1, <3>2, DetectKeeps
  <2> DEFINE D(c, f, t, l) == ToSet(Detect(Column(c, f), t, l))
  <2>2. /\ D(h, "latency_ms", 100, Levels(100, 200, 400, 600))
             \subseteq D(k, "latency_ms", 100, Levels(100, 200, 400, 600))
        /\ D(h, "packet_loss_percent", 10, Levels(10, 50, 100, 500))
             \subseteq D(k, "packet_loss_percent", 10, Levels(10, 50, 100, 500))
        /\ D(h, "signal_quality", 7, Levels(7, 5, 3, 1)) \subseteq D(k, "signal_quality", 7, Levels(7, 5, 3, 1))
    BY <2>1
  <2>3. \A c : ReportedEvents(c) = D(c, "latency_ms", 100, Levels(100, 200, 400, 600))
                   \cup D(c, "packet_loss_percent", 10, Levels(10, 50, 100, 500))
                   \cup D(c, "signal_quality", 7, Levels(7, 5, 3, 1))
    BY DEF ReportedEvents
  <2> HIDE DEF D
  <2> QED
    BY <2>2, <2>3
<1>3. \A f : /\ Flaps(Column(h, f)) \in Nat /\ Flaps(Column(k, f)) \in Nat
             /\ Flaps(Column(h, f)) <= Flaps(Column(k, f))
  <2> SUFFICES ASSUME NEW f
               PROVE  /\ Flaps(Column(h, f)) \in Nat /\ Flaps(Column(k, f)) \in Nat
                      /\ Flaps(Column(h, f)) <= Flaps(Column(k, f))
    OBVIOUS
  <2> DEFINE V == {r[f] : r \in Samples(S)}
  <2>1. \A r \in Samples(S) : r[f] \in V
    OBVIOUS
  <2> HIDE DEF V
  <2>2. Column(h, f) \in Seq(V) /\ Column(k, f) \in Seq(V)
    BY <2>1, ColumnTyped
  <2>3. Len(Column(h, f)) \in Nat /\ Len(Column(k, f)) \in Nat
    BY <2>2
  <2> QED
    BY <1>1, <2>3, FlapsKeep
<1>4. LET f == "modem_temperature_c" IN
      /\ Peak(Column(h, f), 1, Len(h)) \in Int /\ Peak(Column(k, f), 1, Len(k)) \in Int
      /\ Peak(Column(h, f), 1, Len(h)) <= Peak(Column(k, f), 1, Len(k))
  <2> DEFINE f == "modem_temperature_c"
  <2>1. \A r \in Samples(S) : r[f] \in Int
    BY DEF Samples
  <2> HIDE DEF f
  <2>2. /\ Column(h, f) \in Seq(Int) /\ Column(k, f) \in Seq(Int)
        /\ Len(Column(h, f)) = Len(h) /\ Len(Column(k, f)) = Len(k)
    BY <2>1, ColumnTyped
  <2>3. Len(h) > 0
    OBVIOUS
  <2> QED
    BY <1>1, <2>2, <2>3, PeakGrows DEF f
<1>5. ToSet(Report(h).events) \subseteq ToSet(Report(k).events)
  BY <1>2, ReportLemma
<1>6. Report(h).vpn_flaps <= Report(k).vpn_flaps /\ Report(h).bgp_flaps <= Report(k).bgp_flaps
  BY <1>3, ReportLemma
<1>7. \A a \in {"vpn", "bgp", "heat"} : a \in Report(h).alerts => a \in Report(k).alerts
  <2>1. "vpn" \in Report(h).alerts => "vpn" \in Report(k).alerts
    BY <1>3, ReportLemma
  <2>2. "bgp" \in Report(h).alerts => "bgp" \in Report(k).alerts
    BY <1>3, ReportLemma
  <2>3. "heat" \in Report(h).alerts => "heat" \in Report(k).alerts
    BY <1>4, ReportLemma
  <2> QED
    BY <2>1, <2>2, <2>3
<1>8. Report(h).alerts \ {"p95", "loss"} \subseteq {"vpn", "bgp", "heat"}
  BY ReportLemma
<1> QED
  BY <1>5, <1>6, <1>7, <1>8 DEF Stands

-----------------------------------------------------------------------------
(* The history of the instance. *)

States == {"up", "degraded", "down", "not_configured", "established", "idle", "active"}

\* A history of samples of the weathers.
SeriesInv == series \in Seq({Weather[w] : w \in DOMAIN Weather})

LEMMA WeatherTyped == {Weather[w] : w \in DOMAIN Weather} \subseteq Samples(States)
<1>1. DOMAIN Weather = {"clear", "bound", "rain"}
  BY DEF Weather
<1>2. /\ Weather["clear"] = Seen(45, 1, 9, "up", "up", "established", 600)
      /\ Weather["bound"] = Seen(201, 10, 7, "up", "not_configured", "idle", 750)
      /\ Weather["rain"]  = Seen(700, 100, 1, "degraded", "down", "active", 751)
  BY DEF Weather
<1>3. /\ Seen(45, 1, 9, "up", "up", "established", 600) \in Samples(States)
      /\ Seen(201, 10, 7, "up", "not_configured", "idle", 750) \in Samples(States)
      /\ Seen(700, 100, 1, "degraded", "down", "active", 751) \in Samples(States)
  BY DEF Seen, Samples, States
<1> QED
  BY <1>1, <1>2, <1>3

\* In every step the history stays or goes on by one sample.
LEMMA SeriesStep ==
    ASSUME SeriesInv, [MCNext]_<<vars, system, series>>
    PROVE  /\ SeriesInv'
           /\ series' \in Seq(Samples(States)) /\ series \in Seq(Samples(States))
           /\ series' # series => GoesOn(series, series')
<1> DEFINE R == {Weather[w] : w \in DOMAIN Weather}
<1>1. series' = series \/ \E w \in DOMAIN Weather : series' = Append(series, Weather[w])
  BY DEF MCNext, Worsen, Observe
<1>2. \A w \in DOMAIN Weather : Weather[w] \in R
  OBVIOUS
<1>3. series \in Seq(R)
  BY DEF SeriesInv
<1>4. R \subseteq Samples(States)
  BY WeatherTyped
<1> HIDE DEF R
<1>5. series' = series \/ \E r \in R : series' = Append(series, r)
  BY <1>1, <1>2
<1>6. series' \in Seq(R)
  BY <1>3, <1>5
<1>7. series' # series => GoesOn(series, series')
  BY <1>3, <1>5 DEF GoesOn
<1> QED
  BY <1>3, <1>4, <1>6, <1>7 DEF SeriesInv, R

LEMMA SeriesInvariance == MCSpec => []SeriesInv
<1>1. MCInit => SeriesInv
  BY DEF MCInit, SeriesInv
<1>2. SeriesInv /\ [MCNext]_<<vars, system, series>> => SeriesInv'
  BY SeriesStep
<1> QED
  BY <1>1, <1>2, PTL DEF MCSpec

\* The degradation events of a history are exactly its windows above the
\* threshold (telemetry_analyzer.py:91-122).
THEOREM EventsWindows == MCSpec => []EventsAreWindows
<1>1. SeriesInv => EventsAreWindows
  <2> SUFFICES ASSUME SeriesInv PROVE EventsAreWindows
    OBVIOUS
  <2> DEFINE loss == Column(series, "packet_loss_percent")
             levels == Levels(10, 50, 100, 500)
  <2>1. loss \in Seq(Int)
    <3>1. \A r \in Samples(States) : r["packet_loss_percent"] \in Int
      BY DEF Samples, States
    <3>2. series \in Seq(Samples(States))
      BY WeatherTyped DEF SeriesInv
    <3> QED
      BY <3>1, <3>2, ColumnTyped
  <2> DEFINE mine == {w \in (1 .. Len(loss)) \X (1 .. Len(loss)) : Window(loss, 10, w[1], w[2])}
             over(a, b) == \A i \in a..b : loss[i] > 10
             windows == {w \in (1..Len(loss)) \X (1..Len(loss)) :
                      /\ w[1] < w[2] /\ w[2] < Len(loss) /\ over(w[1], w[2])
                      /\ loss[w[2] + 1] <= 10
                      /\ w[1] > 1 => loss[w[1] - 1] <= 10}
             events == Detect(loss, 10, levels)
  <2>2. /\ {<<events[i].first, events[i].last>> : i \in DOMAIN events} = mine
        /\ Len(events) = Cardinality(mine)
    <3>1. 10 \in Int
      OBVIOUS
    <3> HIDE DEF loss, levels
    <3> QED
      BY <2>1, <3>1, DetectsWindows
  <2>3. EventsAreWindows <=> /\ {<<events[i].first, events[i].last>> : i \in DOMAIN events} = windows
                             /\ Len(events) = Cardinality(windows)
    BY Zenon DEF EventsAreWindows
  <2> HIDE DEF loss, events, levels
  <2>4. mine = windows
    BY DEF Window, Above
  <2> QED
    BY <2>2, <2>3, <2>4
<1> QED
  BY <1>1, SeriesInvariance, PTL

\* What a report says of a history stands when the history goes on
\* (telemetry_analyzer.py:91-122, 148-153, 193-204).
THEOREM ReportsStanding == MCSpec => ReportsStand
<1>1. SeriesInv /\ [MCNext]_<<vars, system, series>>
        => [series # <<>> /\ series' # series => Stands(series, series')]_<<vars, system, series>>
  <2> SUFFICES ASSUME SeriesInv, [MCNext]_<<vars, system, series>>, series # <<>>, series' # series
               PROVE  Stands(series, series')
    OBVIOUS
  <2> QED
    BY SeriesStep, ReportsGrow
<1> QED
  BY <1>1, SeriesInvariance, PTL DEF MCSpec, ReportsStand, Stands
=============================================================================
