------------------------------ MODULE SwayProofs ------------------------------
(***************************************************************************)
(* Proofs about Sway for every set of names a compositor may listen at,    *)
(* every threshold and every number of ticks in a second: a late reply is  *)
(* never taken for a new one, a compositor that answers is never left, and *)
(* nobody is called idle for longer than since the last input.             *)
(***************************************************************************)
EXTENDS Sway, FiniteSetTheorems, SequenceTheorems, WellFoundedInduction, TLAPS

-----------------------------------------------------------------------------
(* Numbers, ages and sequences.                                            *)

\* The constants are natural numbers.
LEMMA Numbers ==
    /\ Paths \subseteq Nat /\ 0 \notin Paths
    /\ PerSecond \in Nat /\ PerSecond > 0 /\ Threshold \in Nat /\ Threshold > 0
    /\ MaxPipe \in Nat /\ Cap \in Nat
<1>1. \A n \in {PerSecond, Threshold, MaxPipe} : n \in Nat /\ n # 0
  BY SwayAssumption
<1>2. PerSecond > 0 /\ Threshold > 0
  BY <1>1
<1>3. QED  BY <1>1, <1>2, SwayAssumption

\* Every set of natural numbers that is not empty has a least element.
LEMMA Least ==
    ASSUME NEW S \in SUBSET Nat, S # {}
    PROVE  Min(S) \in S /\ \A y \in S : Min(S) <= y
<1> DEFINE Below == OpToRel(<, Nat)
<1>1. IsWellFoundedOn(Below, Nat)
  BY NatLessThanWellFounded
<1>2. \A x, y \in Nat : x < y => <<x, y>> \in Below
  BY DEF OpToRel
<1> HIDE DEF Below
<1>3. \E x \in S : \A y \in S : ~ (<<y, x>> \in Below)
  BY <1>1, WFMin
<1>4. PICK x \in S : \A y \in S : ~ (<<y, x>> \in Below)
  BY <1>3
<1>5. \A y \in S : x <= y
  <2>1. \A y \in S : ~ (y < x)
    BY <1>2, <1>4
  <2>2. QED  BY <2>1
<1>6. QED  BY <1>5 DEF Min

\* The smaller of two numbers, and the larger.
LEMMA Extremes ==
    ASSUME NEW m \in Int, NEW n \in Int
    PROVE  /\ Min({m, n}) = IF m <= n THEN m ELSE n
           /\ Max({m, n}) = IF m <= n THEN n ELSE m
<1>1. \E x \in {m, n} : \A y \in {m, n} : x >= y
  OBVIOUS
<1>2. \E x \in {m, n} : \A y \in {m, n} : x <= y
  OBVIOUS
<1>3. QED  BY <1>1, <1>2 DEF Min, Max

\* Ages grow up to their bound and keep their order.
LEMMA Ages ==
    /\ older(None) = None
    /\ \A m \in Nat : older(m) \in Nat /\ older(m) <= m + 1 /\ older(m) # None
    /\ \A m \in 0..Cap : older(m) \in 0..Cap /\ older(m) >= m
    /\ \A m \in Nat, n \in 0..Cap : m <= n => older(m) <= older(n) /\ m <= older(n)
<1>1. older(None) = None
  BY DEF older
<1>2. \A m \in Nat : older(m) = IF m + 1 <= Cap THEN m + 1 ELSE Cap
  <2> SUFFICES ASSUME NEW m \in Nat
               PROVE  older(m) = IF m + 1 <= Cap THEN m + 1 ELSE Cap
    OBVIOUS
  <2>1. m # None /\ m + 1 \in Int /\ Cap \in Int
    BY Numbers DEF None
  <2>2. older(m) = Min({m + 1, Cap})
    BY <2>1 DEF older
  <2> DEFINE k == m + 1
  <2> HIDE DEF k
  <2>3. k \in Int /\ Cap \in Int
    BY <2>1 DEF k
  <2>4. Min({k, Cap}) = IF k <= Cap THEN k ELSE Cap
    BY <2>3, Extremes
  <2>5. QED  BY <2>2, <2>4 DEF k
<1>3. QED  BY <1>1, <1>2, Numbers DEF None

\* The timeout swayidle is started with is a whole number of seconds, and none shorter
\* than the threshold.
LEMMA Timeout == effectiveTimeout \in Nat /\ effectiveTimeout >= Threshold
<1> DEFINE n == Threshold + PerSecond - 1
           d == n \div PerSecond
<1>1. n \in Nat /\ PerSecond \in Nat /\ PerSecond > 0
  BY Numbers
<1>2. \A a, b \in Nat : b > 0 => a \div b \in Nat /\ (a \div b) * b <= a /\ a < (a \div b) * b + b
  OBVIOUS
<1>3. d \in Nat /\ n < d * PerSecond + PerSecond
  BY <1>1, <1>2
<1> HIDE DEF d
<1>4. d * PerSecond \in Nat
  <2>1. \A a, b \in Nat : a * b \in Nat
    OBVIOUS
  <2>2. QED  BY <1>1, <1>3, <2>1
<1> DEFINE t == d * PerSecond
<1> HIDE DEF t
<1>5. t \in Nat /\ Threshold + PerSecond - 1 < t + PerSecond
  BY <1>3, <1>4 DEF t
<1>6. t >= Threshold
  BY <1>5, Numbers
<1>7. QED  BY <1>5, <1>6 DEF effectiveTimeout, t, d

\* The only member of a set that has only one, or 0.
LEMMA OnlyOne ==
    ASSUME NEW S, IsFiniteSet(S)
    PROVE  exactlyOne(S) = 0 \/ S = {exactlyOne(S)}
<1>1. CASE Cardinality(S) = 1
  <2>1. S # {}
    BY <1>1, FS_EmptySet
  <2>2. PICK x \in S : TRUE
    BY <2>1
  <2>3. IsFiniteSet(S \ {x}) /\ Cardinality(S \ {x}) = 0
    BY <1>1, <2>2, FS_RemoveElement
  <2>4. S \ {x} = {}
    BY <2>3, FS_EmptySet
  <2>5. S = {x}
    BY <2>2, <2>4
  <2>6. exactlyOne(S) = CHOOSE p \in S : TRUE
    BY <1>1 DEF exactlyOne
  <2>7. QED  BY <2>5, <2>6
<1>2. CASE Cardinality(S) # 1
  BY <1>2 DEF exactlyOne
<1>3. QED  BY <1>1, <1>2

\* A mark that joins the pipe is its last; when the first has left, the last is still there.
LEMMA Piped ==
    ASSUME pipe \in Seq(Marks)
    PROVE  /\ \A m \in Marks :
                LET q == Append(pipe, m) IN
                q \in Seq(Marks) /\ q # <<>> /\ q[Len(q)] = m /\ m \in Range(q)
                  /\ \A x \in Range(pipe) : x \in Range(q)
           /\ pipe # <<>> =>
                /\ Head(pipe) \in Marks /\ Tail(pipe) \in Seq(Marks)
                /\ Tail(pipe) = <<>> => Head(pipe) = pipe[Len(pipe)]
                /\ Tail(pipe) # <<>> =>
                     /\ Tail(pipe)[Len(Tail(pipe))] = pipe[Len(pipe)]
                     /\ pipe[Len(pipe)] \in Range(Tail(pipe))
<1> DEFINE n == Len(pipe)
<1>1. n \in Nat /\ DOMAIN pipe = 1..n /\ \A i \in 1..n : pipe[i] \in Marks
  OBVIOUS
<1>2. ASSUME NEW m \in Marks
      PROVE  LET q == Append(pipe, m) IN
             q \in Seq(Marks) /\ q # <<>> /\ q[Len(q)] = m /\ m \in Range(q)
               /\ \A x \in Range(pipe) : x \in Range(q)
  <2> DEFINE q == Append(pipe, m)
  <2>1. q \in Seq(Marks) /\ Len(q) = n + 1 /\ DOMAIN q = 1..(n + 1) /\ q[n + 1] = m
          /\ \A i \in 1..n : q[i] = pipe[i]
    BY <1>1
  <2>2. q # <<>>
    BY <1>1, <2>1
  <2> HIDE DEF q, n
  <2>3. m \in Range(q)
    <3>1. n + 1 \in 1..(n + 1)
      BY <1>1
    <3>2. QED  BY <2>1, <3>1 DEF Range
  <2>4. \A x \in Range(pipe) : x \in Range(q)
    <3> SUFFICES ASSUME NEW i \in 1..n PROVE pipe[i] \in Range(q)
      BY <1>1 DEF Range
    <3>1. i \in 1..(n + 1)
      BY <1>1
    <3>2. QED  BY <2>1, <3>1 DEF Range
  <2>5. QED  BY <2>1, <2>2, <2>3, <2>4 DEF q
<1>3. ASSUME pipe # <<>>
      PROVE  /\ Head(pipe) \in Marks /\ Tail(pipe) \in Seq(Marks)
             /\ Tail(pipe) = <<>> => Head(pipe) = pipe[Len(pipe)]
             /\ Tail(pipe) # <<>> =>
                  /\ Tail(pipe)[Len(Tail(pipe))] = pipe[Len(pipe)]
                  /\ pipe[Len(pipe)] \in Range(Tail(pipe))
  <2> DEFINE s == Tail(pipe)
  <2>1. n > 0 /\ s \in Seq(Marks) /\ Len(s) = n - 1 /\ DOMAIN s = 1..(n - 1)
          /\ \A i \in 1..(n - 1) : s[i] = pipe[i + 1]
    BY <1>1, <1>3
  <2>2. Head(pipe) = pipe[1] /\ Head(pipe) \in Marks
    BY <1>3
  <2>3. Len(<<>>) = 0
    OBVIOUS
  <2>4. s # <<>> => Len(s) # 0
    BY <2>1
  <2> HIDE DEF s, n
  <2>5. s = <<>> => n = 1
    BY <1>1, <2>1, <2>3
  <2>6. s # <<>> => n - 1 \in 1..(n - 1) /\ s[n - 1] = pipe[n]
    BY <1>1, <2>1, <2>4
  <2>7. s # <<>> => pipe[n] \in Range(s)
    BY <2>1, <2>6 DEF Range
  <2>8. QED  BY <2>1, <2>2, <2>5, <2>6, <2>7 DEF s, n
<1>4. QED  BY <1>2, <1>3
-----------------------------------------------------------------------------
(* Every action keeps the invariant.                                       *)

\* A scan that begins, ends or goes on unmoved.
LEMMA ScanMoves ==
    ASSUME TypeInv, ScanInv, live' = live, discover \/ scan' = NoScan \/ scan' = scan
    PROVE  /\ scan' \in [todo : SUBSET Paths, found : SUBSET Paths, steady : SUBSET Paths]
           /\ ScanInv'
<1>1. IsFiniteSet({}) /\ live \subseteq Paths
  BY FS_EmptySet DEF TypeInv
<1>2. CASE discover
  <2>1. scan' = [todo |-> Paths, found |-> {}, steady |-> live]
    BY <1>2 DEF discover
  <2>2. QED  BY <1>1, <2>1 DEF ScanInv
<1>3. CASE scan' = NoScan
  <2>1. scan' = [todo |-> {}, found |-> {}, steady |-> {}]
    BY <1>3 DEF NoScan
  <2>2. QED  BY <1>1, <2>1 DEF ScanInv
<1>4. CASE scan' = scan
  BY <1>4 DEF TypeInv, ScanInv
<1>5. QED  BY <1>2, <1>3, <1>4

\* The invariant holds at the start.
LEMMA InitHolds == Init => SwayInv
<1> SUFFICES ASSUME Init PROVE SwayInv
  OBVIOUS
<1>1. TypeInv
  <2>1. 0 \in 0..Cap
    BY Numbers
  <2>2. <<>> \in Seq(Marks)
    OBVIOUS
  <2>3. child \in [on : Displays, alive : BOOLEAN, timer : 0..Cap, notified : BOOLEAN]
    BY <2>1 DEF Init, NoChild, Displays
  <2>4. asked \in [state : {"none", "usable", "read"}, age : Nat, excused : BOOLEAN]
    BY DEF Init, NotAsked
  <2>5. conn \in [path : Displays, up : BOOLEAN, unread : Nat]
    BY DEF Init, NoConn, Displays
  <2>6. scan \in [todo : SUBSET Paths, found : SUBSET Paths, steady : SUBSET Paths]
    BY DEF Init, NoScan
  <2>7. QED  BY <2>1, <2>2, <2>3, <2>4, <2>5, <2>6 DEF Init, TypeInv, Displays
<1>2. ScanInv
  BY FS_EmptySet DEF Init, ScanInv, NoScan
<1>3. WindowInv
  BY DEF Init, WindowInv, NoConn
<1>4. ChildInv
  BY DEF Init, ChildInv, NoChild
<1>5. IdleTrue
  BY DEF Init, IdleTrue, NotAsked
<1>6. QED  BY <1>1, <1>2, <1>3, <1>4, <1>5 DEF SwayInv

\* A compositor that goes takes its connections and its swayidle with it.
LEMMA GoneKeeps ==
    ASSUME SwayInv, NEW p \in Paths, gone(p),
           session' = session \/ (session = p /\ session' = 0),
           UNCHANGED <<watch, stopping, env, call, socketPath, answer, quiet, sup, pipe, running,
                       idleAge, asked>>
    PROVE  SwayInv'
<1>0. TypeInv /\ ScanInv /\ WindowInv /\ ChildInv /\ IdleTrue
  BY DEF SwayInv
<1>1. /\ live' = live \ {p}
      /\ scan' = [scan EXCEPT !.steady = @ \ {p}]
      /\ conn' = IF conn.path = p THEN [conn EXCEPT !.up = FALSE] ELSE conn
      /\ child' = IF child.on = p THEN [child EXCEPT !.alive = FALSE] ELSE child
  BY DEF gone
<1>2. /\ scan \in [todo : SUBSET Paths, found : SUBSET Paths, steady : SUBSET Paths]
      /\ conn \in [path : Displays, up : BOOLEAN, unread : Nat]
      /\ child \in [on : Displays, alive : BOOLEAN, timer : 0..Cap, notified : BOOLEAN]
      /\ live \subseteq Paths /\ session \in Displays
  BY <1>0 DEF TypeInv
<1>3. /\ scan'.todo = scan.todo /\ scan'.found = scan.found /\ scan'.steady = scan.steady \ {p}
      /\ scan' \in [todo : SUBSET Paths, found : SUBSET Paths, steady : SUBSET Paths]
  BY <1>1, <1>2
<1>4. /\ conn' \in [path : Displays, up : BOOLEAN, unread : Nat] /\ conn'.unread = conn.unread
  BY <1>1, <1>2
<1>5. /\ child' \in [on : Displays, alive : BOOLEAN, timer : 0..Cap, notified : BOOLEAN]
      /\ child'.on = child.on /\ child'.timer = child.timer /\ child'.notified = child.notified
      /\ child'.alive = (child.alive /\ child.on # p)
  BY <1>1, <1>2
<1>6. TypeInv'
  BY <1>0, <1>1, <1>3, <1>4, <1>5 DEF TypeInv, Displays
<1>7. ScanInv'
  BY <1>0, <1>1, <1>3 DEF ScanInv
<1>8. WindowInv'
  BY <1>0, <1>4 DEF WindowInv
<1>9. child'.alive => child.alive /\ (child.on = session' => child.on = session)
  <2>1. child'.alive => child.on \in live
    BY <1>0, <1>5 DEF ChildInv
  <2>2. QED  BY <1>2, <1>5, <2>1, Numbers
<1>10. ChildInv'
  <2>1. child'.alive => sup' = "consume" /\ child'.on \in live'
    BY <1>0, <1>1, <1>5 DEF ChildInv
  <2>2. child'.alive /\ child'.on = session' => child'.timer <= quiet'
    BY <1>0, <1>5, <1>9 DEF ChildInv
  <2>3. child'.alive /\ child'.notified => child'.timer >= effectiveTimeout
    BY <1>0, <1>5 DEF ChildInv
  <2>4. QED  BY <1>0, <1>5, <2>1, <2>2, <2>3 DEF ChildInv, effectiveTimeout
<1>11. IdleTrue'
  BY <1>0, <1>5, <1>9 DEF IdleTrue, owed
<1>12. QED  BY <1>6, <1>7, <1>8, <1>10, <1>11 DEF SwayInv

\* A compositor that starts is a new one: no connection and no swayidle is on it.
LEMMA StartsKeep ==
    ASSUME SwayInv, NEW p \in Paths, p \notin live, live' = live \union {p},
           session' = session \/ session' = p,
           UNCHANGED <<watch, stopping, env, scan, window, quiet, idle>>
    PROVE  SwayInv'
<1>0. TypeInv /\ ScanInv /\ WindowInv /\ ChildInv /\ IdleTrue
  BY DEF SwayInv
<1>1. UNCHANGED <<call, socketPath, conn, answer, sup, child, pipe, running, idleAge, asked>>
  BY DEF window, idle
<1>2. TypeInv'
  BY <1>0, <1>1 DEF TypeInv, Displays
<1>3. ScanInv'
  BY <1>0, <1>1 DEF ScanInv
<1>4. WindowInv'
  BY <1>0, <1>1 DEF WindowInv
<1>5. child.alive /\ child.on = session' => child.on = session
  BY <1>0 DEF ChildInv
<1>6. ChildInv'
  <2>1. child'.alive => sup' = "consume" /\ child'.on \in live'
    BY <1>0, <1>1 DEF ChildInv
  <2>2. child'.alive /\ child'.on = session' => child'.timer <= quiet'
    BY <1>0, <1>1, <1>5 DEF ChildInv
  <2>3. QED  BY <1>0, <1>1, <2>1, <2>2 DEF ChildInv, effectiveTimeout
<1>7. IdleTrue'
  BY <1>0, <1>1, <1>5 DEF IdleTrue, owed
<1>8. QED  BY <1>2, <1>3, <1>4, <1>6, <1>7 DEF SwayInv

\* Compositors come and go.
LEMMA CompositorsKeep ==
    ASSUME SwayInv, Compositors
    PROVE  SwayInv'
<1>1. CASE SessionEnds
  <2>1. session \in Paths
    BY <1>1 DEF SessionEnds, SwayInv, TypeInv, Displays
  <2>2. QED  BY <1>1, <2>1, GoneKeeps DEF SessionEnds
<1>2. ASSUME NEW p \in Paths, SessionStarts(p)
      PROVE  SwayInv'
  BY <1>2, StartsKeep DEF SessionStarts
<1>3. ASSUME NEW p \in Paths, NestedStarts(p)
      PROVE  SwayInv'
  BY <1>3, StartsKeep DEF NestedStarts
<1>4. ASSUME NEW p \in Paths, NestedEnds(p)
      PROVE  SwayInv'
  BY <1>4, GoneKeeps DEF NestedEnds
<1>5. QED  BY <1>1, <1>2, <1>3, <1>4 DEF Compositors

\* The user is back: swayidle tells of it if it had told of idle.
LEMMA InputKeeps ==
    ASSUME SwayInv, Input
    PROVE  SwayInv'
<1>0. TypeInv /\ ScanInv /\ WindowInv /\ ChildInv /\ IdleTrue
  BY DEF SwayInv
<1>1. /\ quiet' = 0 /\ asked' = [asked EXCEPT !.excused = TRUE]
      /\ UNCHANGED <<watch, stopping, env, session, live, scan, call, socketPath, conn, answer, sup,
                     running, idleAge>>
  BY DEF Input, compositor, window
<1>2. /\ child \in [on : Displays, alive : BOOLEAN, timer : 0..Cap, notified : BOOLEAN]
      /\ asked \in [state : {"none", "usable", "read"}, age : Nat, excused : BOOLEAN]
      /\ pipe \in Seq(Marks)
  BY <1>0 DEF TypeInv
<1>3. /\ asked'.excused /\ asked' \in [state : {"none", "usable", "read"}, age : Nat, excused : BOOLEAN]
      /\ 0 \in 0..Cap
  <2>1. 0 \in 0..Cap
    BY Numbers
  <2>2. asked'.excused /\ asked' \in [state : {"none", "usable", "read"}, age : Nat, excused : BOOLEAN]
    BY <1>1, <1>2
  <2>3. QED  BY <2>1, <2>2
<1>4. ScanInv' /\ WindowInv'
  BY <1>0, <1>1 DEF ScanInv, WindowInv
<1>5. CASE child.alive /\ child.on = session
  <2>1. /\ child' = [child EXCEPT !.timer = 0, !.notified = FALSE]
        /\ pipe' = IF child.notified THEN Append(pipe, "resume") ELSE pipe
    BY <1>5 DEF Input
  <2>2. /\ child' \in [on : Displays, alive : BOOLEAN, timer : 0..Cap, notified : BOOLEAN]
        /\ child'.on = child.on /\ child'.timer = 0 /\ ~child'.notified /\ child'.alive
    BY <1>2, <1>3, <1>5, <2>1
  <2>3. /\ pipe' \in Seq(Marks)
        /\ pipe' # <<>> => pipe'[Len(pipe')] = "resume"
        /\ idleAge # None => pipe' # <<>> /\ "resume" \in Range(pipe')
    <3>1. CASE child.notified
      <4> DEFINE q == Append(pipe, "resume")
      <4>1. "resume" \in Marks
        BY DEF Marks
      <4>2. q \in Seq(Marks) /\ q # <<>> /\ q[Len(q)] = "resume" /\ "resume" \in Range(q)
        BY <1>2, <4>1, Piped
      <4> HIDE DEF q
      <4>3. pipe' = q
        BY <2>1, <3>1 DEF q
      <4>4. QED  BY <4>2, <4>3
    <3>2. CASE ~child.notified
      <4>1. pipe' = pipe
        BY <2>1, <3>2
      <4>2. /\ pipe # <<>> => pipe[Len(pipe)] = "resume"
            /\ idleAge # None => pipe # <<>>
        BY <1>0, <1>5, <3>2 DEF ChildInv
      <4>3. pipe # <<>> => Len(pipe) \in DOMAIN pipe
        BY <1>2
      <4>4. QED  BY <1>2, <4>1, <4>2, <4>3 DEF Range
    <3>3. QED  BY <3>1, <3>2
  <2>4. TypeInv'
    BY <1>0, <1>1, <1>3, <2>2, <2>3 DEF TypeInv
  <2>5. ChildInv'
    <3>1. sup = "consume" /\ child.on \in live
      BY <1>0, <1>5 DEF ChildInv
    <3>2. QED  BY <1>1, <2>2, <2>3, <3>1 DEF ChildInv, effectiveTimeout
  <2>6. IdleTrue'
    BY <1>1, <1>3, <2>3 DEF IdleTrue, owed
  <2>7. QED  BY <1>4, <2>4, <2>5, <2>6 DEF SwayInv
<1>6. CASE ~ (child.alive /\ child.on = session)
  <2>1. child' = child /\ pipe' = pipe
    BY <1>6 DEF Input
  <2>2. TypeInv'
    BY <1>0, <1>1, <1>3, <2>1 DEF TypeInv
  <2>3. ChildInv'
    BY <1>0, <1>1, <1>6, <2>1 DEF ChildInv, effectiveTimeout
  <2>4. IdleTrue'
    BY <1>1, <1>3, <1>6, <2>1 DEF IdleTrue, owed
  <2>5. QED  BY <1>4, <2>2, <2>3, <2>4 DEF SwayInv
<1>7. QED  BY <1>5, <1>6

\* Time passes, and every age grows alike.
LEMMA TickKeeps ==
    ASSUME SwayInv, Tick
    PROVE  SwayInv'
<1>0. TypeInv /\ ScanInv /\ WindowInv /\ ChildInv /\ IdleTrue
  BY DEF SwayInv
<1>1. /\ quiet' = older(quiet) /\ idleAge' = older(idleAge)
      /\ child' = IF child.alive THEN [child EXCEPT !.timer = older(@)] ELSE child
      /\ UNCHANGED <<watch, stopping, env, session, live, scan, call, socketPath, conn, answer, sup,
                     pipe, running, asked>>
  BY DEF Tick, compositor, window
<1>2. /\ child \in [on : Displays, alive : BOOLEAN, timer : 0..Cap, notified : BOOLEAN]
      /\ quiet \in 0..Cap /\ idleAge \in Nat \union {None} /\ 0..Cap \subseteq Nat
  BY <1>0, Numbers DEF TypeInv
<1>3. /\ quiet' \in 0..Cap /\ quiet' >= quiet /\ idleAge' \in Nat \union {None}
      /\ idleAge' = None <=> idleAge = None
      /\ idleAge # None /\ idleAge <= quiet => idleAge' <= quiet'
  BY <1>1, <1>2, Ages
<1>4. /\ child' \in [on : Displays, alive : BOOLEAN, timer : 0..Cap, notified : BOOLEAN]
      /\ child'.on = child.on /\ child'.alive = child.alive /\ child'.notified = child.notified
      /\ child'.timer >= child.timer /\ (child.timer <= quiet => child'.timer <= quiet')
  <2>1. CASE child.alive
    <3>1. child.timer \in 0..Cap /\ older(child.timer) \in 0..Cap /\ older(child.timer) >= child.timer
            /\ (child.timer <= quiet => older(child.timer) <= older(quiet))
      BY <1>2, Ages
    <3>2. QED  BY <1>1, <1>2, <2>1, <3>1
  <2>2. CASE ~child.alive
    <3>1. child' = child /\ child.timer \in Nat /\ quiet \in Nat /\ quiet' \in Nat
      BY <1>1, <1>2, <1>3, <2>2
    <3>2. QED  BY <1>2, <1>3, <3>1
  <2>3. QED  BY <2>1, <2>2
<1>5. TypeInv'
  BY <1>0, <1>1, <1>3, <1>4 DEF TypeInv
<1>6. ScanInv' /\ WindowInv'
  BY <1>0, <1>1 DEF ScanInv, WindowInv
<1>7. ChildInv'
  <2>1. child'.alive => sup' = "consume" /\ child'.on \in live'
    BY <1>0, <1>1, <1>4 DEF ChildInv
  <2>2. child'.alive /\ child'.on = session' => child'.timer <= quiet'
    BY <1>0, <1>1, <1>4 DEF ChildInv
  <2>3. child'.alive /\ child'.notified => child'.timer >= effectiveTimeout
    <3>1. child.alive /\ child.notified => child.timer >= effectiveTimeout
      BY <1>0 DEF ChildInv
    <3>2. child.timer \in Nat /\ child'.timer \in Nat /\ effectiveTimeout \in Nat
      BY <1>2, <1>4, Timeout
    <3>3. QED  BY <1>4, <3>1, <3>2
  <2>4. QED  BY <1>0, <1>1, <1>3, <1>4, <2>1, <2>2, <2>3 DEF ChildInv, effectiveTimeout
<1>8. IdleTrue'
  <2>1. owed' = owed
    BY <1>1, <1>4 DEF owed
  <2>2. idleAge' # None /\ ~owed => idleAge' <= quiet'
    BY <1>0, <1>3 DEF IdleTrue
  <2>3. asked.state = "read" /\ asked.age >= Threshold /\ ~asked.excused => asked.age <= quiet'
    <3>1. asked.age \in Nat /\ quiet \in Nat /\ quiet' \in Nat
      BY <1>0, <1>2, <1>3 DEF TypeInv
    <3>2. QED  BY <1>0, <1>3, <3>1 DEF IdleTrue
  <2>4. QED  BY <1>1, <2>1, <2>2, <2>3 DEF IdleTrue
<1>9. QED  BY <1>5, <1>6, <1>7, <1>8 DEF SwayInv

\* What the window detector does leaves the idle detector alone.
LEMMA IdleSame ==
    ASSUME ChildInv, IdleTrue, UNCHANGED <<session, live, quiet, sup, child, pipe, idleAge, asked>>
    PROVE  ChildInv' /\ IdleTrue'
<1>1. ChildInv'
  BY DEF ChildInv, effectiveTimeout
<1>2. IdleTrue'
  BY DEF IdleTrue, owed
<1>3. QED  BY <1>1, <1>2

\* A scan dials one name more: what runs there all along answers or is not steady.
LEMMA ScanKeeps ==
    ASSUME SwayInv, NEW answers \in BOOLEAN, Scan(answers)
    PROVE  SwayInv'
<1>0. TypeInv /\ ScanInv /\ WindowInv /\ ChildInv /\ IdleTrue
  BY DEF SwayInv
<1> DEFINE p == Min(scan.todo)
<1>1. /\ scan.todo # {}
      /\ scan' = [todo |-> scan.todo \ {p},
                  found |-> IF p \in live /\ answers THEN scan.found \union {p} ELSE scan.found,
                  steady |-> IF answers THEN scan.steady ELSE scan.steady \ {p}]
      /\ UNCHANGED <<watch, stopping, env, session, live, call, socketPath, conn, answer, quiet,
                     sup, child, pipe, running, idleAge, asked>>
  BY DEF Scan, scanned, compositor, window, idle
<1>2. scan \in [todo : SUBSET Paths, found : SUBSET Paths, steady : SUBSET Paths]
  BY <1>0 DEF TypeInv
<1>3. p \in scan.todo /\ p \in Paths
  <2>1. scan.todo \in SUBSET Nat
    BY <1>2, Numbers
  <2>2. p \in scan.todo
    BY <1>1, <2>1, Least
  <2>3. QED  BY <1>2, <2>2
<1> HIDE DEF p
<1>4. scan' \in [todo : SUBSET Paths, found : SUBSET Paths, steady : SUBSET Paths]
  BY <1>1, <1>2, <1>3
<1>5. ScanInv'
  <2>1. IsFiniteSet(scan.found \union {p})
    BY <1>0, FS_AddElement DEF ScanInv
  <2>2. IsFiniteSet(scan'.found)
    BY <1>0, <1>1, <2>1 DEF ScanInv
  <2>3. scan'.steady \subseteq live'
    BY <1>0, <1>1 DEF ScanInv
  <2>4. scan'.steady \ scan'.todo \subseteq scan'.found
    BY <1>0, <1>1 DEF ScanInv
  <2>5. QED  BY <2>2, <2>3, <2>4 DEF ScanInv
<1>6. TypeInv'
  BY <1>0, <1>1, <1>4 DEF TypeInv
<1>7. WindowInv'
  BY <1>0, <1>1 DEF WindowInv
<1>8. ChildInv' /\ IdleTrue'
  BY <1>0, <1>1, IdleSame
<1>9. QED  BY <1>5, <1>6, <1>7, <1>8 DEF SwayInv

\* What the window detector uses has no reply still to come.
LEMMA Uses ==
    ASSUME TypeInv, WindowInv
    PROVE  used \in [path : Displays, up : BOOLEAN, unread : Nat] /\ used.unread = 0
  BY DEF TypeInv, WindowInv, used

\* The window detector is made, asks, gives up, looks for another compositor and closes.
LEMMA WindowKeeps ==
    ASSUME SwayInv, Window
    PROVE  SwayInv'
<1>0. TypeInv /\ ScanInv /\ WindowInv /\ ChildInv /\ IdleTrue
  BY DEF SwayInv
<1>1. UNCHANGED <<watch, stopping, env, session, live, quiet, sup, child, pipe, running, idleAge, asked>>
  BY DEF Window, Construct, Constructed, ActiveWindow, Answered, Failed, Rediscovered, CloseWindow, rest,
         compositor, idle
<1>2. discover \/ scan' = NoScan \/ scan' = scan
  BY DEF Window, Construct, Constructed, ActiveWindow, Answered, Failed, Rediscovered, CloseWindow
<1>3. /\ scan' \in [todo : SUBSET Paths, found : SUBSET Paths, steady : SUBSET Paths]
      /\ ScanInv'
  BY <1>0, <1>1, <1>2, ScanMoves
<1>4. used \in [path : Displays, up : BOOLEAN, unread : Nat] /\ used.unread = 0
  BY <1>0, Uses
<1>5. /\ NoConn \in [path : Displays, up : BOOLEAN, unread : Nat] /\ NoConn.unread = 0
      /\ \A p \in Paths : /\ p \in Displays /\ [NoConn EXCEPT !.path = p, !.up = TRUE].unread = 0
                          /\ [NoConn EXCEPT !.path = p, !.up = TRUE]
                               \in [path : Displays, up : BOOLEAN, unread : Nat]
  BY DEF NoConn, Displays
<1>6. /\ socketPath' \in Displays /\ conn' \in [path : Displays, up : BOOLEAN, unread : Nat]
      /\ WindowInv'
  <2>0. /\ socketPath \in Displays /\ conn \in [path : Displays, up : BOOLEAN, unread : Nat]
        /\ live \subseteq Paths /\ conn.unread = 0 /\ ~answer.stale
        /\ call \in {"construct", "constructing"} => socketPath = 0
    BY <1>0 DEF TypeInv, WindowInv
  <2>1. CASE Construct
    BY <1>5, <2>0, <2>1 DEF Construct, connected, WindowInv
  <2>2. CASE Constructed
    BY <1>5, <2>0, <2>2 DEF Constructed, connected, WindowInv
  <2>3. CASE ActiveWindow
    BY <2>0, <2>3 DEF ActiveWindow, WindowInv
  <2>4. CASE Answered
    <3>1. conn' = used /\ answer' = [from |-> used.path, stale |-> used.unread > 0] /\ call' = "none"
            /\ socketPath' = socketPath
      BY <2>4 DEF Answered
    <3>2. ~ (0 > 0)
      OBVIOUS
    <3>3. answer'.stale = (used.unread > 0)
      BY <3>1
    <3>4. ~answer'.stale /\ conn'.unread = 0
      BY <1>4, <3>1, <3>2, <3>3
    <3>5. QED  BY <1>4, <2>0, <3>1, <3>4 DEF WindowInv
  <2>5. CASE Failed
    <3>1. conn' = NoConn /\ socketPath' = socketPath /\ call' \in {"none", "second", "scan"}
            /\ (answer' = answer \/ answer' = [from |-> 0, stale |-> FALSE])
      BY <2>5 DEF Failed, dropConn, attempting
    <3>2. ~answer'.stale
      BY <2>0, <3>1
    <3>3. conn'.unread = 0 /\ conn' \in [path : Displays, up : BOOLEAN, unread : Nat]
      BY <1>5, <3>1
    <3>4. call' \notin {"construct", "constructing"}
      BY <3>1
    <3>5. QED  BY <2>0, <3>1, <3>2, <3>3, <3>4 DEF WindowInv
  <2>6. CASE Rediscovered
    <3>1. exactlyOne(scan.found) = 0 \/ scan.found = {exactlyOne(scan.found)}
      BY <1>0, OnlyOne DEF ScanInv
    <3>2. exactlyOne(scan.found) \in Displays
      BY <1>0, <3>1 DEF TypeInv, Displays
    <3>3. /\ socketPath' = socketPath \/ socketPath' = exactlyOne(scan.found)
          /\ conn' = conn \/ conn' = NoConn
          /\ call' \in {"third", "none"}
          /\ (answer' = answer \/ answer' = [from |-> 0, stale |-> FALSE])
      BY <2>6 DEF Rediscovered
    <3>4. ~answer'.stale
      BY <2>0, <3>3
    <3>5. conn'.unread = 0 /\ conn' \in [path : Displays, up : BOOLEAN, unread : Nat]
      BY <1>5, <2>0, <3>3
    <3>6. call' \notin {"construct", "constructing"}
      BY <3>3
    <3>7. QED  BY <2>0, <3>2, <3>3, <3>4, <3>5, <3>6 DEF WindowInv
  <2>7. CASE CloseWindow
    BY <1>5, <2>0, <2>7 DEF CloseWindow, WindowInv
  <2>8. QED  BY <2>1, <2>2, <2>3, <2>4, <2>5, <2>6, <2>7 DEF Window
<1>7. TypeInv'
  BY <1>0, <1>1, <1>3, <1>6 DEF TypeInv
<1>8. ChildInv' /\ IdleTrue'
  BY <1>0, <1>1, IdleSame
<1>9. QED  BY <1>3, <1>6, <1>7, <1>8 DEF SwayInv

\* The supervisor looks for the display, starts swayidle, sees it end and starts it again.
LEMMA SupervisorKeeps ==
    ASSUME SwayInv, Discover \/ Start \/ Exited \/ Restart
    PROVE  SwayInv'
<1>0. TypeInv /\ ScanInv /\ WindowInv /\ ChildInv /\ IdleTrue
  BY DEF SwayInv
<1>1. UNCHANGED <<watch, stopping, env, session, live, call, socketPath, conn, answer, quiet, pipe, asked>>
  BY DEF Discover, Start, Exited, Restart, same, compositor, window
<1>2. discover \/ scan' = NoScan \/ scan' = scan
  BY DEF Discover, Start, Exited, Restart
<1>3. /\ scan' \in [todo : SUBSET Paths, found : SUBSET Paths, steady : SUBSET Paths]
      /\ ScanInv'
  BY <1>0, <1>1, <1>2, ScanMoves
<1>4. /\ ~child.alive /\ pipe = <<>>
      /\ child' = child \/ Start
  BY <1>0 DEF Discover, Start, Exited, Restart, ChildInv
<1>5. idleAge' = None \/ idleAge' = idleAge
  BY DEF Discover, Start, Exited, Restart
<1>6. sup' \in {"discover", "start", "delay"} => idleAge' = None
  BY <1>0 DEF Discover, Start, Exited, Restart, ChildInv
<1>7. WindowInv'
  BY <1>0, <1>1 DEF WindowInv
<1>8. CASE child' = child
  <2>1. TypeInv'
    BY <1>0, <1>1, <1>3, <1>5, <1>8 DEF TypeInv
  <2>2. ~child'.alive /\ pipe' = <<>>
    BY <1>1, <1>4, <1>8
  <2>3. ChildInv'
    BY <1>6, <2>2 DEF ChildInv
  <2>4. IdleTrue'
    BY <1>0, <1>1, <2>2 DEF IdleTrue, owed
  <2>5. QED  BY <1>3, <1>7, <2>1, <2>3, <2>4 DEF SwayInv
<1>9. CASE Start /\ child' # child
  <2>1. /\ child' = [NoChild EXCEPT !.on = applyDisplay, !.alive = applyDisplay \in live]
        /\ sup = "start" /\ sup' = "consume" /\ idleAge' = idleAge
    BY <1>9 DEF Start
  <2>2. applyDisplay \in Displays
    <3>1. exactlyOne(scan.found) = 0 \/ scan.found = {exactlyOne(scan.found)}
      BY <1>0, OnlyOne DEF ScanInv
    <3>2. QED  BY <1>0, <3>1 DEF applyDisplay, TypeInv, Displays
  <2>3. 0 \in 0..Cap
    BY Numbers
  <2>4. /\ child' \in [on : Displays, alive : BOOLEAN, timer : 0..Cap, notified : BOOLEAN]
        /\ child'.alive = (child'.on \in live) /\ child'.timer = 0 /\ ~child'.notified
    <3> DEFINE d == applyDisplay
               up == d \in live
    <3>1. child' = [on |-> d, alive |-> up, timer |-> 0, notified |-> FALSE] /\ up \in BOOLEAN
      <4>1. child' = [NoChild EXCEPT !.on = d, !.alive = up]
        BY <2>1
      <4>2. up \in BOOLEAN
        OBVIOUS
      <4> HIDE DEF d, up
      <4>3. QED  BY <4>1, <4>2 DEF NoChild
    <3>2. up = (d \in live)
      OBVIOUS
    <3> HIDE DEF d, up
    <3>3. d \in Displays
      BY <2>2 DEF d
    <3>4. child' \in [on : Displays, alive : BOOLEAN, timer : 0..Cap, notified : BOOLEAN]
      BY <2>3, <3>1, <3>3
    <3>5. child'.on = d /\ child'.alive = up /\ child'.timer = 0 /\ ~child'.notified
      BY <3>1
    <3>6. QED  BY <3>2, <3>4, <3>5
  <2>5. idleAge' = None /\ pipe' = <<>>
    BY <1>0, <1>1, <1>4, <1>9, <2>1 DEF ChildInv
  <2>6. TypeInv'
    BY <1>0, <1>1, <1>3, <1>5, <2>4 DEF TypeInv
  <2>7. ChildInv'
    <3>1. quiet \in Nat
      BY <1>0, Numbers DEF TypeInv
    <3>2. child'.alive => sup' = "consume" /\ child'.on \in live'
      BY <1>1, <2>1, <2>4
    <3>3. child'.timer <= quiet'
      BY <1>1, <2>4, <3>1
    <3>4. sup' = "consume" /\ ~child'.notified /\ idleAge' = None /\ pipe' = <<>>
      BY <2>1, <2>4, <2>5
    <3>5. QED  BY <3>2, <3>3, <3>4 DEF ChildInv
  <2>8. IdleTrue'
    BY <1>0, <1>1, <2>5 DEF IdleTrue
  <2>9. QED  BY <1>3, <1>7, <2>6, <2>7, <2>8 DEF SwayInv
<1>10. QED  BY <1>4, <1>8, <1>9

\* swayidle's timeout is over, and it has been since the user's last input.
LEMMA NotifyKeeps ==
    ASSUME SwayInv, Notify
    PROVE  SwayInv'
<1>0. TypeInv /\ ScanInv /\ WindowInv /\ ChildInv /\ IdleTrue
  BY DEF SwayInv
<1>1. /\ child.alive /\ ~child.notified /\ child.timer >= effectiveTimeout
      /\ child' = [child EXCEPT !.notified = TRUE] /\ pipe' = Append(pipe, "idle")
      /\ UNCHANGED <<watch, stopping, env, session, live, scan, call, socketPath, conn, answer, quiet,
                     sup, running, idleAge, asked>>
  BY DEF Notify, same, compositor, window
<1>2. /\ child' \in [on : Displays, alive : BOOLEAN, timer : 0..Cap, notified : BOOLEAN]
      /\ child'.on = child.on /\ child'.timer = child.timer /\ child'.notified /\ child'.alive
  BY <1>0, <1>1 DEF TypeInv
<1>3. pipe' \in Seq(Marks) /\ \A x \in Range(pipe) : x \in Range(pipe')
  <2>1. "idle" \in Marks /\ pipe \in Seq(Marks)
    BY <1>0 DEF Marks, TypeInv
  <2>2. QED  BY <1>1, <2>1, Piped
<1>4. TypeInv'
  BY <1>0, <1>1, <1>2, <1>3 DEF TypeInv
<1>5. ScanInv' /\ WindowInv'
  BY <1>0, <1>1 DEF ScanInv, WindowInv
<1>6. ChildInv'
  BY <1>0, <1>1, <1>2 DEF ChildInv, effectiveTimeout
<1>7. IdleTrue'
  <2>1. owed => owed'
    BY <1>1, <1>2, <1>3 DEF owed
  <2>2. QED  BY <1>0, <1>1, <2>1 DEF IdleTrue
<1>8. QED  BY <1>4, <1>5, <1>6, <1>7 DEF SwayInv

\* A mark is read. An idle mark that no resume follows is swayidle's last word, and the
\* user has been quiet for as long as it says.
LEMMA ConsumeKeeps ==
    ASSUME SwayInv, Consume
    PROVE  SwayInv'
<1>0. TypeInv /\ ScanInv /\ WindowInv /\ ChildInv /\ IdleTrue
  BY DEF SwayInv
<1>1. /\ sup = "consume" /\ pipe # <<>> /\ pipe' = Tail(pipe)
      /\ idleAge' = IF Head(pipe) = "idle" THEN effectiveTimeout ELSE None
      /\ UNCHANGED <<watch, stopping, env, session, live, scan, call, socketPath, conn, answer, quiet,
                     sup, child, running, asked>>
  BY DEF Consume, same, compositor, window
<1>2. /\ Head(pipe) \in Marks /\ pipe' \in Seq(Marks)
      /\ pipe' = <<>> => Head(pipe) = pipe[Len(pipe)]
      /\ pipe' # <<>> => /\ pipe'[Len(pipe')] = pipe[Len(pipe)]
                         /\ pipe[Len(pipe)] \in Range(pipe')
  BY <1>0, <1>1, Piped DEF TypeInv
<1>3. effectiveTimeout \in Nat /\ effectiveTimeout # None
  BY Timeout DEF None
<1>4. TypeInv'
  BY <1>0, <1>1, <1>2, <1>3 DEF TypeInv
<1>5. ScanInv' /\ WindowInv'
  BY <1>0, <1>1 DEF ScanInv, WindowInv
<1>6. child.alive /\ ~child.notified => pipe[Len(pipe)] = "resume"
  BY <1>0, <1>1 DEF ChildInv
<1>7. ChildInv'
  <2>1. child'.alive /\ ~child'.notified =>
          /\ pipe' # <<>> => pipe'[Len(pipe')] = "resume"
          /\ idleAge' # None => pipe' # <<>>
    BY <1>1, <1>2, <1>6
  <2>2. /\ child'.alive => sup' = "consume" /\ child'.on \in live'
        /\ child'.alive /\ child'.on = session' => child'.timer <= quiet'
        /\ child'.alive /\ child'.notified => child'.timer >= effectiveTimeout
    BY <1>0, <1>1 DEF ChildInv
  <2>3. sup' = "consume"
    BY <1>1
  <2>4. QED  BY <2>1, <2>2, <2>3 DEF ChildInv, effectiveTimeout
<1>8. IdleTrue'
  <2>1. ASSUME idleAge' # None, ~owed'
        PROVE  idleAge' <= quiet
    <3>1. child.alive /\ child.on = session /\ "resume" \notin Range(pipe')
      BY <1>1, <2>1 DEF owed
    <3>2. Head(pipe) = "idle" /\ idleAge' = effectiveTimeout
      BY <1>1, <2>1
    <3>3. child.notified
      BY <1>2, <1>6, <3>1, <3>2
    <3>4. effectiveTimeout <= child.timer /\ child.timer <= quiet
      BY <1>0, <3>1, <3>3 DEF ChildInv
    <3>5. child.timer \in Nat /\ quiet \in Nat
      BY <1>0, Numbers DEF TypeInv
    <3>6. QED  BY <1>3, <3>2, <3>4, <3>5
  <2>2. QED  BY <1>0, <1>1, <2>1 DEF IdleTrue
<1>9. QED  BY <1>4, <1>5, <1>7, <1>8 DEF SwayInv

\* swayidle ends: what it still owes it will never say.
LEMMA ChildDiesKeeps ==
    ASSUME SwayInv, ChildDies
    PROVE  SwayInv'
<1>0. TypeInv /\ ScanInv /\ WindowInv /\ ChildInv /\ IdleTrue
  BY DEF SwayInv
<1>1. /\ child' = [child EXCEPT !.alive = FALSE]
      /\ UNCHANGED <<watch, stopping, env, session, live, scan, call, socketPath, conn, answer, quiet,
                     sup, pipe, running, idleAge, asked>>
  BY DEF ChildDies, same, compositor, window
<1>2. /\ child' \in [on : Displays, alive : BOOLEAN, timer : 0..Cap, notified : BOOLEAN]
      /\ ~child'.alive
  BY <1>0, <1>1 DEF TypeInv
<1>3. TypeInv'
  BY <1>0, <1>1, <1>2 DEF TypeInv
<1>4. ScanInv' /\ WindowInv'
  BY <1>0, <1>1 DEF ScanInv, WindowInv
<1>5. ChildInv'
  BY <1>0, <1>1, <1>2 DEF ChildInv
<1>6. IdleTrue'
  BY <1>0, <1>1, <1>2 DEF IdleTrue, owed
<1>7. QED  BY <1>3, <1>4, <1>5, <1>6 DEF SwayInv

\* Close, the route that tells a browser of idle time, and a daemon that is told to stop.
LEMMA AsksKeep ==
    ASSUME SwayInv, CloseIdle \/ Ask \/ ReadIdleTime \/ Reply \/ Cancel
    PROVE  SwayInv'
<1>0. TypeInv /\ ScanInv /\ WindowInv /\ ChildInv /\ IdleTrue
  BY DEF SwayInv
<1>1. /\ UNCHANGED <<watch, env, session, live, scan, call, socketPath, conn, answer, quiet,
                     sup, child, pipe>>
      /\ idleAge' = idleAge \/ idleAge' = None
  BY DEF CloseIdle, Ask, ReadIdleTime, Reply, Cancel, same, compositor, window, idle
<1>2. /\ asked' \in [state : {"none", "usable", "read"}, age : Nat, excused : BOOLEAN]
      /\ asked'.state = "read" /\ ~asked'.excused /\ asked'.age >= Threshold => asked'.age <= quiet
  <2>1. CASE asked' = asked
    BY <1>0, <2>1 DEF TypeInv, IdleTrue
  <2>2. CASE Ask
    BY <2>2 DEF Ask, NotAsked
  <2>3. CASE Reply
    BY <2>3 DEF Reply, NotAsked
  <2>4. CASE ReadIdleTime
    <3>1. asked' = [state |-> "read", age |-> Max({idleAge, 0}), excused |-> owed]
      BY <2>4 DEF ReadIdleTime
    <3>2. idleAge \in Nat \union {None} /\ quiet \in Nat
      BY <1>0, Numbers DEF TypeInv
    <3>3. Max({idleAge, 0}) = IF idleAge = None THEN 0 ELSE idleAge
      <4>1. idleAge \in Int /\ 0 \in Int
        BY <3>2 DEF None
      <4>2. Max({idleAge, 0}) = IF idleAge <= 0 THEN 0 ELSE idleAge
        BY <4>1, Extremes
      <4>3. QED  BY <3>2, <4>2 DEF None
    <3> DEFINE age == Max({idleAge, 0})
               excused == owed
    <3>4. excused \in BOOLEAN
      BY DEF owed
    <3>5. age \in Nat /\ (~excused => age <= quiet)
      BY <1>0, <3>2, <3>3 DEF IdleTrue
    <3> HIDE DEF age, excused
    <3>6. asked' = [state |-> "read", age |-> age, excused |-> excused]
      BY <3>1 DEF age, excused
    <3>7. QED  BY <3>4, <3>5, <3>6
  <2>5. QED  BY <2>1, <2>2, <2>3, <2>4 DEF CloseIdle, Cancel, idle
<1>3. TypeInv'
  BY <1>0, <1>1, <1>2 DEF TypeInv
<1>4. ScanInv' /\ WindowInv'
  BY <1>0, <1>1 DEF ScanInv, WindowInv
<1>5. ChildInv'
  BY <1>0, <1>1 DEF ChildInv, effectiveTimeout
<1>6. IdleTrue'
  BY <1>0, <1>1, <1>2 DEF IdleTrue, owed
<1>7. QED  BY <1>3, <1>4, <1>5, <1>6 DEF SwayInv

\* A step that changes nothing.
LEMMA StutterKeeps == SwayInv /\ UNCHANGED vars => SwayInv'
<1> SUFFICES ASSUME SwayInv, UNCHANGED vars PROVE SwayInv'
  OBVIOUS
<1>0. TypeInv /\ ScanInv /\ WindowInv /\ ChildInv /\ IdleTrue
  BY DEF SwayInv
<1>1. UNCHANGED <<watch, stopping, env, session, live, scan, call, socketPath, conn, answer, quiet,
                  sup, child, pipe, running, idleAge, asked>>
  BY DEF vars, compositor, window, idle
<1>2. TypeInv'
  BY <1>0, <1>1 DEF TypeInv
<1>3. ScanInv' /\ WindowInv'
  BY <1>0, <1>1 DEF ScanInv, WindowInv
<1>4. ChildInv' /\ IdleTrue'
  BY <1>0, <1>1, IdleSame
<1>5. QED  BY <1>2, <1>3, <1>4 DEF SwayInv
-----------------------------------------------------------------------------
(* The theorems.                                                           *)

\* Every state has the inductive invariant: what a scan has found, what is still to
\* come on the connection, and what swayidle knows of the user.
THEOREM SwayInductive == Spec => []SwayInv
<1>1. SwayInv /\ [Next]_vars => SwayInv'
  <2> SUFFICES ASSUME SwayInv, [Next]_vars PROVE SwayInv'
    OBVIOUS
  <2>1. CASE Compositors
    BY <2>1, CompositorsKeep
  <2>2. CASE Input
    BY <2>2, InputKeeps
  <2>3. CASE Tick
    BY <2>3, TickKeeps
  <2>4. CASE Scan(TRUE) \/ TooSlow
    BY <2>4, ScanKeeps DEF TooSlow
  <2>5. CASE Window
    BY <2>5, WindowKeeps
  <2>6. CASE Discover \/ Start \/ Exited \/ Restart
    BY <2>6, SupervisorKeeps
  <2>7. CASE Consume
    BY <2>7, ConsumeKeeps
  <2>8. CASE Notify
    BY <2>8, NotifyKeeps
  <2>9. CASE ChildDies
    BY <2>9, ChildDiesKeeps
  <2>10. CASE CloseIdle \/ Ask \/ ReadIdleTime \/ Reply \/ Cancel
    BY <2>10, AsksKeep
  <2>11. CASE UNCHANGED vars
    BY <2>11, StutterKeeps
  <2>12. QED  BY <2>1, <2>2, <2>3, <2>4, <2>5, <2>6, <2>7, <2>8, <2>9, <2>10, <2>11
              DEF Next, Idle, Supervisor
<1>2. QED  BY <1>1, InitHolds, PTL DEF Spec

\* Nobody is called idle for longer than since the last input, but for a resume on its
\* way: not over a restart of swayidle or of the compositor, and not in the answer a
\* browser gets (markIdle, run, handleIdle).
THEOREM IdleIsTrue == Spec => []IdleTrue
<1>1. SwayInv => IdleTrue
  BY DEF SwayInv
<1>2. QED  BY <1>1, SwayInductive, PTL

\* The tree that is reported is the reply to the request just made, and the detector
\* leaves only a compositor that did not answer all along (attemptLocked,
\* rediscoverLocked, exactlyOne).
THEOREM TreeIsTheRightOne == Spec => RightWindow
<1>1. SwayInv /\ SwayInv' /\ [Next]_vars =>
        [/\ ~answer'.stale
         /\ socketPath \notin {0, socketPath'} => socketPath \notin scan.steady]_vars
  <2> SUFFICES ASSUME SwayInv, SwayInv', Next
               PROVE  /\ ~answer'.stale
                      /\ socketPath \notin {0, socketPath'} => socketPath \notin scan.steady
    OBVIOUS
  <2>0. TypeInv /\ ScanInv /\ WindowInv
    BY DEF SwayInv
  <2>1. ~answer'.stale
    BY DEF SwayInv, WindowInv
  <2>2. ASSUME socketPath # 0, socketPath # socketPath'
        PROVE  socketPath \notin scan.steady
    <3>1. Rediscovered
      <4>1. call \notin {"construct", "constructing"}
        BY <2>0, <2>2 DEF WindowInv
      <4>2. ~ (Compositors \/ Input \/ Tick \/ Cancel \/ Scan(TRUE) \/ TooSlow)
        BY <2>2 DEF Compositors, SessionEnds, SessionStarts, NestedStarts, NestedEnds, Input, Tick,
                    Cancel, Scan, TooSlow, window
      <4>3. ~ Idle
        BY <2>2 DEF Idle, Supervisor, Discover, Start, Consume, Exited, Restart, Notify, ChildDies,
                    CloseIdle, Ask, ReadIdleTime, Reply, same, window
      <4>4. Window => Rediscovered
        BY <2>2, <4>1 DEF Window, Construct, Constructed, ActiveWindow, Answered, Failed, CloseWindow
      <4>5. QED  BY <4>2, <4>3, <4>4 DEF Next
    <3>2. scan.todo = {} /\ exactlyOne(scan.found) \notin {0, socketPath}
      BY <2>2, <3>1 DEF Rediscovered
    <3>3. scan.found = {exactlyOne(scan.found)}
      BY <2>0, <3>2, OnlyOne DEF ScanInv
    <3>4. scan.steady \subseteq scan.found
      BY <2>0, <3>2 DEF ScanInv
    <3>5. QED  BY <3>2, <3>3, <3>4
  <2>3. QED  BY <2>1, <2>2
<1>2. QED  BY <1>1, SwayInductive, PTL DEF Spec, RightWindow
=============================================================================
