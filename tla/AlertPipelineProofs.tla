------------------------- MODULE AlertPipelineProofs -------------------------
(***************************************************************************)
(* Theorems about AlertPipeline, for every set of statuses and prompts, with  *)
(* and without times in the notifications, any number of changes and          *)
(* restarts.                                                               *)
(***************************************************************************)
EXTENDS AlertPipeline, FiniteSetTheorems, WellFoundedInduction, TLAPS

Ids == {LiveId(p) : p \in Prompts} \cup {PolledId(p) : p \in Prompts}

\* The row has room for every id the thread can have.
Roomy == IsFiniteSet(Ids) /\ Cardinality(Ids) <= KnownLimit

AlertSet ==
  ({"approval_required"} \X {"id"} \X Ids)
  \cup (AlertKinds \X {"cycle"} \X Nat)
  \cup ({"completed"} \X {"times"} \X (Nat \X Nat))

\* Lists without repetition.
Lists(S) == {s \in Seq(S) : IsInjective(s)}

IsCycle(alert) == alert[2] = "cycle"

\* The alerts whose ids the row keeps from being dispatched again.
Tracked(alert) == IsCycle(alert) \/ (Roomy /\ alert[2] = "id")

\* The row has been through the alert.
Recorded(row, alert) ==
  IF IsCycle(alert) THEN alert[3] <= row.cycle ELSE Contains(row.known, alert[3])

Rows == [status : AllStatuses \cup {"none"}, at : Nat, cycle : Nat, known : Lists(Ids),
         fallback : BOOLEAN]

SnapshotSet == [status : AllStatuses \cup {"none"}, at : Nat, approvals : Lists(Ids)]

Notices ==
  [kind : {"status"}, status : AllStatuses, at : Nat]
  \cup [kind : {"approval"}, request : Prompts, at : Nat]

(***************************************************************************)
(* The invariant.  Every alert that waits or was dispatched went through the  *)
(* row before, and a tracked one is in one place.                            *)
(***************************************************************************)
CodexWellFormed ==
  /\ codex.status \in AllStatuses /\ codex.at \in Nat /\ clock \in Nat
  /\ codex.approvals \in Seq(Prompts) /\ Len(codex.approvals) <= 1
  /\ feed \in Seq(Notices)

Waiting == [pc : {"dispatch"}, alerts : Lists(AlertSet) \ {<< >>}]

TasksWellFormed ==
  /\ hub \in SnapshotSet
  /\ live \in {Idle} \cup [pc : {"write", "detect"}, snapshot : SnapshotSet] \cup Waiting
  /\ mon \in {Idle} \cup [pc : {"listed"}, snapshot : SnapshotSet]
               \cup [pc : {"detect"}, snapshot : SnapshotSet, native : Lists(Ids)] \cup Waiting
  /\ lister \in {Idle} \cup [pc : {"write"}, snapshot : SnapshotSet]

RowWellFormed == table \in Rows

AllRecorded ==
  \A alert \in announced \cup Detected(live) \cup Detected(mon) :
    alert \in AlertSet /\ (Tracked(alert) => Recorded(table, alert))

InOnePlace ==
  /\ repeated \subseteq announced
  /\ \A alert \in announced \cup Detected(live) : Tracked(alert) =>
       /\ alert \notin repeated
       /\ alert \in announced => alert \notin Detected(live) \cup Detected(mon)
       /\ alert \in Detected(live) => alert \notin Detected(mon)

AlertInv ==
  /\ CodexWellFormed /\ TasksWellFormed /\ RowWellFormed
  /\ AllRecorded /\ InOnePlace

(***************************************************************************)
(* Lists without repetition                                                 *)
(***************************************************************************)

\* A member that is new may be appended to a list.
LEMMA AppendList ==
  ASSUME NEW S, NEW s \in Lists(S), NEW x \in S, ~Contains(s, x)
  PROVE  /\ Append(s, x) \in Lists(S)
         /\ \A y : Contains(Append(s, x), y) <=> Contains(s, y) \/ y = x
<1>1. s \in Seq(S) /\ IsInjective(s)
  BY DEF Lists
<1>2. Append(s, x) \in Seq(S) /\ IsInjective(Append(s, x))
  BY <1>1 DEF Contains, IsInjective
<1>3. \A y : Contains(Append(s, x), y) <=> Contains(s, y) \/ y = x
  BY <1>1 DEF Contains
<1>4. QED
  BY <1>2, <1>3 DEF Lists

\* Two lists with nothing in common may be joined.
LEMMA JoinLists ==
  ASSUME NEW S, NEW s \in Lists(S), NEW t \in Lists(S),
         \A x : ~(Contains(s, x) /\ Contains(t, x))
  PROVE  /\ s \o t \in Lists(S)
         /\ \A y : Contains(s \o t, y) <=> Contains(s, y) \/ Contains(t, y)
<1>1. s \in Seq(S) /\ IsInjective(s) /\ t \in Seq(S) /\ IsInjective(t)
  BY DEF Lists
<1> DEFINE j == s \o t
           n == Len(s)
<1>2. /\ j \in Seq(S) /\ n \in Nat /\ Len(t) \in Nat /\ Len(j) = n + Len(t)
      /\ \A i \in 1 .. Len(j) : j[i] = IF i <= n THEN s[i] ELSE t[i - n]
  BY <1>1
<1> HIDE DEF j, n
<1>3. DOMAIN j = 1 .. Len(j) /\ DOMAIN s = 1 .. n /\ DOMAIN t = 1 .. Len(t)
  BY <1>1, <1>2 DEF n
<1>4. ASSUME NEW a \in 1 .. Len(j), NEW b \in 1 .. Len(j), j[a] = j[b] PROVE a = b
  <2>1. CASE a <= n /\ b <= n
    <3>1. a \in DOMAIN s /\ b \in DOMAIN s
      BY <1>3, <2>1
    <3>2. s[a] = s[b]
      BY <1>2, <1>4, <2>1
    <3>3. QED
      BY <1>1, <3>1, <3>2 DEF IsInjective
  <2>2. CASE ~(a <= n) /\ ~(b <= n)
    <3>1. a - n \in DOMAIN t /\ b - n \in DOMAIN t /\ t[a - n] = t[b - n]
      BY <1>2, <1>3, <1>4, <2>2
    <3>2. a - n = b - n
      BY <1>1, <3>1 DEF IsInjective
    <3>3. QED
      BY <1>2, <3>2
  <2>3. CASE a <= n /\ ~(b <= n)
    <3>1. Contains(s, j[a]) /\ Contains(t, j[a])
      BY <1>2, <1>4, <2>3 DEF Contains, n
    <3>2. QED
      BY <3>1
  <2>4. CASE ~(a <= n) /\ b <= n
    <3>1. Contains(s, j[a]) /\ Contains(t, j[a])
      BY <1>2, <1>4, <2>4 DEF Contains, n
    <3>2. QED
      BY <3>1
  <2>5. QED
    BY <2>1, <2>2, <2>3, <2>4
<1>5. j \in Lists(S)
  BY <1>2, <1>3, <1>4 DEF Lists, IsInjective
<1>6. ASSUME NEW y PROVE Contains(j, y) <=> Contains(s, y) \/ Contains(t, y)
  <2>1. ASSUME Contains(t, y) PROVE Contains(j, y)
    <3>1. PICK i \in 1 .. Len(t) : t[i] = y
      BY <2>1 DEF Contains
    <3>2. n + i \in 1 .. Len(j) /\ j[n + i] = y
      BY <1>2, <3>1
    <3>3. QED
      BY <3>2 DEF Contains
  <2>2. ASSUME Contains(s, y) PROVE Contains(j, y)
    BY <1>2, <2>2 DEF Contains, n
  <2>3. ASSUME Contains(j, y) PROVE Contains(s, y) \/ Contains(t, y)
    BY <1>2, <2>3 DEF Contains, n
  <2>4. QED
    BY <2>1, <2>2, <2>3
<1>7. QED
  BY <1>5, <1>6 DEF j

\* The first member of a list is not in the rest.
LEMMA TailList ==
  ASSUME NEW S, NEW s \in Lists(S) \ {<< >>}
  PROVE  /\ Head(s) \in S /\ Tail(s) \in Lists(S)
         /\ \A y : Contains(Tail(s), y) <=> Contains(s, y) /\ y # Head(s)
         /\ Contains(s, Head(s))
<1>1. s \in Seq(S) /\ IsInjective(s) /\ s # << >>
  BY DEF Lists
<1>2. Head(s) \in S /\ Contains(s, Head(s))
  BY <1>1 DEF Contains
<1>3. Tail(s) \in Seq(S) /\ IsInjective(Tail(s))
  BY <1>1 DEF IsInjective
<1>4. ASSUME NEW y PROVE Contains(Tail(s), y) <=> Contains(s, y) /\ y # Head(s)
  <2>1. ASSUME Contains(Tail(s), y) PROVE Contains(s, y) /\ y # Head(s)
    BY <1>1, <2>1 DEF Contains, IsInjective
  <2>2. ASSUME Contains(s, y), y # Head(s) PROVE Contains(Tail(s), y)
    <3>1. PICK i \in 1 .. Len(s) : s[i] = y
      BY <2>2 DEF Contains
    <3>2. i - 1 \in 1 .. Len(Tail(s)) /\ Tail(s)[i - 1] = y
      BY <1>1, <2>2, <3>1
    <3>3. QED
      BY <3>2 DEF Contains
  <2>3. QED
    BY <2>1, <2>2
<1>5. QED
  BY <1>2, <1>3, <1>4 DEF Lists

\* The members of a sequence, as a set.
LEMMA MembersOfList ==
  ASSUME NEW S, NEW s \in Seq(S)
  PROVE  \A x : x \in ToSet(s) <=> Contains(s, x)
  BY DEF ToSet, Contains

\* The empty list, and a list of one.
LEMMA ShortLists ==
  /\ \A S : << >> \in Lists(S) /\ (\A x : ~Contains(<< >>, x))
  /\ \A S : \A x \in S : <<x>> \in Lists(S) /\ (\A y : Contains(<<x>>, y) <=> y = x)
  BY DEF Lists, Contains, IsInjective

(***************************************************************************)
(* The ids that are new to a row                                            *)
(***************************************************************************)

Recursion(f, n, known, native) ==
  f = [i \in 0 .. n |-> IF i = 0 THEN << >>
                       ELSE IF Contains(known, native[i]) THEN f[i - 1]
                       ELSE Append(f[i - 1], native[i])]

\* A set that holds 0 and every successor of its members holds every number.
LEMMA Induction ==
  ASSUME NEW S, 0 \in S, \A n \in Nat : n \in S => n + 1 \in S
  PROVE  Nat \subseteq S
<1> DEFINE T == Nat \ S
<1>1. SUFFICES ASSUME T # {} PROVE FALSE
  OBVIOUS
<1>2. PICK x \in T : \A y \in T : ~(<<y, x>> \in OpToRel(<, Nat))
  BY <1>1, NatLessThanWellFounded, WFMin
<1>3. x # 0 /\ x - 1 \in Nat /\ x - 1 < x
  BY SMT
<1>4. x - 1 \notin T
  BY <1>2, <1>3 DEF OpToRel
<1>5. QED
  BY <1>3, <1>4

\* What the recursion says of each place.
LEMMA RecursionStep ==
  ASSUME NEW f, NEW n, NEW known, NEW native, Recursion(f, n, known, native)
  PROVE  \A i \in 0 .. n : f[i] = IF i = 0 THEN << >>
                                 ELSE IF Contains(known, native[i]) THEN f[i - 1]
                                 ELSE Append(f[i - 1], native[i])
<1> DEFINE e(i) == IF i = 0 THEN << >>
                   ELSE IF Contains(known, native[i]) THEN f[i - 1]
                   ELSE Append(f[i - 1], native[i])
<1>1. f = [i \in 0 .. n |-> e(i)]
  BY DEF Recursion
<1> HIDE DEF e
<1>2. \A i \in 0 .. n : f[i] = e(i)
  BY <1>1
<1>3. QED
  BY <1>2 DEF e

\* The recursion by which a row finds the new ids is well defined.
LEMMA RecursionExists ==
  ASSUME NEW known, NEW native, NEW n \in Nat
  PROVE  \E f : Recursion(f, n, known, native)
<1> DEFINE Good == {k \in Nat : \E f : Recursion(f, k, known, native)}
<1>1. 0 \in Good
  <2> DEFINE f == [i \in 0 .. 0 |-> << >>]
  <2>1. Recursion(f, 0, known, native)
    BY DEF Recursion
  <2>2. QED
    BY <2>1
<1>2. ASSUME NEW k \in Nat, k \in Good PROVE k + 1 \in Good
  <2>1. PICK f : Recursion(f, k, known, native)
    BY <1>2
  <2> DEFINE g == [i \in 0 .. k + 1 |-> IF i = k + 1
                     THEN (IF Contains(known, native[i]) THEN f[k] ELSE Append(f[k], native[i]))
                     ELSE f[i]]
  <2> DEFINE e(h, i) == IF i = 0 THEN << >>
                        ELSE IF Contains(known, native[i]) THEN h[i - 1]
                        ELSE Append(h[i - 1], native[i])
  <2>2. \A i \in 0 .. k : f[i] = e(f, i)
    BY <2>1 DEF Recursion
  <2>3. \A i \in 0 .. k : g[i] = f[i]
    OBVIOUS
  <2>4. \A i \in 0 .. k + 1 : g[i] = e(g, i)
    <3> SUFFICES ASSUME NEW i \in 0 .. k + 1 PROVE g[i] = e(g, i)
      OBVIOUS
    <3>1. CASE i = 0
      <4>1. 0 \in 0 .. k /\ g[0] = f[0]
        BY <2>3
      <4>2. QED
        BY <3>1, <4>1, <2>2
    <3>2. CASE i # 0 /\ i # k + 1
      <4>1. i \in 0 .. k /\ i - 1 \in 0 .. k
        BY <3>2
      <4>2. g[i] = f[i] /\ g[i - 1] = f[i - 1]
        BY <4>1, <2>3
      <4>3. QED
        BY <3>2, <4>1, <4>2, <2>2
    <3>3. CASE i = k + 1
      <4>1. g[k + 1 - 1] = f[k] /\ i # 0
        BY <2>3, <3>3
      <4>2. QED
        BY <3>3, <4>1
    <3>4. QED
      BY <3>1, <3>2, <3>3
  <2>5. g = [i \in 0 .. k + 1 |-> g[i]]
    OBVIOUS
  <2>6. [i \in 0 .. k + 1 |-> g[i]] = [i \in 0 .. k + 1 |-> e(g, i)]
    BY <2>4
  <2>7. Recursion(g, k + 1, known, native)
    BY <2>5, <2>6 DEF Recursion
  <2>8. QED
    BY <2>7
<1>3. QED
  BY <1>1, <1>2, Induction

\* The new ids are the last value of that recursion.
LEMMA UnknownIsRecursive ==
  ASSUME NEW row, NEW native, Len(native) \in Nat
  PROVE  \E f : /\ Recursion(f, Len(native), row.known, native)
               /\ Unknown(row, native) = f[Len(native)]
<1> DEFINE u == CHOOSE f : Recursion(f, Len(native), row.known, native)
<1>1. Recursion(u, Len(native), row.known, native)
  BY RecursionExists, Zenon
<1>2. Unknown(row, native) = u[Len(native)]
  BY DEF Unknown, Recursion
<1>3. QED
  BY <1>1, <1>2

\* They are the listed ids the row does not know, each once.
LEMMA UnknownIds ==
  ASSUME NEW S, NEW row, NEW native \in Lists(S)
  PROVE  /\ Unknown(row, native) \in Lists(S)
         /\ \A id : Contains(Unknown(row, native), id)
                     <=> Contains(native, id) /\ ~Contains(row.known, id)
<1>1. native \in Seq(S) /\ IsInjective(native) /\ Len(native) \in Nat
  BY DEF Lists
<1>2. PICK f : /\ Recursion(f, Len(native), row.known, native)
               /\ Unknown(row, native) = f[Len(native)]
  BY <1>1, UnknownIsRecursive
<1> DEFINE Among(i, id) == \E j \in 1 .. i : native[j] = id
           Sound(i) == /\ f[i] \in Lists(S)
                       /\ \A id : Contains(f[i], id) <=> Among(i, id) /\ ~Contains(row.known, id)
           Good == {i \in Nat : i <= Len(native) => Sound(i)}
<1>3. 0 \in Good
  <2>1. f[0] = << >>
    BY <1>1, <1>2 DEF Recursion
  <2>2. QED
    BY <2>1, ShortLists
<1>4. ASSUME NEW i \in Nat, i \in Good PROVE i + 1 \in Good
  <2>1. SUFFICES ASSUME i + 1 <= Len(native) PROVE Sound(i + 1)
    OBVIOUS
  <2> DEFINE x == native[i + 1]
  <2>2. Sound(i) /\ x \in S
    BY <1>1, <1>4, <2>1
  <2>3. f[i + 1] = IF Contains(row.known, x) THEN f[i] ELSE Append(f[i], x)
    <3>1. i + 1 \in 0 .. Len(native) /\ i + 1 # 0 /\ i + 1 - 1 = i
      BY <1>1, <2>1
    <3>2. f[i + 1] = IF i + 1 = 0 THEN << >>
                     ELSE IF Contains(row.known, native[i + 1]) THEN f[i + 1 - 1]
                     ELSE Append(f[i + 1 - 1], native[i + 1])
      BY <1>2, <3>1, RecursionStep
    <3>3. QED
      BY <3>1, <3>2, Zenon
  <2>4. \A id : Among(i + 1, id) <=> Among(i, id) \/ id = x
    OBVIOUS
  <2>5. ~Among(i, x)
    BY <1>1, <2>1 DEF IsInjective
  <2> HIDE DEF x, Among
  <2>6. CASE Contains(row.known, x)
    BY <2>2, <2>3, <2>4, <2>6
  <2>7. CASE ~Contains(row.known, x)
    <3>1. ~Contains(f[i], x)
      BY <2>2, <2>5
    <3>2. /\ Append(f[i], x) \in Lists(S)
          /\ \A y : Contains(Append(f[i], x), y) <=> Contains(f[i], y) \/ y = x
      BY <2>2, <3>1, AppendList
    <3>3. QED
      BY <2>2, <2>3, <2>4, <2>7, <3>2
  <2>8. QED
    BY <2>6, <2>7
<1>5. Sound(Len(native))
  <2> HIDE DEF Sound
  <2>1. Nat \subseteq Good
    <3> HIDE DEF Good
    <3>1. QED
      BY <1>3, <1>4, Induction
  <2>2. QED
    BY <1>1, <2>1
<1>6. \A id : Among(Len(native), id) <=> Contains(native, id)
  BY DEF Contains
<1>7. QED
  BY <1>2, <1>5, <1>6

(***************************************************************************)
(* One comparison with the row                                              *)
(***************************************************************************)

\* A list without repetition is no longer than the set it draws on.
LEMMA ListFits ==
  ASSUME NEW S, IsFiniteSet(S), NEW s \in Lists(S)
  PROVE  Len(s) <= Cardinality(S)
<1>1. s \in [1 .. Len(s) -> S] /\ Len(s) \in Nat /\ IsInjective(s)
  BY DEF Lists
<1>2. IsFiniteSet(1 .. Len(s)) /\ Cardinality(1 .. Len(s)) = Len(s)
  <2>1. 1 \in Int /\ Len(s) \in Int
    BY <1>1
  <2>2. /\ IsFiniteSet(1 .. Len(s))
        /\ Cardinality(1 .. Len(s)) = IF 1 > Len(s) THEN 0 ELSE Len(s) - 1 + 1
    BY <2>1, FS_Interval, Zenon
  <2>3. QED
    BY <1>1, <2>2
<1>3. Cardinality(S) \in Nat
  BY FS_CardinalityType
<1>4. ASSUME Cardinality(S) < Len(s) PROVE FALSE
  <2>1. \E x, y \in 1 .. Len(s) : x # y /\ s[x] = s[y]
    BY <1>1, <1>2, <1>4, FS_PigeonHole
  <2>2. QED
    BY <1>1, <2>1 DEF IsInjective
<1>5. QED
  BY <1>1, <1>3, <1>4

\* The row keeps a list of ids; with room for all of them it forgets none.
LEMMA KnownIds ==
  ASSUME NEW row \in Rows, NEW native \in Lists(Ids)
  PROVE  /\ Known(row, native) \in Lists(Ids)
         /\ Roomy => \A id : Contains(Known(row, native), id)
                               <=> Contains(row.known, id) \/ Contains(native, id)
<1> DEFINE ids == row.known \o Unknown(row, native)
<1>1. row.known \in Lists(Ids) /\ KnownLimit \in Nat \ {0}
  BY AlertPipelineAssumption DEF Rows
<1>2. /\ Unknown(row, native) \in Lists(Ids)
      /\ \A id : Contains(Unknown(row, native), id)
                  <=> Contains(native, id) /\ ~Contains(row.known, id)
  BY UnknownIds
<1>3. /\ ids \in Lists(Ids)
      /\ \A id : Contains(ids, id) <=> Contains(row.known, id) \/ Contains(Unknown(row, native), id)
  BY <1>1, <1>2, JoinLists
<1>4. Known(row, native) = IF Len(ids) > KnownLimit
                             THEN SubSeq(ids, Len(ids) - KnownLimit + 1, Len(ids)) ELSE ids
  BY DEF Known
<1> HIDE DEF ids
<1>5. ids \in Seq(Ids) /\ IsInjective(ids) /\ Len(ids) \in Nat
  BY <1>3 DEF Lists
<1>6. ASSUME Len(ids) > KnownLimit
      PROVE  SubSeq(ids, Len(ids) - KnownLimit + 1, Len(ids)) \in Lists(Ids)
  <2> DEFINE m == Len(ids) - KnownLimit
             t == SubSeq(ids, m + 1, Len(ids))
  <2>1. /\ m \in Nat /\ t \in Seq(Ids) /\ Len(t) = KnownLimit
        /\ \A i \in 1 .. Len(t) : t[i] = ids[m + i] /\ m + i \in 1 .. Len(ids)
    BY <1>1, <1>5, <1>6
  <2> HIDE DEF t, m
  <2>2. ASSUME NEW a \in DOMAIN t, NEW b \in DOMAIN t, t[a] = t[b] PROVE a = b
    <3>1. DOMAIN t = 1 .. Len(t) /\ DOMAIN ids = 1 .. Len(ids)
      BY <1>5, <2>1
    <3>2. m + a = m + b
      BY <1>5, <2>1, <2>2, <3>1 DEF IsInjective
    <3>3. QED
      BY <1>1, <2>1, <3>1, <3>2
  <2>3. QED
    BY <2>1, <2>2 DEF Lists, IsInjective, t, m
<1>7. Roomy => ~(Len(ids) > KnownLimit)
  <2>1. SUFFICES ASSUME Roomy PROVE ~(Len(ids) > KnownLimit)
    OBVIOUS
  <2>2. Len(ids) <= Cardinality(Ids) /\ Cardinality(Ids) <= KnownLimit /\ Cardinality(Ids) \in Nat
    BY <1>3, <2>1, ListFits, FS_CardinalityType DEF Roomy
  <2>3. QED
    BY <1>1, <1>5, <2>2
<1>8. QED
  BY <1>2, <1>3, <1>4, <1>6, <1>7

\* An alert that may be left out.
LEMMA IfList ==
  ASSUME NEW S, NEW condition \in BOOLEAN, NEW alert \in S
  PROVE  /\ If(condition, alert) \in Lists(S)
         /\ \A a : Contains(If(condition, alert), a) <=> condition /\ a = alert
<1>1. CASE condition
  BY <1>1, ShortLists DEF If
<1>2. CASE ~condition
  BY <1>2, ShortLists DEF If
<1>3. QED
  BY <1>1, <1>2

\* The alerts for new ids.
LEMMA NativeAlerts ==
  ASSUME NEW ids \in Lists(Ids)
  PROVE  LET natives == [i \in DOMAIN ids |-> NativeAlert(ids[i])]
         IN  /\ natives \in Lists(AlertSet)
             /\ \A a : Contains(natives, a) <=> \E id \in Ids : Contains(ids, id) /\ a = NativeAlert(id)
<1> DEFINE natives == [i \in DOMAIN ids |-> NativeAlert(ids[i])]
<1>1. ids \in Seq(Ids) /\ IsInjective(ids) /\ DOMAIN ids = 1 .. Len(ids) /\ Len(ids) \in Nat
  BY DEF Lists
<1>2. \A id \in Ids : NativeAlert(id) \in AlertSet /\ NativeAlert(id)[3] = id
  BY DEF AlertSet, NativeAlert
<1>3. \A i \in 1 .. Len(ids) : ids[i] \in Ids
  BY <1>1
<1>4. natives \in Seq(AlertSet) /\ Len(natives) = Len(ids) /\ DOMAIN natives = 1 .. Len(ids)
  BY <1>1, <1>2, <1>3
<1>5. \A i \in 1 .. Len(ids) : natives[i] = NativeAlert(ids[i])
  BY <1>1
<1> HIDE DEF natives
<1>6. IsInjective(natives)
  BY <1>1, <1>2, <1>3, <1>4, <1>5 DEF IsInjective
<1>7. \A a : Contains(natives, a) <=> \E id \in Ids : Contains(ids, id) /\ a = NativeAlert(id)
  BY <1>3, <1>4, <1>5 DEF Contains
<1>8. QED
  BY <1>4, <1>6, <1>7 DEF Lists, natives

\* Statuses and kinds, one by one.
LEMMA KnownStatuses ==
  /\ AllStatuses = {"idle", "running", "waiting_for_input", "waiting_for_approval", "error"}
  /\ AlertKinds = {"completed", "approval_required", "input_required", "error"}
  BY DEF AllStatuses, AlertKinds

\* What the row records is never forgotten, unless it has no room.
LEMMA RowRemembers ==
  ASSUME NEW row \in Rows, NEW snapshot \in SnapshotSet, NEW native \in Lists(Ids)
  PROVE  /\ NextState(row, snapshot, native) \in Rows
         /\ \A a \in AlertSet : Tracked(a) /\ Recorded(row, a)
                               => Recorded(NextState(row, snapshot, native), a)
<1> DEFINE next == NextState(row, snapshot, native)
<1>1. row.cycle \in Nat /\ row.fallback \in BOOLEAN
  BY DEF Rows
<1>2. snapshot.status \in AllStatuses \cup {"none"} /\ snapshot.at \in Nat
  BY DEF SnapshotSet
<1>3. StateCycle(row, snapshot) \in Nat /\ row.cycle <= StateCycle(row, snapshot)
  BY <1>1 DEF StateCycle
<1>4. /\ next.cycle = StateCycle(row, snapshot) /\ next.known = Known(row, native)
      /\ next.status = snapshot.status /\ next.at = snapshot.at
  BY DEF NextState
<1>5. next \in Rows
  <2>1. FallsBack(row, snapshot, native) \in BOOLEAN
    BY DEF FallsBack
  <2>2. QED
    BY <1>1, <1>2, <1>3, <2>1, KnownIds DEF NextState, Rows
<1> HIDE DEF next
<1>6. ASSUME NEW a \in AlertSet, Tracked(a), Recorded(row, a) PROVE Recorded(next, a)
  <2>1. CASE IsCycle(a)
    <3>1. a[3] \in Nat
      BY <2>1 DEF AlertSet, IsCycle
    <3>2. QED
      BY <1>1, <1>3, <1>4, <1>6, <2>1, <3>1 DEF Recorded
  <2>2. CASE ~IsCycle(a)
    <3>1. Roomy /\ Contains(row.known, a[3])
      BY <1>6, <2>2 DEF Tracked, Recorded
    <3>2. Contains(Known(row, native), a[3])
      BY <3>1, KnownIds
    <3>3. QED
      BY <1>4, <2>2, <3>2 DEF Recorded
  <2>3. QED
    BY <2>1, <2>2
<1>7. QED
  BY <1>5, <1>6 DEF next

\* The alerts of a comparison are all different, were not recorded before it, and
\* are after it.
LEMMA AlertsAreNew ==
  ASSUME NEW row \in Rows, NEW snapshot \in SnapshotSet, NEW native \in Lists(Ids)
  PROVE  /\ Alerts(row, snapshot, native) \in Lists(AlertSet)
         /\ \A a : Contains(Alerts(row, snapshot, native), a) /\ Tracked(a)
                   => /\ ~Recorded(row, a)
                      /\ Recorded(NextState(row, snapshot, native), a)
<1> DEFINE next == NextState(row, snapshot, native)
           cycle == StateCycle(row, snapshot)
           ids == Unknown(row, native)
           natives == IF Absorbs(row) THEN << >> ELSE [i \in DOMAIN ids |-> NativeAlert(ids[i])]
           completes == row.status = "running" /\ snapshot.status = "idle"
           asks == Enters(row, snapshot, "waiting_for_input")
           fails == Enters(row, snapshot, "error")
           falls == FallsBack(row, snapshot, native)
           completed == If(completes, CompletedAlert(row.at, snapshot.at))
           input == If(asks, CycleAlert("input_required", cycle))
           error == If(fails, CycleAlert("error", cycle))
           fallback == If(falls, CycleAlert("approval_required", cycle))
<1>1. CASE row = NoState
  <2>1. Alerts(row, snapshot, native) = << >>
    BY <1>1 DEF Alerts
  <2>2. QED
    BY <2>1, ShortLists
<1>2. CASE row # NoState
  <2>1. Alerts(row, snapshot, native) = natives \o completed \o input \o error \o fallback
    BY <1>2 DEF Alerts
  <2>2. /\ row.cycle \in Nat /\ row.at \in Nat /\ snapshot.at \in Nat
        /\ cycle = IF row.status # snapshot.status THEN row.cycle + 1 ELSE row.cycle
    BY <1>2 DEF Rows, SnapshotSet, StateCycle
  <2>3. cycle \in Nat /\ next.cycle = cycle /\ next.known = Known(row, native)
    BY <2>2 DEF NextState
  <2>4. \A kind \in {"input_required", "error", "approval_required"} :
          /\ CycleAlert(kind, cycle) \in AlertSet
          /\ CycleAlert(kind, cycle)[1] = kind
          /\ CycleAlert(kind, cycle)[2] = "cycle" /\ CycleAlert(kind, cycle)[3] = cycle
    BY <2>3, KnownStatuses DEF CycleAlert, AlertSet
  <2>5. /\ CompletedAlert(row.at, snapshot.at) \in AlertSet
        /\ CompletedAlert(row.at, snapshot.at)[2] = "times"
    BY <2>2 DEF CompletedAlert, AlertSet
  <2>6. /\ ids \in Lists(Ids)
        /\ \A id : Contains(ids, id) <=> Contains(native, id) /\ ~Contains(row.known, id)
    BY UnknownIds
  <2>7. /\ natives \in Lists(AlertSet)
        /\ \A a : Contains(natives, a) =>
             \E id \in Ids : /\ a = NativeAlert(id) /\ Contains(native, id)
                            /\ ~Contains(row.known, id)
    <3>1. CASE Absorbs(row)
      BY <3>1, ShortLists
    <3>2. CASE ~Absorbs(row)
      <4>1. natives = [i \in DOMAIN ids |-> NativeAlert(ids[i])]
        BY <3>2
      <4> HIDE DEF ids
      <4>2. QED
        BY <2>6, <4>1, NativeAlerts
    <3>3. QED
      BY <3>1, <3>2
  <2>8. \A id : NativeAlert(id)[1] = "approval_required" /\ NativeAlert(id)[2] = "id" /\ NativeAlert(id)[3] = id
    BY DEF NativeAlert
  <2>9. asks \in BOOLEAN /\ fails \in BOOLEAN /\ falls \in BOOLEAN /\ completes \in BOOLEAN
    BY DEF Enters, FallsBack
  <2>10. asks \/ fails \/ falls => cycle = row.cycle + 1
    BY <2>2 DEF Enters, FallsBack
  <2> HIDE DEF completes, asks, fails, falls
  <2>11. /\ completed \in Lists(AlertSet)
         /\ \A a : Contains(completed, a) <=> completes /\ a = CompletedAlert(row.at, snapshot.at)
    BY <2>5, <2>9, IfList
  <2>12. /\ input \in Lists(AlertSet)
         /\ \A a : Contains(input, a) <=> asks /\ a = CycleAlert("input_required", cycle)
    BY <2>4, <2>9, IfList
  <2>13. /\ error \in Lists(AlertSet)
         /\ \A a : Contains(error, a) <=> fails /\ a = CycleAlert("error", cycle)
    BY <2>4, <2>9, IfList
  <2>14. /\ fallback \in Lists(AlertSet)
         /\ \A a : Contains(fallback, a) <=> falls /\ a = CycleAlert("approval_required", cycle)
    BY <2>4, <2>9, IfList
  <2> HIDE DEF natives, completed, input, error, fallback, cycle, ids, next
  <2>15. /\ natives \o completed \in Lists(AlertSet)
         /\ \A a : Contains(natives \o completed, a) <=> Contains(natives, a) \/ Contains(completed, a)
    <3>1. \A a : ~(Contains(natives, a) /\ Contains(completed, a))
      BY <2>5, <2>7, <2>8, <2>11
    <3>2. QED
      BY <2>7, <2>11, <3>1, JoinLists
  <2>16. /\ natives \o completed \o input \in Lists(AlertSet)
         /\ \A a : Contains(natives \o completed \o input, a)
                    <=> Contains(natives \o completed, a) \/ Contains(input, a)
    <3>1. \A a : ~(Contains(natives \o completed, a) /\ Contains(input, a))
      BY <2>4, <2>5, <2>7, <2>8, <2>11, <2>12, <2>15
    <3>2. QED
      BY <2>12, <2>15, <3>1, JoinLists
  <2>17. /\ natives \o completed \o input \o error \in Lists(AlertSet)
         /\ \A a : Contains(natives \o completed \o input \o error, a)
                    <=> Contains(natives \o completed \o input, a) \/ Contains(error, a)
    <3>1. CycleAlert("input_required", cycle) # CycleAlert("error", cycle)
      BY DEF CycleAlert
    <3>2. \A a : ~(Contains(natives \o completed \o input, a) /\ Contains(error, a))
      BY <2>4, <2>5, <2>7, <2>8, <2>11, <2>12, <2>13, <2>15, <2>16, <3>1
    <3>3. QED
      BY <2>13, <2>16, <3>2, JoinLists
  <2>18. /\ natives \o completed \o input \o error \o fallback \in Lists(AlertSet)
         /\ \A a : Contains(natives \o completed \o input \o error \o fallback, a)
                    <=> Contains(natives \o completed \o input \o error, a) \/ Contains(fallback, a)
    <3>1. /\ CycleAlert("input_required", cycle) # CycleAlert("approval_required", cycle)
          /\ CycleAlert("error", cycle) # CycleAlert("approval_required", cycle)
      BY DEF CycleAlert
    <3>2. \A a : ~(Contains(natives \o completed \o input \o error, a) /\ Contains(fallback, a))
      BY <2>4, <2>5, <2>7, <2>8, <2>11, <2>12, <2>13, <2>14, <2>15, <2>16, <2>17, <3>1
    <3>3. QED
      BY <2>14, <2>17, <3>2, JoinLists
  <2>19. ASSUME NEW a, Contains(Alerts(row, snapshot, native), a), Tracked(a)
         PROVE  ~Recorded(row, a) /\ Recorded(next, a)
    <3>1. \/ Contains(natives, a)
          \/ a = CompletedAlert(row.at, snapshot.at)
          \/ /\ a[2] = "cycle" /\ a[3] = cycle /\ cycle = row.cycle + 1
      <4>1. CycleAlert("input_required", cycle)[2] = "cycle" /\ CycleAlert("input_required", cycle)[3] = cycle
        BY <2>4
      <4>2. CycleAlert("error", cycle)[2] = "cycle" /\ CycleAlert("error", cycle)[3] = cycle
        BY <2>4
      <4>3. /\ CycleAlert("approval_required", cycle)[2] = "cycle"
            /\ CycleAlert("approval_required", cycle)[3] = cycle
        BY <2>4
      <4>4. QED
        BY <2>1, <2>11, <2>12, <2>13, <2>14, <2>10, <2>15, <2>16, <2>17, <2>18, <2>19, <4>1, <4>2, <4>3
    <3>2. CASE Contains(natives, a)
      <4>1. PICK id \in Ids : a = NativeAlert(id) /\ Contains(native, id) /\ ~Contains(row.known, id)
        BY <2>7, <3>2
      <4>2. ~IsCycle(a) /\ a[3] = id
        BY <2>8, <4>1 DEF IsCycle
      <4>3. Contains(Known(row, native), id)
        BY <2>19, <4>1, <4>2, KnownIds DEF Tracked
      <4>4. QED
        BY <2>3, <4>1, <4>2, <4>3 DEF Recorded
    <3>3. CASE a = CompletedAlert(row.at, snapshot.at)
      BY <2>5, <2>19, <3>3 DEF Tracked, IsCycle
    <3>4. CASE a[2] = "cycle" /\ a[3] = cycle /\ cycle = row.cycle + 1
      BY <2>2, <2>3, <3>4 DEF Recorded, IsCycle
    <3>5. QED
      BY <3>1, <3>2, <3>3, <3>4
  <2>20. QED
    BY <2>1, <2>18, <2>19 DEF next
<1>3. QED
  BY <1>1, <1>2

(***************************************************************************)
(* The steps                                                               *)
(***************************************************************************)

\* The pipeline starts sound.
LEMMA InitIsSound == Init => AlertInv
<1> SUFFICES ASSUME Init PROVE AlertInv
  OBVIOUS
<1>1. /\ codex = [status |-> "idle", at |-> 0, approvals |-> << >>, asked |-> {}]
      /\ feed = << >> /\ clock = 0 /\ hub = NoSnapshot /\ table = NoState
      /\ live = Idle /\ mon = Idle /\ lister = Idle
      /\ announced = {} /\ repeated = {}
  BY DEF Init
<1>2. CodexWellFormed
  BY <1>1, KnownStatuses DEF CodexWellFormed
<1>3. TasksWellFormed
  BY <1>1, ShortLists DEF TasksWellFormed, SnapshotSet, NoSnapshot
<1>4. RowWellFormed
  BY <1>1, ShortLists DEF RowWellFormed, Rows, NoState
<1>5. Detected(live) = {} /\ Detected(mon) = {}
  BY <1>1 DEF Detected, Idle
<1>6. AllRecorded /\ InOnePlace
  BY <1>1, <1>5 DEF AllRecorded, InOnePlace
<1>7. QED
  BY <1>2, <1>3, <1>4, <1>6 DEF AlertInv

\* What waits may shrink, or go away.
LEMMA FewerWait ==
  ASSUME AllRecorded, InOnePlace,
         Detected(live)' \subseteq Detected(live), Detected(mon)' \subseteq Detected(mon),
         UNCHANGED <<table, announced, repeated>>
  PROVE  AllRecorded' /\ InOnePlace'
  BY DEF AllRecorded, InOnePlace

\* One more notification is under way.
LEMMA OneMoreNotice ==
  ASSUME feed \in Seq(Notices), NEW n \in Notices, feed' = Append(feed, n)
  PROVE  feed' \in Seq(Notices)
  OBVIOUS

\* Codex changes nothing but itself and what is under way.
LEMMA CodexSteps ==
  ASSUME AlertInv,
         \/ \E status \in Statuses : CodexStatus(status)
         \/ CodexWaits \/ (\E request \in Prompts : CodexAsks(request))
         \/ CodexAnswered \/ FeedLost
  PROVE  AlertInv'
<1>1. UNCHANGED <<hub, table, live, mon, lister, announced, repeated>>
  BY DEF CodexStatus, CodexWaits, CodexAsks, CodexAnswered, FeedLost, bridge, history, dispatched
<1>2. TasksWellFormed' /\ RowWellFormed' /\ AllRecorded' /\ InOnePlace'
  BY <1>1 DEF AlertInv, TasksWellFormed, RowWellFormed, AllRecorded, InOnePlace, Detected
<1>3. /\ codex.status \in AllStatuses /\ codex.at \in Nat /\ clock \in Nat
      /\ codex.approvals \in Seq(Prompts) /\ Len(codex.approvals) <= 1 /\ feed \in Seq(Notices)
  BY DEF AlertInv, CodexWellFormed
<1>4. Statuses \subseteq AllStatuses /\ ChangeTime \in Nat
  BY <1>3, AlertPipelineAssumption DEF ChangeTime
<1>5. CodexWellFormed'
  <2>1. ASSUME NEW status \in Statuses, CodexStatus(status) PROVE CodexWellFormed'
    <3>1. [kind |-> "status", status |-> status, at |-> ChangeTime] \in Notices
      BY <1>4 DEF Notices
    <3>2. feed' \in Seq(Notices) /\ clock' \in Nat
      <4>1. feed' = Append(feed, [kind |-> "status", status |-> status, at |-> ChangeTime])
        BY <2>1 DEF CodexStatus
      <4>2. clock' = clock + 1
        BY <2>1 DEF CodexStatus
      <4>3. QED
        BY <1>3, <3>1, <4>1, <4>2, OneMoreNotice
    <3>3. codex' = [codex EXCEPT !.status = status, !.at = ChangeTime, !.approvals = << >>]
      BY <2>1 DEF CodexStatus
    <3>4. QED
      BY <1>3, <1>4, <3>2, <3>3 DEF CodexWellFormed
  <2>2. CASE CodexWaits
    <3>1. [kind |-> "status", status |-> "waiting_for_approval", at |-> ChangeTime] \in Notices
      BY <1>4, KnownStatuses DEF Notices
    <3>2. feed' \in Seq(Notices) /\ clock' \in Nat
      <4>1. feed' = Append(feed, [kind |-> "status", status |-> "waiting_for_approval", at |-> ChangeTime])
        BY <2>2 DEF CodexWaits
      <4>2. clock' = clock + 1
        BY <2>2 DEF CodexWaits
      <4>3. QED
        BY <1>3, <3>1, <4>1, <4>2, OneMoreNotice
    <3>3. codex' = [codex EXCEPT !.status = "waiting_for_approval", !.at = ChangeTime]
      BY <2>2 DEF CodexWaits
    <3>4. QED
      BY <1>3, <1>4, <3>2, <3>3, KnownStatuses DEF CodexWellFormed
  <2>3. ASSUME NEW request \in Prompts, CodexAsks(request) PROVE CodexWellFormed'
    <3> DEFINE at == IF clock' = clock THEN codex.at ELSE ChangeTime
    <3>1. codex' = [status |-> "waiting_for_approval", at |-> at,
                    approvals |-> Append(codex.approvals, request),
                    asked |-> codex.asked \cup {request}]
      BY <2>3, Zenon DEF CodexAsks
    <3>2. feed' = Append(feed, [kind |-> "approval", request |-> request, at |-> at])
      BY <2>3, Zenon DEF CodexAsks
    <3>3. clock' \in {clock, clock + 1} /\ codex.approvals = << >>
      BY <2>3 DEF CodexAsks
    <3>4. at \in Nat /\ clock' \in Nat
      BY <1>3, <1>4, <3>3
    <3> HIDE DEF at
    <3>5. feed' \in Seq(Notices)
      <4>1. [kind |-> "approval", request |-> request, at |-> at] \in Notices
        BY <3>4 DEF Notices
      <4>2. QED
        BY <1>3, <3>2, <4>1, OneMoreNotice
    <3>6. Append(codex.approvals, request) \in Seq(Prompts) /\ Len(Append(codex.approvals, request)) <= 1
      BY <1>3, <3>3
    <3>7. QED
      BY <3>1, <3>4, <3>5, <3>6, KnownStatuses DEF CodexWellFormed
  <2>4. CASE CodexAnswered
    BY <1>3, <2>4 DEF CodexWellFormed, CodexAnswered
  <2>5. CASE FeedLost
    BY <1>3, <2>5 DEF CodexWellFormed, FeedLost
  <2>6. QED
    BY <2>1, <2>2, <2>3, <2>4, <2>5
<1>6. QED
  BY <1>2, <1>5 DEF AlertInv

\* A notification that is applied to a snapshot leaves a snapshot.
LEMMA MergeIsSnapshot ==
  ASSUME NEW base \in SnapshotSet, NEW n \in Notices, clock \in Nat
  PROVE  Merge(base, n) \in SnapshotSet
<1>1. base.status \in AllStatuses \cup {"none"} /\ base.at \in Nat /\ base.approvals \in Lists(Ids)
  BY DEF SnapshotSet
<1>2. n.at \in Nat /\ n.kind \in {"status", "approval"}
  BY DEF Notices
<1>3. n.kind = "status" => n.status \in AllStatuses
  BY DEF Notices
<1>4. n.kind = "approval" => n.request \in Prompts
  BY DEF Notices
<1>5. ReceivedAt(n) \in Nat
  BY <1>2 DEF ReceivedAt
<1>6. ASSUME n.kind = "approval", ~Contains(base.approvals, LiveId(n.request))
      PROVE  Append(base.approvals, LiveId(n.request)) \in Lists(Ids)
  <2>1. LiveId(n.request) \in Ids
    BY <1>4, <1>6 DEF Ids
  <2>2. QED
    BY <1>1, <1>6, <2>1, AppendList
<1>7. LiveStatus(n) \in AllStatuses
  BY <1>2, <1>3, KnownStatuses DEF LiveStatus
<1>8. QED
  BY <1>1, <1>2, <1>5, <1>6, <1>7 DEF Merge, SnapshotSet

\* What the invariant says of each task in each of its states.
LEMMA InvParts ==
  ASSUME AlertInv
  PROVE  /\ codex.status \in AllStatuses /\ codex.at \in Nat /\ clock \in Nat
         /\ feed \in Seq(Notices)
         /\ hub \in SnapshotSet /\ table \in Rows
         /\ live.pc \in {"write", "detect"} => live \in [pc : {"write", "detect"}, snapshot : SnapshotSet]
         /\ live.pc = "dispatch" => live \in Waiting
         /\ mon.pc = "listed" => mon \in [pc : {"listed"}, snapshot : SnapshotSet]
         /\ mon.pc = "detect" => mon \in [pc : {"detect"}, snapshot : SnapshotSet, native : Lists(Ids)]
         /\ mon.pc = "dispatch" => mon \in Waiting
         /\ lister.pc = "write" => lister \in [pc : {"write"}, snapshot : SnapshotSet]
<1>1. Idle.pc = "idle"
  BY DEF Idle
<1>2. \A w \in Waiting : w.pc = "dispatch"
  BY DEF Waiting
<1>3. QED
  BY <1>1, <1>2 DEF AlertInv, CodexWellFormed, TasksWellFormed, RowWellFormed

\* A task that is not dispatching has nothing that waits.
LEMMA NothingWaits == \A process : process.pc # "dispatch" => Detected(process) = {}
  BY DEF Detected

\* The steps of a task before its comparison, and of the lister.
LEMMA ReadingSteps ==
  ASSUME AlertInv, LiveTake \/ LiveWrite \/ MonitorList \/ MonitorApprovals \/ ListerRead \/ ListerWrite
  PROVE  AlertInv'
<1>1. UNCHANGED <<table, announced, repeated>> /\ UNCHANGED codex /\ UNCHANGED clock
  BY DEF LiveTake, LiveWrite, MonitorList, MonitorApprovals, ListerRead, ListerWrite, history, dispatched
<1>2. Detected(live)' = Detected(live) /\ Detected(mon)' = Detected(mon)
  <2>1. CASE LiveTake
    <3>1. live.pc = "idle" /\ live'.pc = "write" /\ mon' = mon
      BY <2>1 DEF LiveTake
    <3>2. QED
      BY <3>1 DEF Detected
  <2>2. CASE LiveWrite
    <3>1. live.pc = "write" /\ live' = [live EXCEPT !.pc = "detect"] /\ mon' = mon
      BY <2>2 DEF LiveWrite
    <3>2. live'.pc = "detect"
      BY <3>1, InvParts
    <3>3. QED
      BY <3>1, <3>2 DEF Detected
  <2>3. CASE MonitorList
    <3>1. mon.pc = "idle" /\ mon'.pc = "listed" /\ live' = live
      BY <2>3 DEF MonitorList
    <3>2. QED
      BY <3>1 DEF Detected
  <2>4. CASE MonitorApprovals
    <3>1. mon.pc = "listed" /\ mon'.pc = "detect" /\ live' = live
      BY <2>4 DEF MonitorApprovals
    <3>2. QED
      BY <3>1 DEF Detected
  <2>5. CASE ListerRead \/ ListerWrite
    BY <2>5 DEF ListerRead, ListerWrite, Detected
  <2>6. QED
    BY <2>1, <2>2, <2>3, <2>4, <2>5
<1>3. AllRecorded' /\ InOnePlace' /\ RowWellFormed'
  BY <1>1, <1>2, FewerWait DEF AlertInv, RowWellFormed
<1>4. CodexWellFormed'
  <2>1. feed' = feed \/ (feed # << >> /\ feed' = Tail(feed))
    BY DEF LiveTake, LiveWrite, MonitorList, MonitorApprovals, ListerRead, ListerWrite
  <2>2. feed \in Seq(Notices) => feed' \in Seq(Notices)
    BY <2>1
  <2>3. QED
    BY <1>1, <2>2 DEF AlertInv, CodexWellFormed
<1>5. TasksWellFormed'
  <2>1. CASE LiveTake
    <3> DEFINE n == Head(feed)
               base == IF hub = NoSnapshot
                         THEN [status |-> "idle", at |-> ReceivedAt(n), approvals |-> << >>] ELSE hub
    <3>1. n \in Notices /\ clock \in Nat
      BY <2>1, InvParts DEF LiveTake
    <3>2. ReceivedAt(n) \in Nat
      BY <3>1 DEF ReceivedAt, Notices
    <3>3. base \in SnapshotSet
      <4> HIDE DEF n
      <4>1. [status |-> "idle", at |-> ReceivedAt(n), approvals |-> << >>] \in SnapshotSet
        BY <3>2, KnownStatuses, ShortLists DEF SnapshotSet
      <4>2. QED
        BY <4>1, InvParts
    <3>4. live' = [pc |-> "write", snapshot |-> Merge(base, n)] /\ UNCHANGED <<hub, mon, lister>>
      BY <2>1 DEF LiveTake
    <3> HIDE DEF n, base
    <3>5. Merge(base, n) \in SnapshotSet
      BY <3>1, <3>3, MergeIsSnapshot
    <3>6. QED
      BY <3>4, <3>5 DEF AlertInv, TasksWellFormed
  <2>2. CASE LiveWrite
    BY <2>2, InvParts DEF LiveWrite, AlertInv, TasksWellFormed
  <2>3. Polled \in SnapshotSet
    BY InvParts, ShortLists DEF Polled, SnapshotSet
  <2>4. CASE MonitorList
    BY <2>3, <2>4 DEF MonitorList, AlertInv, TasksWellFormed
  <2>5. CASE MonitorApprovals
    <3> DEFINE native == [i \in DOMAIN codex.approvals |-> PolledId(codex.approvals[i])]
    <3>1. codex.approvals \in Seq(Prompts) /\ Len(codex.approvals) <= 1
      BY DEF AlertInv, CodexWellFormed
    <3>2. \A p \in Prompts : PolledId(p) \in Ids
      BY DEF Ids
    <3>3. DOMAIN native = 1 .. Len(codex.approvals) /\ Len(codex.approvals) \in Nat
      BY <3>1
    <3>4. \A i \in 1 .. Len(codex.approvals) : native[i] \in Ids
      BY <3>1, <3>2
    <3>5. native \in Seq(Ids)
      <4>1. \A i \in DOMAIN codex.approvals : PolledId(codex.approvals[i]) \in Ids
        BY <3>1, <3>2
      <4>2. QED
        BY <3>1, <4>1
    <3>6. IsInjective(native)
      BY <3>1, <3>3 DEF IsInjective
    <3>7. mon' = [pc |-> "detect", snapshot |-> mon.snapshot, native |-> native]
      BY <2>5 DEF MonitorApprovals
    <3>8. native \in Lists(Ids) /\ mon.snapshot \in SnapshotSet
      BY <2>5, <3>5, <3>6, InvParts DEF Lists, MonitorApprovals
    <3> HIDE DEF native
    <3>9. UNCHANGED <<hub, live, lister>>
      BY <2>5 DEF MonitorApprovals
    <3>10. QED
      BY <3>7, <3>8, <3>9 DEF AlertInv, TasksWellFormed
  <2>6. CASE ListerRead
    <3>1. PICK snapshot \in {Polled, hub} : lister' = [pc |-> "write", snapshot |-> snapshot]
      BY <2>6 DEF ListerRead
    <3>2. snapshot \in SnapshotSet
      BY <2>3, <3>1, InvParts
    <3>3. UNCHANGED <<hub, live, mon>>
      BY <2>6 DEF ListerRead
    <3>4. QED
      BY <3>1, <3>2, <3>3 DEF AlertInv, TasksWellFormed
  <2>7. CASE ListerWrite
    BY <2>7, InvParts DEF ListerWrite, AlertInv, TasksWellFormed
  <2>8. QED
    BY <2>1, <2>2, <2>4, <2>5, <2>6, <2>7
<1>6. QED
  BY <1>3, <1>4, <1>5 DEF AlertInv

\* The alerts of a comparison begin to wait; the row has been through them.
LEMMA ComparisonSound ==
  ASSUME NEW waits, NEW other, AlertInv,
         NEW snapshot \in SnapshotSet, NEW native \in Lists(Ids),
         Detected(live) \cup Detected(mon) = other,
         table' = NextState(table, snapshot, native),
         \A a : a \in waits <=> Contains(Alerts(table, snapshot, native), a),
         UNCHANGED <<announced, repeated>>,
         \/ Detected(live) = {} /\ Detected(live)' = waits /\ Detected(mon)' = Detected(mon)
         \/ Detected(mon) = {} /\ Detected(mon)' = waits /\ Detected(live)' = Detected(live)
  PROVE  AllRecorded' /\ InOnePlace' /\ RowWellFormed'
<1>1. table \in Rows /\ AllRecorded /\ InOnePlace
  BY DEF AlertInv, RowWellFormed
<1>2. /\ table' \in Rows
      /\ \A a \in AlertSet : Tracked(a) /\ Recorded(table, a) => Recorded(table', a)
  BY <1>1, RowRemembers
<1>3. /\ Alerts(table, snapshot, native) \in Lists(AlertSet)
      /\ \A a : Contains(Alerts(table, snapshot, native), a) /\ Tracked(a)
               => ~Recorded(table, a) /\ Recorded(table', a)
  BY <1>1, AlertsAreNew
<1>4. \A a \in waits : a \in AlertSet /\ (Tracked(a) => ~Recorded(table, a) /\ Recorded(table', a))
  BY <1>3 DEF Lists, Contains
<1>5. \A a \in announced \cup other :
        a \in AlertSet /\ (Tracked(a) => Recorded(table, a) /\ Recorded(table', a))
  BY <1>1, <1>2 DEF AllRecorded
<1>6. Detected(live)' \cup Detected(mon)' = other \cup waits
  OBVIOUS
<1>7. AllRecorded'
  <2>1. \A alert \in announced \cup other \cup waits :
          alert \in AlertSet /\ (Tracked(alert) => Recorded(table', alert))
    BY <1>4, <1>5
  <2>2. QED
    BY <1>6, <2>1 DEF AllRecorded
<1>8. InOnePlace'
  <2>1. \A a : Tracked(a) /\ a \in waits => a \notin announced \cup other
    BY <1>4, <1>5
  <2>2. \A a \in repeated : ~Tracked(a)
    BY <1>1 DEF InOnePlace
  <2>3. \A a \in announced : Tracked(a) => a \notin Detected(live) \cup Detected(mon)
    BY <1>1 DEF InOnePlace
  <2>4. QED
    BY <1>1, <2>1, <2>2, <2>3 DEF InOnePlace
<1>9. QED
  BY <1>2, <1>7, <1>8 DEF RowWellFormed

\* What waits after a comparison is what it found.
LEMMA FoundWaits ==
  ASSUME NEW alerts \in Lists(AlertSet)
  PROVE  /\ Dispatching(alerts) \in {Idle} \cup Waiting
         /\ \A a : a \in Detected(Dispatching(alerts)) <=> Contains(alerts, a)
<1>1. alerts \in Seq(AlertSet)
  BY DEF Lists
<1>2. CASE alerts = << >>
  BY <1>2, ShortLists DEF Dispatching, Detected, Idle
<1>3. CASE alerts # << >>
  BY <1>1, <1>3, MembersOfList DEF Dispatching, Detected, Waiting
<1>4. QED
  BY <1>2, <1>3

\* The live path compares with the row.
LEMMA LiveCompares ==
  ASSUME AlertInv, LiveDetect
  PROVE  AlertInv'
<1> DEFINE snapshot == live.snapshot
<1>1. live.pc = "detect" /\ UNCHANGED <<codex, feed, clock, hub, mon, lister, announced, repeated>>
  BY DEF LiveDetect, history, dispatched
<1>2. snapshot \in SnapshotSet /\ snapshot.approvals \in Lists(Ids)
  BY <1>1, InvParts DEF SnapshotSet
<1>3. Detected(live) = {} /\ Detected(mon)' = Detected(mon)
  BY <1>1, NothingWaits DEF Detected
<1>4. CodexWellFormed'
  BY <1>1 DEF AlertInv, CodexWellFormed
<1>5. CASE Stale(table, snapshot)
  <2>1. table' = table /\ live' = Idle
    BY <1>5 DEF LiveDetect, Dispatching
  <2>2. Detected(live)' = {}
    BY <2>1 DEF Detected, Idle
  <2>3. AllRecorded' /\ InOnePlace' /\ RowWellFormed'
    BY <1>1, <1>3, <2>1, <2>2, FewerWait DEF AlertInv, RowWellFormed
  <2>4. TasksWellFormed'
    BY <1>1, <2>1 DEF AlertInv, TasksWellFormed
  <2>5. QED
    BY <1>4, <2>3, <2>4 DEF AlertInv
<1>6. CASE ~Stale(table, snapshot)
  <2> DEFINE alerts == Alerts(table, snapshot, snapshot.approvals)
  <2>1. table' = NextState(table, snapshot, snapshot.approvals) /\ live' = Dispatching(alerts)
    BY <1>6 DEF LiveDetect
  <2>2. alerts \in Lists(AlertSet)
    BY <1>2, InvParts, AlertsAreNew
  <2> HIDE DEF snapshot
  <2>3. /\ live' \in {Idle} \cup Waiting
        /\ \A a : a \in Detected(live') <=> Contains(alerts, a)
    BY <2>1, <2>2, FoundWaits
  <2>4. Detected(live)' = Detected(live')
    BY DEF Detected
  <2>5. AllRecorded' /\ InOnePlace' /\ RowWellFormed'
    BY <1>1, <1>2, <1>3, <2>1, <2>3, <2>4, ComparisonSound
  <2>6. TasksWellFormed'
    BY <1>1, <2>3 DEF AlertInv, TasksWellFormed
  <2>7. QED
    BY <1>4, <2>5, <2>6 DEF AlertInv
<1>7. QED
  BY <1>5, <1>6

\* The monitor compares with the row.
LEMMA MonitorCompares ==
  ASSUME AlertInv, MonitorDetect
  PROVE  AlertInv'
<1> DEFINE snapshot == mon.snapshot
           native == mon.native
<1>1. mon.pc = "detect" /\ UNCHANGED <<codex, feed, clock, hub, live, lister, announced, repeated>>
  BY DEF MonitorDetect, history, dispatched
<1>2. snapshot \in SnapshotSet /\ native \in Lists(Ids)
  BY <1>1, InvParts
<1>3. Detected(mon) = {} /\ Detected(live)' = Detected(live)
  BY <1>1, NothingWaits DEF Detected
<1>4. CodexWellFormed'
  BY <1>1 DEF AlertInv, CodexWellFormed
<1>5. CASE Stale(table, snapshot)
  <2>1. table' = table /\ mon' = Idle
    BY <1>5 DEF MonitorDetect, Dispatching
  <2>2. Detected(mon)' = {}
    BY <2>1 DEF Detected, Idle
  <2>3. AllRecorded' /\ InOnePlace' /\ RowWellFormed'
    BY <1>1, <1>3, <2>1, <2>2, FewerWait DEF AlertInv, RowWellFormed
  <2>4. TasksWellFormed'
    BY <1>1, <2>1 DEF AlertInv, TasksWellFormed
  <2>5. QED
    BY <1>4, <2>3, <2>4 DEF AlertInv
<1>6. CASE ~Stale(table, snapshot)
  <2> DEFINE alerts == Alerts(table, snapshot, native)
  <2>1. table' = NextState(table, snapshot, native) /\ mon' = Dispatching(alerts)
    BY <1>6 DEF MonitorDetect
  <2>2. alerts \in Lists(AlertSet)
    BY <1>2, InvParts, AlertsAreNew
  <2> HIDE DEF snapshot, native
  <2>3. /\ mon' \in {Idle} \cup Waiting
        /\ \A a : a \in Detected(mon') <=> Contains(alerts, a)
    BY <2>1, <2>2, FoundWaits
  <2>4. Detected(mon)' = Detected(mon')
    BY DEF Detected
  <2>5. AllRecorded' /\ InOnePlace' /\ RowWellFormed'
    BY <1>1, <1>2, <1>3, <2>1, <2>3, <2>4, ComparisonSound
  <2>6. TasksWellFormed'
    BY <1>1, <2>3 DEF AlertInv, TasksWellFormed
  <2>7. QED
    BY <1>4, <2>5, <2>6 DEF AlertInv
<1>7. QED
  BY <1>5, <1>6

\* A dispatch takes the first of what waits.
LEMMA HeadAndRest ==
  ASSUME NEW process \in Waiting
  PROVE  /\ Dispatching(Tail(process.alerts)) \in {Idle} \cup Waiting
         /\ Head(process.alerts) \in Detected(process)
         /\ Detected(Dispatching(Tail(process.alerts))) = Detected(process) \ {Head(process.alerts)}
<1>1. process.pc = "dispatch" /\ process.alerts \in Lists(AlertSet) \ {<< >>}
  BY DEF Waiting
<1>2. process.alerts \in Seq(AlertSet)
  BY <1>1 DEF Lists
<1>3. \A a : a \in Detected(process) <=> Contains(process.alerts, a)
  BY <1>1, <1>2, MembersOfList DEF Detected
<1>4. /\ Tail(process.alerts) \in Lists(AlertSet) /\ Contains(process.alerts, Head(process.alerts))
      /\ \A a : Contains(Tail(process.alerts), a)
                 <=> Contains(process.alerts, a) /\ a # Head(process.alerts)
  BY <1>1, TailList
<1>5. /\ Dispatching(Tail(process.alerts)) \in {Idle} \cup Waiting
      /\ \A a : a \in Detected(Dispatching(Tail(process.alerts))) <=> Contains(Tail(process.alerts), a)
  BY <1>4, FoundWaits
<1>6. QED
  BY <1>3, <1>4, <1>5

\* A dispatch takes an alert from where it waits to the history.
LEMMA AnnouncedOnce ==
  ASSUME AllRecorded, InOnePlace, NEW alert, Announce(alert), table' = table,
         \/ /\ alert \in Detected(live) /\ Detected(live)' = Detected(live) \ {alert}
            /\ Detected(mon)' = Detected(mon)
         \/ /\ alert \in Detected(mon) /\ Detected(mon)' = Detected(mon) \ {alert}
            /\ Detected(live)' = Detected(live)
  PROVE  AllRecorded' /\ InOnePlace'
<1>1. /\ announced' = announced \cup {alert}
      /\ repeated' = repeated \cup (announced \cap {alert})
  BY DEF Announce
<1>2. announced' \cup Detected(live)' \cup Detected(mon)'
        \subseteq announced \cup Detected(live) \cup Detected(mon)
  BY <1>1
<1>3. AllRecorded'
  BY <1>2 DEF AllRecorded
<1>4. ASSUME NEW a, Tracked(a), a \in announced' \cup repeated' \cup Detected(live)'
      PROVE  /\ a \notin repeated'
             /\ a \in announced' => a \notin Detected(live)' \cup Detected(mon)'
             /\ a \in Detected(live)' => a \notin Detected(mon)'
  BY <1>1, <1>4 DEF InOnePlace
<1>5. repeated' \subseteq announced'
  BY <1>1 DEF InOnePlace
<1>6. QED
  BY <1>3, <1>4, <1>5 DEF InOnePlace

\* The live path dispatches, or the dispatch fails.
LEMMA LiveDispatches ==
  ASSUME AlertInv, LiveDispatch
  PROVE  AlertInv'
<1>1. live.pc = "dispatch" /\ UNCHANGED <<codex, feed, clock, hub, table, mon, lister>>
  BY DEF LiveDispatch
<1>2. live \in Waiting /\ live' = Dispatching(Tail(live.alerts))
  BY <1>1, InvParts DEF LiveDispatch
<1>3. /\ live' \in {Idle} \cup Waiting /\ Head(live.alerts) \in Detected(live)
      /\ Detected(live)' = Detected(live) \ {Head(live.alerts)}
  <2>1. Detected(live)' = Detected(live')
    BY DEF Detected
  <2>2. QED
    BY <1>2, <2>1, HeadAndRest
<1>4. Detected(mon)' = Detected(mon)
  BY <1>1 DEF Detected
<1>5. AllRecorded' /\ InOnePlace'
  <2>1. CASE Announce(Head(live.alerts))
    BY <1>1, <1>3, <1>4, <2>1, AnnouncedOnce DEF AlertInv
  <2>2. CASE UNCHANGED dispatched
    BY <1>1, <1>3, <1>4, <2>2, FewerWait DEF AlertInv, dispatched
  <2>3. QED
    BY <2>1, <2>2 DEF LiveDispatch
<1>6. CodexWellFormed' /\ TasksWellFormed' /\ RowWellFormed'
  BY <1>1, <1>3 DEF AlertInv, CodexWellFormed, TasksWellFormed, RowWellFormed
<1>7. QED
  BY <1>5, <1>6 DEF AlertInv

\* The monitor dispatches.
LEMMA MonitorDispatches ==
  ASSUME AlertInv, MonitorDispatch
  PROVE  AlertInv'
<1>1. /\ mon.pc = "dispatch" /\ UNCHANGED <<codex, feed, clock, hub, table, live, lister>>
      /\ Announce(Head(mon.alerts))
  BY DEF MonitorDispatch
<1>2. mon \in Waiting /\ mon' = Dispatching(Tail(mon.alerts))
  BY <1>1, InvParts DEF MonitorDispatch
<1>3. /\ mon' \in {Idle} \cup Waiting /\ Head(mon.alerts) \in Detected(mon)
      /\ Detected(mon)' = Detected(mon) \ {Head(mon.alerts)}
  <2>1. Detected(mon)' = Detected(mon')
    BY DEF Detected
  <2>2. QED
    BY <1>2, <2>1, HeadAndRest
<1>4. Detected(live)' = Detected(live)
  BY <1>1 DEF Detected
<1>5. AllRecorded' /\ InOnePlace'
  BY <1>1, <1>3, <1>4, AnnouncedOnce DEF AlertInv
<1>6. CodexWellFormed' /\ TasksWellFormed' /\ RowWellFormed'
  BY <1>1, <1>3 DEF AlertInv, CodexWellFormed, TasksWellFormed, RowWellFormed
<1>7. QED
  BY <1>5, <1>6 DEF AlertInv

\* A failed comparison or cycle, or a restart, drops what waits.
LEMMA DroppingSteps ==
  ASSUME AlertInv, MonitorFails \/ LiveFails \/ Restart
  PROVE  AlertInv'
<1>1. Detected(Idle) = {}
  BY DEF Detected, Idle
<1>2. CASE MonitorFails
  <2>1. mon' = Idle /\ UNCHANGED <<codex, feed, clock, hub, table, live, lister, announced, repeated>>
    BY <1>2 DEF MonitorFails, dispatched
  <2>2. Detected(mon)' = {} /\ Detected(live)' = Detected(live)
    BY <1>1, <2>1 DEF Detected
  <2>3. AllRecorded' /\ InOnePlace'
    BY <2>1, <2>2, FewerWait DEF AlertInv
  <2>4. CodexWellFormed' /\ TasksWellFormed' /\ RowWellFormed'
    BY <2>1 DEF AlertInv, CodexWellFormed, TasksWellFormed, RowWellFormed
  <2>5. QED
    BY <2>3, <2>4 DEF AlertInv
<1>3. CASE Restart
  <2>1. /\ hub' = NoSnapshot /\ feed' = << >> /\ live' = Idle /\ mon' = Idle /\ lister' = Idle
        /\ UNCHANGED <<codex, clock, table, announced, repeated>>
    BY <1>3 DEF Restart, dispatched
  <2>2. Detected(mon)' = {} /\ Detected(live)' = {}
    BY <1>1, <2>1 DEF Detected
  <2>3. AllRecorded' /\ InOnePlace'
    BY <2>1, <2>2, FewerWait DEF AlertInv
  <2>4. NoSnapshot \in SnapshotSet
    BY ShortLists DEF NoSnapshot, SnapshotSet
  <2>5. CodexWellFormed' /\ TasksWellFormed' /\ RowWellFormed'
    BY <2>1, <2>4 DEF AlertInv, CodexWellFormed, TasksWellFormed, RowWellFormed
  <2>6. QED
    BY <2>3, <2>5 DEF AlertInv
<1>4. CASE LiveFails
  <2>1. live' = Idle /\ UNCHANGED <<codex, feed, clock, hub, table, mon, lister, announced, repeated>>
    BY <1>4 DEF LiveFails, history, dispatched
  <2>2. Detected(live)' = {} /\ Detected(mon)' = Detected(mon)
    BY <1>1, <2>1 DEF Detected
  <2>3. AllRecorded' /\ InOnePlace'
    BY <2>1, <2>2, FewerWait DEF AlertInv
  <2>4. CodexWellFormed' /\ TasksWellFormed' /\ RowWellFormed'
    BY <2>1 DEF AlertInv, CodexWellFormed, TasksWellFormed, RowWellFormed
  <2>5. QED
    BY <2>3, <2>4 DEF AlertInv
<1>5. QED
  BY <1>2, <1>3, <1>4

\* Every alert that waits or was dispatched has been through the row, and one whose
\* id the row keeps waits in one task or was dispatched, once: detect_alerts saves the
\* row before it hands on what it found.
THEOREM AlertInvariant == Spec => []AlertInv
<1>1. Init => AlertInv
  BY InitIsSound
<1>2. ASSUME AlertInv, [Next]_vars PROVE AlertInv'
  <2>1. CASE UNCHANGED vars
    <3>1. UNCHANGED <<codex, feed, clock, hub, table, live, mon, lister, announced, repeated>>
      BY <2>1 DEF vars
    <3>2. QED
      BY <1>2, <3>1 DEF AlertInv, CodexWellFormed, TasksWellFormed, RowWellFormed, AllRecorded,
                        InOnePlace, Detected
  <2>2. CASE \/ \E status \in Statuses : CodexStatus(status)
             \/ CodexWaits \/ (\E request \in Prompts : CodexAsks(request))
             \/ CodexAnswered \/ FeedLost
    BY <1>2, <2>2, CodexSteps
  <2>3. CASE LiveTake \/ LiveWrite \/ MonitorList \/ MonitorApprovals \/ ListerRead \/ ListerWrite
    BY <1>2, <2>3, ReadingSteps
  <2>4. CASE LiveDetect
    BY <1>2, <2>4, LiveCompares
  <2>5. CASE MonitorDetect
    BY <1>2, <2>5, MonitorCompares
  <2>6. CASE LiveDispatch
    BY <1>2, <2>6, LiveDispatches
  <2>7. CASE MonitorDispatch
    BY <1>2, <2>7, MonitorDispatches
  <2>8. CASE MonitorFails \/ LiveFails \/ Restart
    BY <1>2, <2>8, DroppingSteps
  <2>9. QED
    BY <1>2, <2>1, <2>2, <2>3, <2>4, <2>5, <2>6, <2>7, <2>8 DEF Next, LiveStep, MonitorStep
<1>3. QED
  BY <1>1, <1>2, PTL DEF Spec

\* No alert that is named by the row's cycle is dispatched twice, whatever number of
\* approval ids the thread has had.
THEOREM CyclesRaisedOnce == Spec => [](\A alert \in repeated : ~IsCycle(alert))
<1>1. AlertInv => \A alert \in repeated : ~IsCycle(alert)
  BY DEF AlertInv, InOnePlace, Tracked
<1>2. QED
  BY <1>1, AlertInvariant, PTL

\* No alert that is named by a cycle or an approval id is dispatched twice, if the row
\* has room for every approval id of the thread (it remembers 256).
THEOREM AlertsRaisedOnce ==
  ASSUME IsFiniteSet(Ids), Cardinality(Ids) <= KnownLimit
  PROVE  Spec => []RaisedOnce
<1>1. ASSUME AlertInv PROVE RaisedOnce
  <2>1. SUFFICES ASSUME NEW alert \in repeated PROVE IsTimed(alert)
    BY DEF RaisedOnce
  <2>2. ~Tracked(alert)
    BY <1>1 DEF AlertInv, InOnePlace
  <2>3. alert \in AlertSet
    BY <1>1 DEF AlertInv, AllRecorded, InOnePlace
  <2>4. QED
    BY <2>2, <2>3 DEF Tracked, Roomy, IsCycle, IsTimed, AlertSet
<1>2. QED
  BY <1>1, AlertInvariant, PTL

=============================================================================
