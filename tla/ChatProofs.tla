------------------------------ MODULE ChatProofs ------------------------------
(* Theorems about Chat, for every capacity of the ring, number of tool       *)
(* rounds and calls, and every number of turns: the requests to the model    *)
(* are well-formed, the tool rounds bounded, and the history shows each turn *)
(* once, none that failed, and after a rebuild all that the records say.     *)
(* The ring is filled by a recursive function: what holds of it is proved by *)
(* induction over the set of the numbers for which it holds (Induct), which  *)
(* rests on the well-foundedness of < on Nat.                                *)
EXTENDS Chat, FiniteSetTheorems, SequenceTheorems, WellFoundedInduction, TLAPS

-----------------------------------------------------------------------------
(* The ring: what cli_history_add and a record's messages do *)

\* The ring's capacity is a whole number of rounds.
LEMMA CapacityIsEven == \E n \in 1..30 : Capacity = 2 * n
<1>1. Capacity \in {2 * n : n \in 1..30}
  BY ChatAssumption
<1>2. QED BY <1>1

\* The bounds are numbers.
LEMMA BoundsType ==
  /\ MaxCalls \in Nat /\ MaxCalls >= 1 /\ ToolRounds \in Nat
  /\ MaxTurns \in Nat /\ MaxMessages \in Nat
  BY ChatAssumption

\* A restore asks for as many records as the ring has rounds.
LEMMA CapacityType == Capacity \in Nat /\ Capacity >= 2 /\ 2 * Want = Capacity /\ Want \in Nat
  BY CapacityIsEven DEF Want

\* cli_history_add keeps the ring within its capacity, and the new message is
\* its last.
LEMMA AddType ==
  ASSUME NEW h \in Seq(Said), Len(h) <= Capacity, NEW m \in Said
  PROVE  /\ Add(h, m) \in Seq(Said) /\ Len(Add(h, m)) <= Capacity
         /\ Len(Add(h, m)) >= 1 /\ Add(h, m)[Len(Add(h, m))] = m
         /\ Len(h) < Capacity => Add(h, m) = Append(h, m)
<1>1. CASE Full(h)
  <2>1. Len(h) = Capacity
    BY <1>1, CapacityType DEF Full
  <2>2. SubSeq(h, 3, Len(h)) \in Seq(Said) /\ Len(SubSeq(h, 3, Len(h))) = Len(h) - 2
    BY <2>1, CapacityType
  <2>3. Add(h, m) = Append(SubSeq(h, 3, Len(h)), m)
    BY <1>1 DEF Add
  <2>4. QED BY <2>1, <2>2, <2>3, CapacityType
<1>2. CASE ~Full(h)
  <2>1. Len(h) < Capacity /\ Add(h, m) = Append(h, m)
    BY <1>2, CapacityType DEF Add, Full
  <2>2. QED BY <2>1, CapacityType
<1>3. QED BY <1>1, <1>2

\* Where the messages of a ring come from after one more was added
LEMMA AddFrom ==
  ASSUME NEW h \in Seq(Said), Len(h) <= Capacity, NEW m \in Said
  PROVE  LET g == Add(h, m) IN
         \E d \in {0, 2} : /\ Len(g) = Len(h) - d + 1
                          /\ \A i \in 1..(Len(g) - 1) : i + d \in DOMAIN h /\ g[i] = h[i + d]
<1>1. CASE Full(h)
  <2>1. Len(h) = Capacity
    BY <1>1, CapacityType DEF Full
  <2> DEFINE s == SubSeq(h, 3, Len(h))
  <2>2. s \in Seq(Said) /\ Len(s) = Len(h) - 2 /\ \A i \in 1..Len(s) : s[i] = h[i + 2]
    BY <2>1, CapacityType
  <2>3. Add(h, m) = Append(s, m)
    BY <1>1 DEF Add
  <2> HIDE DEF s
  <2>4. /\ Len(Add(h, m)) = Len(h) - 2 + 1
        /\ \A i \in 1..(Len(Add(h, m)) - 1) : i + 2 \in DOMAIN h /\ Add(h, m)[i] = h[i + 2]
    BY <2>2, <2>3
  <2>5. QED BY <2>4
<1>2. CASE ~Full(h)
  <2>1. Len(h) < Capacity /\ Add(h, m) = Append(h, m)
    BY <1>2, CapacityType DEF Add, Full
  <2>2. /\ Len(Add(h, m)) = Len(h) - 0 + 1
        /\ \A i \in 1..(Len(Add(h, m)) - 1) : i + 0 \in DOMAIN h /\ Add(h, m)[i] = h[i + 0]
    BY <2>1
  <2>3. QED BY <2>2
<1>3. QED BY <1>1, <1>2

\* A record gives back at most two messages, different ones of its own turn.
LEMMA MessagesType ==
  ASSUME NEW r \in Record
  PROVE  /\ MessagesOf(r) \in Seq(Said) /\ Len(MessagesOf(r)) \in 0..2
         /\ \A i \in DOMAIN MessagesOf(r) : MessagesOf(r)[i].turn = r.turn
         /\ \A i, j \in DOMAIN MessagesOf(r) : MessagesOf(r)[i] = MessagesOf(r)[j] => i = j
<1> DEFINE form == r.form
<1>1. r.turn \in 1..MaxTurns /\ r = [form |-> r.form, turn |-> r.turn]
  BY DEF Record
<1>2. CASE r.form = "turn"
  <2>1. Roles[r.form] = <<"user", "assistant">>
    BY <1>2 DEF Roles
  <2>2. MessagesOf(r) = <<[role |-> "user", turn |-> r.turn], [role |-> "assistant", turn |-> r.turn]>>
    BY <2>1 DEF MessagesOf
  <2>3. QED BY <2>2, <1>1 DEF Said
<1>3. CASE r.form \in {"question", "user"}
  <2>1. Roles[r.form] = <<"user">>
    BY <1>3 DEF Roles
  <2>2. MessagesOf(r) = <<[role |-> "user", turn |-> r.turn]>>
    BY <2>1 DEF MessagesOf
  <2>3. QED BY <2>2, <1>1 DEF Said
<1>4. CASE r.form = "assistant"
  <2>1. Roles[r.form] = <<"assistant">>
    BY <1>4 DEF Roles
  <2>2. MessagesOf(r) = <<[role |-> "assistant", turn |-> r.turn]>>
    BY <2>1 DEF MessagesOf
  <2>3. QED BY <2>2, <1>1 DEF Said
<1>5. CASE r.form = "other"
  <2>1. Roles[r.form] = <<>>
    BY <1>5 DEF Roles
  <2>2. MessagesOf(r) = <<>>
    BY <2>1 DEF MessagesOf
  <2>3. QED BY <2>2, <1>1 DEF Said
<1>6. r.form \in {"turn", "question", "user", "assistant", "other"}
  BY DEF Record, Roles
<1>7. QED BY <1>2, <1>3, <1>4, <1>5, <1>6

-----------------------------------------------------------------------------
(* Induction, and the recursive function that fills the ring *)

\* Every set of naturals with an element has a least one.
LEMMA LeastOf ==
  ASSUME NEW S \in SUBSET Nat, S # {}
  PROVE  \E m \in S : \A k \in S : m <= k
<1> DEFINE R == OpToRel(<, Nat)
<1>1. IsWellFoundedOn(R, Nat)
  BY NatLessThanWellFounded
<1>2. \A k, m \in Nat : k < m => <<k, m>> \in R
  BY DEF OpToRel
<1> HIDE DEF R
<1>3. PICK m \in S : \A k \in S : ~ (<<k, m>> \in R)
  BY <1>1, WFMin
<1>4. \A k \in S : ~(k < m)
  BY <1>2, <1>3
<1>5. QED BY <1>3, <1>4

\* Induction: a set of naturals that has 0 and the successor of each of its
\* elements has them all. (A least missing number would have a predecessor.)
LEMMA Induct ==
  ASSUME NEW S \in SUBSET Nat, 0 \in S, \A k \in S : k + 1 \in S
  PROVE  \A k \in Nat : k \in S
<1> SUFFICES ASSUME NEW n \in Nat, n \notin S PROVE FALSE
  OBVIOUS
<1> DEFINE T == Nat \ S
<1>1. T \in SUBSET Nat /\ T # {}
  OBVIOUS
<1>2. PICK m \in T : \A k \in T : m <= k
  BY <1>1, LeastOf
<1>3. m \in Nat /\ m # 0
  BY <1>2
<1>4. m - 1 \in Nat /\ ~(m <= m - 1) /\ (m - 1) + 1 = m
  BY <1>3
<1>5. m - 1 \in S
  BY <1>2, <1>4
<1>6. QED BY <1>2, <1>4, <1>5

\* The recursive function of Replayed
Fills(f, h, rs, n) == f = [k \in 0..n |-> IF k = 0 THEN h ELSE AddRecord(f[k - 1], rs[k])]

\* The recursive function exists: one more value is added to the one of n.
LEMMA FilledExists ==
  ASSUME NEW h, NEW rs
  PROVE  \A n \in Nat : \E f : Fills(f, h, rs, n)
<1> USE DEF Fills
<1> DEFINE Fill(f, n) == Fills(f, h, rs, n)
           S == {n \in Nat : \E f : Fill(f, n)}
<1>1. 0 \in S
  <2> DEFINE g == [k \in 0..0 |-> h]
  <2>1. Fill(g, 0)
    OBVIOUS
  <2>2. QED BY <2>1
<1>2. ASSUME NEW n \in S PROVE n + 1 \in S
  <2>1. PICK f : Fill(f, n)
    BY <1>2
  <2> DEFINE g == [k \in 0..(n + 1) |-> IF k = n + 1 THEN AddRecord(f[n], rs[n + 1]) ELSE f[k]]
  <2>2. \A k \in 0..(n + 1) : g[k] = IF k = 0 THEN h ELSE AddRecord(g[k - 1], rs[k])
    <3>1. TAKE k \in 0..(n + 1)
    <3>2. CASE k = n + 1
      <4>1. k - 1 = n /\ n \in 0..(n + 1) /\ n # n + 1 /\ k # 0
        BY <3>2
      <4>2. g[n] = f[n]
        BY <4>1
      <4>3. g[k] = AddRecord(f[n], rs[k])
        BY <3>2
      <4>4. QED BY <4>1, <4>2, <4>3
    <3>3. CASE k = 0
      <4>1. g[k] = f[k] /\ k \in 0..n
        BY <3>3
      <4>2. QED BY <4>1, <3>3, <2>1
    <3>4. CASE k \in 1..n
      <4>1. g[k] = f[k] /\ g[k - 1] = f[k - 1] /\ k # 0 /\ k \in 0..n
        BY <3>4
      <4>2. QED BY <4>1, <2>1
    <3>5. QED BY <3>2, <3>3, <3>4
  <2>3. g = [k \in 0..(n + 1) |-> g[k]]
    OBVIOUS
  <2> HIDE DEF g
  <2>4. Fill(g, n + 1)
    BY <2>2, <2>3
  <2>5. QED BY <2>4
<1> HIDE DEF S
<1>3. \A n \in Nat : n \in S
  BY <1>1, <1>2, Induct DEF S
<1>4. QED BY <1>3 DEF S

\* Replayed is the last value of a function that starts with the history before
\* and adds a record at each step.
LEMMA ReplayedFilled ==
  ASSUME NEW h, NEW rs, Len(rs) \in Nat
  PROVE  \E f : /\ Replayed(h, rs) = f[Len(rs)] /\ f[0] = h
                /\ \A k \in 1..Len(rs) : f[k] = AddRecord(f[k - 1], rs[k])
<1> DEFINE c == CHOOSE f : Fills(f, h, rs, Len(rs))
<1>1. Fills(c, h, rs, Len(rs))
  BY FilledExists
<1>2. c = [k \in 0..Len(rs) |-> IF k = 0 THEN h ELSE AddRecord(c[k - 1], rs[k])]
  BY <1>1 DEF Fills
<1>3. Replayed(h, rs) = c[Len(rs)]
  BY DEF Replayed, Fills
<1> HIDE DEF c
<1>4. c[0] = h
  BY <1>2
<1>5. ASSUME NEW k \in 1..Len(rs) PROVE c[k] = AddRecord(c[k - 1], rs[k])
  BY <1>2
<1>6. QED BY <1>3, <1>4, <1>5

-----------------------------------------------------------------------------
(* A ring that shows no message twice *)

\* A ring in which no message is twice and every turn is one of T
Ring(h) == h \in Seq(Said) /\ Len(h) <= Capacity
Clean(h, T) ==
  /\ Ring(h)
  /\ \A i, j \in DOMAIN h : h[i] = h[j] => i = j
  /\ \A i \in DOMAIN h : h[i].turn \in T

\* A new message of an allowed turn keeps the ring clean, and only it is new.
LEMMA AddKeeps ==
  ASSUME NEW T, NEW h, Clean(h, T), NEW m \in Said, m.turn \in T,
         \A i \in DOMAIN h : h[i] # m
  PROVE  /\ Clean(Add(h, m), T)
         /\ \A i \in DOMAIN Add(h, m) : Add(h, m)[i] = m \/ \E j \in DOMAIN h : Add(h, m)[i] = h[j]
<1> DEFINE g == Add(h, m)
<1>1. h \in Seq(Said) /\ Len(h) <= Capacity
  BY DEF Clean, Ring
<1>2. g \in Seq(Said) /\ Len(g) <= Capacity /\ Len(g) >= 1 /\ g[Len(g)] = m
  BY <1>1, AddType
<1>3. PICK d \in {0, 2} : /\ Len(g) = Len(h) - d + 1
                          /\ \A i \in 1..(Len(g) - 1) : i + d \in DOMAIN h /\ g[i] = h[i + d]
  BY <1>1, AddFrom
<1> HIDE DEF g
<1>4. \A i \in DOMAIN g : i = Len(g) \/ i \in 1..(Len(g) - 1)
  BY <1>2
<1>5. \A i \in DOMAIN g : g[i] = m \/ \E j \in DOMAIN h : g[i] = h[j]
  BY <1>2, <1>3, <1>4
<1>6. \A i \in DOMAIN g : g[i].turn \in T
  BY <1>5 DEF Clean
<1>7. ASSUME NEW i \in DOMAIN g, NEW j \in DOMAIN g, g[i] = g[j] PROVE i = j
  <2>1. CASE i = Len(g)
    BY <1>2, <1>3, <1>4, <1>7, <2>1
  <2>2. CASE j = Len(g)
    BY <1>2, <1>3, <1>4, <1>7, <2>2
  <2>3. CASE i \in 1..(Len(g) - 1) /\ j \in 1..(Len(g) - 1)
    <3>1. i + d \in DOMAIN h /\ j + d \in DOMAIN h /\ h[i + d] = h[j + d]
      BY <1>3, <1>7, <2>3
    <3>2. i + d = j + d /\ i \in Nat /\ j \in Nat /\ d \in Nat
      BY <3>1, <2>3 DEF Clean
    <3>3. QED BY <3>2
  <2>4. QED BY <1>4, <2>1, <2>2, <2>3
<1>8. Clean(g, T)
  BY <1>2, <1>6, <1>7 DEF Clean, Ring
<1>9. QED BY <1>5, <1>8 DEF g

\* So does a record of a turn the ring does not show.
LEMMA AddRecordKeeps ==
  ASSUME NEW T, NEW h, Clean(h, T), NEW r \in Record, r.turn \in T,
         \A i \in DOMAIN h : h[i].turn # r.turn
  PROVE  Clean(AddRecord(h, r), T)
<1> DEFINE m == MessagesOf(r)
<1>1. /\ m \in Seq(Said) /\ Len(m) \in 0..2
      /\ \A i \in DOMAIN m : m[i].turn = r.turn
      /\ \A i, j \in DOMAIN m : m[i] = m[j] => i = j
  BY MessagesType
<1>2. AddRecord(h, r) = IF Len(m) = 0 THEN h ELSE IF Len(m) = 1 THEN Add(h, m[1]) ELSE Add(Add(h, m[1]), m[2])
  BY DEF AddRecord
<1> HIDE DEF m
<1>3. CASE Len(m) = 0
  BY <1>2, <1>3
<1>4. CASE Len(m) \in 1..2
  <2>1. 1 \in DOMAIN m /\ m[1] \in Said /\ m[1].turn \in T /\ \A i \in DOMAIN h : h[i] # m[1]
    BY <1>1, <1>4
  <2>2. /\ Clean(Add(h, m[1]), T)
        /\ \A i \in DOMAIN Add(h, m[1]) :
             Add(h, m[1])[i] = m[1] \/ \E j \in DOMAIN h : Add(h, m[1])[i] = h[j]
    BY <2>1, AddKeeps
  <2>3. CASE Len(m) = 1
    BY <1>2, <2>2, <2>3
  <2>4. CASE Len(m) = 2
    <3>1. 2 \in DOMAIN m /\ m[2] \in Said /\ m[2].turn = r.turn /\ m[1] # m[2]
      <4>1. 1 \in DOMAIN m /\ 2 \in DOMAIN m
        BY <1>1, <2>4
      <4>2. m[1] # m[2]
        BY <1>1, <4>1
      <4>3. m[2] \in Said /\ m[2].turn = r.turn
        BY <1>1, <4>1
      <4>4. QED BY <4>1, <4>2, <4>3
    <3>2. \A i \in DOMAIN Add(h, m[1]) : Add(h, m[1])[i] # m[2]
      BY <2>2, <3>1
    <3>3. Clean(Add(Add(h, m[1]), m[2]), T)
      BY <2>2, <3>1, <3>2, AddKeeps
    <3>4. QED BY <1>2, <2>4, <3>3
  <2>5. QED BY <1>4, <2>3, <2>4
<1>5. QED BY <1>1, <1>3, <1>4

\* A history rebuilt from records of different turns, all new to it, has the
\* turns of the records and of the history before, and no message twice.
LEMMA ReplayedKeeps ==
  ASSUME NEW T, NEW h, Clean(h, T), NEW rs \in Seq(Record),
         \A i, j \in DOMAIN rs : rs[i].turn = rs[j].turn => i = j,
         \A i \in DOMAIN rs : rs[i].turn \notin T
  PROVE  Clean(Replayed(h, rs), T \cup {rs[i].turn : i \in DOMAIN rs})
<1>1. PICK f : /\ Replayed(h, rs) = f[Len(rs)] /\ f[0] = h
               /\ \A k \in 1..Len(rs) : f[k] = AddRecord(f[k - 1], rs[k])
  BY ReplayedFilled
<1> DEFINE U(k) == T \cup {rs[i].turn : i \in 1..k}
           S == {k \in Nat : k <= Len(rs) => Clean(f[k], U(k))}
<1>2. 0 \in S
  <2>1. U(0) = T
    OBVIOUS
  <2>2. QED BY <1>1, <2>1
<1>3. ASSUME NEW k \in S PROVE k + 1 \in S
  <2>1. SUFFICES ASSUME k + 1 <= Len(rs) PROVE Clean(f[k + 1], U(k + 1))
    OBVIOUS
  <2>2. k + 1 \in 1..Len(rs) /\ k \in Nat /\ k <= Len(rs) /\ (k + 1) - 1 = k
    BY <2>1
  <2>3. Clean(f[k], U(k))
    BY <2>2
  <2>4. U(k) \subseteq U(k + 1) /\ rs[k + 1].turn \in U(k + 1)
    BY <2>2
  <2>5. rs[k + 1].turn \notin U(k)
    BY <2>2
  <2>6. f[k + 1] = AddRecord(f[k], rs[k + 1]) /\ rs[k + 1] \in Record
    BY <1>1, <2>2
  <2> HIDE DEF U
  <2>7. Clean(f[k], U(k + 1)) /\ \A i \in DOMAIN f[k] : f[k][i].turn # rs[k + 1].turn
    BY <2>3, <2>4, <2>5 DEF Clean
  <2>8. QED BY <2>4, <2>6, <2>7, AddRecordKeeps
<1>4. S \in SUBSET Nat
  OBVIOUS
<1>5. Len(rs) \in S
  <2> HIDE DEF S
  <2>1. QED BY <1>2, <1>3, <1>4, Induct
<1>6. Clean(f[Len(rs)], U(Len(rs)))
  BY <1>5
<1>7. U(Len(rs)) = T \cup {rs[i].turn : i \in DOMAIN rs}
  OBVIOUS
<1>8. QED BY <1>1, <1>6, <1>7

-----------------------------------------------------------------------------
(* The invariant of the history and the records *)

\* More turns may be allowed.
LEMMA CleanWider ==
  ASSUME NEW S, NEW T, S \subseteq T, NEW h, Clean(h, S)
  PROVE  Clean(h, T)
  BY DEF Clean

\* An empty history is clean.
LEMMA EmptyIsClean == \A T : Clean(<<>>, T)
  BY CapacityType DEF Clean, Ring

\* mem.recent answers with at most n records, the last ones.
LEMMA RecentOf ==
  ASSUME records \in Seq(Record), NEW n \in Nat
  PROVE  /\ Recent(n) \in Seq(Record) /\ Len(Recent(n)) <= n
         /\ \E d \in Nat : \A i \in DOMAIN Recent(n) :
              i + d \in DOMAIN records /\ Recent(n)[i] = records[i + d]
<1> DEFINE d == IF Len(records) > n THEN Len(records) - n ELSE 0
           s == SubSeq(records, d + 1, Len(records))
<1>1. d \in Nat /\ d + 1 <= Len(records) + 1 /\ Len(records) - d <= n /\ Len(records) \in Nat
  OBVIOUS
<1>2. Recent(n) = s
  <2>1. CASE Len(records) > n
    <3>1. Len(records) - n + 1 = d + 1
      BY <2>1
    <3>2. QED BY <2>1, <3>1 DEF Recent
  <2>2. CASE ~(Len(records) > n)
    <3>1. d + 1 = 1
      BY <2>2
    <3>2. QED BY <2>2, <3>1 DEF Recent
  <2>3. QED BY <2>1, <2>2
<1> HIDE DEF d
<1>3. /\ s \in Seq(Record) /\ Len(s) = Len(records) - d
      /\ \A i \in 1..Len(s) : i + d \in DOMAIN records /\ s[i] = records[i + d]
  BY <1>1
<1> HIDE DEF s
<1>4. DOMAIN s = 1..Len(s) /\ Len(s) <= n
  BY <1>1, <1>3
<1>5. \A i \in DOMAIN s : i + d \in DOMAIN records /\ s[i] = records[i + d]
  BY <1>3, <1>4
<1>6. QED BY <1>1, <1>2, <1>3, <1>4, <1>5

\* The turns the history shows are past and did not fail, each message once.
Shown == {t \in 1..clock : t \notin failed /\ (pc # "idle" => t # clock)}
HistoryInv == Clean(history, Shown)

\* A turn has one record at most, whether mem_d has stored it or not, and none
\* before its end or when it failed.
Recorded == {t \in 1..clock : t \notin failed /\ (pc \notin {"idle", "finalize"} => t # clock)}
OneRecord ==
  /\ \A i, j \in DOMAIN records : records[i].turn = records[j].turn => i = j
  /\ \A i \in DOMAIN records, r \in unserved : records[i].turn # r.turn
  /\ \A r, s \in unserved : r.turn = s.turn => r = s
RecordsInv ==
  /\ records \in Seq(Record) /\ unserved \subseteq Record /\ OneRecord
  /\ \A i \in DOMAIN records : records[i].turn \in Recorded
  /\ \A r \in unserved : r.turn \in Recorded

\* The turn under way has begun and has not failed.
ClockInv ==
  /\ pc \in {"idle", "inject", "llm", "tools", "record", "finalize"}
  /\ clock \in 0..MaxTurns /\ failed \subseteq 1..clock
  /\ pc # "idle" => clock >= 1 /\ clock \notin failed

\* The invariant of the history and the records
PastInv == ClockInv /\ RecordsInv /\ HistoryInv

\* A history rebuilt from the records is clean, and its turns are recorded ones.
LEMMA RebuiltIsClean ==
  ASSUME RecordsInv
  PROVE  Clean(Replayed(<<>>, Recent(Want)), Recorded)
<1> DEFINE rs == Recent(Want)
<1>1. PICK d \in Nat : \A i \in DOMAIN rs : i + d \in DOMAIN records /\ rs[i] = records[i + d]
  BY RecentOf, CapacityType DEF RecordsInv
<1>2. rs \in Seq(Record)
  BY RecentOf, CapacityType DEF RecordsInv
<1> HIDE DEF rs
<1>3. \A i, j \in DOMAIN rs : rs[i].turn = rs[j].turn => i = j
  <2>1. TAKE i, j \in DOMAIN rs
  <2>2. HAVE rs[i].turn = rs[j].turn
  <2>3. i + d = j + d
    BY <1>1, <2>2 DEF RecordsInv, OneRecord
  <2>4. i \in Nat /\ j \in Nat
    BY <1>2
  <2>5. QED BY <2>3, <2>4
<1>4. Clean(<<>>, {})
  BY EmptyIsClean
<1>5. Clean(Replayed(<<>>, rs), {} \cup {rs[i].turn : i \in DOMAIN rs})
  BY <1>2, <1>3, <1>4, ReplayedKeeps
<1>6. {} \cup {rs[i].turn : i \in DOMAIN rs} \subseteq Recorded
  BY <1>1 DEF RecordsInv
<1>7. QED BY <1>5, <1>6, CleanWider DEF rs

-----------------------------------------------------------------------------
(* Every step keeps it *)

\* The chat starts so.
LEMMA InitPast == Init => PastInv
<1> SUFFICES ASSUME Init PROVE PastInv
  OBVIOUS
<1>1. ClockInv
  BY ChatAssumption DEF Init, ClockInv
<1>2. records = <<>> /\ unserved = {}
  BY DEF Init
<1>3. RecordsInv
  BY <1>2 DEF RecordsInv, OneRecord
<1>4. HistoryInv
  BY EmptyIsClean DEF Init, HistoryInv
<1>5. QED BY <1>1, <1>3, <1>4 DEF PastInv

\* A step that leaves the turns, the records and the history alone, and stays
\* in a turn before its record or between turns
LEMMA SamePast ==
  ASSUME PastInv, UNCHANGED <<history, records, unserved, clock, failed>>,
         \/ pc' = pc
         \/ /\ pc \in {"inject", "llm", "tools", "record"}
            /\ pc' \in {"inject", "llm", "tools", "record"}
  PROVE  PastInv'
<1>1. Shown' = Shown /\ Recorded' = Recorded
  BY DEF Shown, Recorded, PastInv, ClockInv
<1>2. ClockInv'
  BY DEF PastInv, ClockInv
<1>3. OneRecord'
  BY DEF PastInv, RecordsInv, OneRecord
<1>4. RecordsInv'
  BY <1>1, <1>3 DEF PastInv, RecordsInv
<1>5. history' = history /\ Clean(history, Shown)
  BY DEF PastInv, HistoryInv
<1>6. HistoryInv'
  BY <1>1, <1>5 DEF HistoryInv
<1>7. QED BY <1>2, <1>4, <1>6 DEF PastInv

\* Every step keeps the invariant of the history and the records.
LEMMA NextPast ==
  ASSUME PastInv, [Next]_vars
  PROVE  PastInv'
<1> USE DEF memVars, loopVars
<1>1. CASE Clear
  <2>1. UNCHANGED <<records, unserved, clock, failed, pc>> /\ history' = <<>> /\ pc = "idle"
    BY <1>1 DEF Clear, Idle, Cleared
  <2>2. ClockInv' /\ RecordsInv' /\ Shown' = Shown
    BY <2>1 DEF PastInv, ClockInv, RecordsInv, OneRecord, Recorded, Shown
  <2>3. HistoryInv'
    BY <2>1, EmptyIsClean DEF HistoryInv
  <2>4. QED BY <2>2, <2>3 DEF PastInv
<1>2. CASE Rebind
  <2>1. UNCHANGED <<records, unserved, clock, failed, pc>> /\ pc = "idle"
    BY <1>2 DEF Rebind, Idle
  <2>2. history' = <<>> \/ history' = Replayed(<<>>, Recent(Want))
    BY <1>2 DEF Rebind, Restored, Cleared
  <2>3. ClockInv' /\ RecordsInv' /\ Shown' = Recorded
    BY <2>1 DEF PastInv, ClockInv, RecordsInv, OneRecord, Recorded, Shown
  <2>4. Clean(history', Recorded)
    BY <2>2, EmptyIsClean, RebuiltIsClean DEF PastInv
  <2>5. HistoryInv'
    BY <2>3, <2>4 DEF HistoryInv
  <2>6. QED BY <2>3, <2>5 DEF PastInv
<1>3. CASE Sigint
  BY <1>3, SamePast DEF Sigint
<1>4. CASE Enter
  <2>1. UNCHANGED <<history, records, unserved, failed>>
    BY <1>4 DEF Enter
  <2>2. pc = "idle" /\ pc' = "inject" /\ clock' = clock + 1 /\ clock < MaxTurns
    BY <1>4 DEF Enter, Chat
  <2>3. clock \in Nat /\ clock + 1 \in 0..MaxTurns
    BY <2>2, ChatAssumption DEF PastInv, ClockInv
  <2>4. ClockInv'
    BY <2>1, <2>2, <2>3 DEF PastInv, ClockInv
  <2>5. Shown' = Shown /\ Recorded' = Recorded
    BY <2>1, <2>2, <2>3 DEF Shown, Recorded
  <2>6. RecordsInv' /\ history' = history /\ Clean(history, Shown)
    BY <2>1, <2>5 DEF PastInv, RecordsInv, OneRecord, HistoryInv
  <2>7. QED BY <2>4, <2>5, <2>6 DEF PastInv, HistoryInv
<1>5. CASE Inject
  BY <1>5, SamePast DEF Inject, Chat
<1>6. CASE LlmFails
  <2>1. UNCHANGED <<history, records, unserved, clock>>
    BY <1>6 DEF LlmFails, Dropped
  <2>2. pc = "llm" /\ pc' = "idle" /\ failed' = failed \cup {clock}
    BY <1>6 DEF LlmFails, Chat
  <2>3. ClockInv'
    BY <2>1, <2>2 DEF PastInv, ClockInv
  <2>4. Shown' = Shown /\ Recorded' = Recorded
    BY <2>1, <2>2 DEF Shown, Recorded
  <2>5. RecordsInv' /\ history' = history /\ Clean(history, Shown)
    BY <2>1, <2>4 DEF PastInv, RecordsInv, OneRecord, HistoryInv
  <2>6. QED BY <2>3, <2>4, <2>5 DEF PastInv, HistoryInv
<1>7. CASE LlmAsks
  BY <1>7, SamePast DEF LlmAsks, Chat
<1>8. CASE LlmSumsUp
  BY <1>8, SamePast DEF LlmSumsUp, Chat
<1>9. CASE LlmAnswers
  BY <1>9, SamePast DEF LlmAnswers, Chat
<1>10. CASE Tool
  <2>1. pc = "tools" /\ pc' \in {"tools", "llm"} /\ UNCHANGED <<history, records, unserved, clock, failed>>
    BY <1>10 DEF Tool
  <2>2. QED BY <2>1, SamePast
<1>11. CASE RecordTurn
  <2>1. UNCHANGED <<history, clock, failed>> /\ pc = "record" /\ pc' = "finalize"
    BY <1>11 DEF RecordTurn, Chat
  <2>2. PICK form \in {"turn", "question"} :
           \/ UNCHANGED <<records, unserved>>
           \/ records' = Append(records, [form |-> form, turn |-> clock]) /\ UNCHANGED unserved
           \/ unserved' = unserved \cup {[form |-> form, turn |-> clock]} /\ UNCHANGED records
    BY <1>11 DEF RecordTurn
  <2> DEFINE r == [form |-> form, turn |-> clock]
  <2>3. clock \in 1..MaxTurns
    BY <2>1, ChatAssumption DEF PastInv, ClockInv
  <2>4. r \in Record /\ r.turn = clock
    BY <2>3 DEF Record, Roles
  <2>5. \/ records' = records /\ unserved' = unserved
        \/ records' = Append(records, r) /\ unserved' = unserved
        \/ unserved' = unserved \cup {r} /\ records' = records
    BY <2>2
  <2> HIDE DEF r
  <2>6. clock \notin Recorded /\ Recorded' = Recorded \cup {clock} /\ Shown' = Shown
    BY <2>1 DEF PastInv, ClockInv, Recorded, Shown
  <2>7. ClockInv'
    BY <2>1 DEF PastInv, ClockInv
  <2>8. RecordsInv'
    <3>1. CASE records' = records /\ unserved' = unserved
      <4>1. OneRecord'
        BY <3>1 DEF PastInv, RecordsInv, OneRecord
      <4>2. QED BY <3>1, <4>1, <2>6 DEF PastInv, RecordsInv
    <3>2. CASE records' = Append(records, r) /\ unserved' = unserved
      <4>1. records' \in Seq(Record) /\ Len(records') = Len(records) + 1
        BY <2>4, <3>2 DEF PastInv, RecordsInv
      <4>2. \A i \in DOMAIN records' :
               \/ i \in DOMAIN records /\ records'[i] = records[i]
               \/ i = Len(records) + 1 /\ records'[i] = r
        BY <4>1, <3>2 DEF PastInv, RecordsInv
      <4>3. OneRecord'
        BY <4>2, <2>4, <2>6, <3>2 DEF PastInv, RecordsInv, OneRecord
      <4>4. \A i \in DOMAIN records' : records'[i].turn \in Recorded'
        BY <4>2, <2>4, <2>6 DEF PastInv, RecordsInv
      <4>5. QED BY <4>1, <4>3, <4>4, <2>6, <3>2 DEF PastInv, RecordsInv
    <3>3. CASE unserved' = unserved \cup {r} /\ records' = records
      <4>1. OneRecord'
        BY <2>4, <2>6, <3>3 DEF PastInv, RecordsInv, OneRecord
      <4>2. QED BY <4>1, <2>4, <2>6, <3>3 DEF PastInv, RecordsInv
    <3>4. QED BY <2>5, <3>1, <3>2, <3>3
  <2>9. HistoryInv'
    BY <2>1, <2>6 DEF PastInv, HistoryInv
  <2>10. QED BY <2>7, <2>8, <2>9 DEF PastInv
<1>12. CASE Finalize
  <2> DEFINE q == [role |-> "user", turn |-> clock]
             a == [role |-> "assistant", turn |-> clock]
  <2>1. UNCHANGED <<records, unserved, clock, failed>> /\ pc = "finalize" /\ pc' = "idle"
        /\ history' = Add(Add(history, q), a)
    BY <1>12 DEF Finalize, Chat
  <2>2. q \in Said /\ a \in Said /\ q.turn = clock /\ a.turn = clock /\ q # a
    BY <2>1 DEF PastInv, ClockInv, Said
  <2> HIDE DEF q, a
  <2>3. Shown' = Shown \cup {clock} /\ Recorded' = Recorded /\ clock \notin Shown
    BY <2>1 DEF PastInv, ClockInv, Recorded, Shown
  <2>4. ClockInv' /\ RecordsInv'
    BY <2>1, <2>3 DEF PastInv, ClockInv, RecordsInv, OneRecord
  <2>5. Clean(history, Shown \cup {clock})
    BY CleanWider DEF PastInv, HistoryInv
  <2>6. \A i \in DOMAIN history : history[i] # q /\ history[i] # a
    BY <2>2, <2>3 DEF PastInv, HistoryInv, Clean
  <2>7. /\ Clean(Add(history, q), Shown \cup {clock})
        /\ \A i \in DOMAIN Add(history, q) :
             Add(history, q)[i] = q \/ \E j \in DOMAIN history : Add(history, q)[i] = history[j]
    BY <2>2, <2>5, <2>6, AddKeeps
  <2>8. \A i \in DOMAIN Add(history, q) : Add(history, q)[i] # a
    BY <2>2, <2>6, <2>7
  <2>9. Clean(Add(Add(history, q), a), Shown \cup {clock})
    BY <2>2, <2>7, <2>8, AddKeeps
  <2>10. QED BY <2>1, <2>3, <2>4, <2>9 DEF PastInv, HistoryInv
<1>13. CASE Restart
  <2>1. UNCHANGED <<records, unserved, clock, failed>> /\ pc' = "idle"
        /\ history' \in {<<>>, Replayed(<<>>, Recent(Want))}
    BY <1>13 DEF Restart
  <2>2. Recorded \subseteq Recorded' /\ Shown' = Recorded'
    BY <2>1 DEF Recorded, Shown
  <2>3. ClockInv' /\ RecordsInv'
    BY <2>1, <2>2 DEF PastInv, ClockInv, RecordsInv, OneRecord
  <2>4. Clean(history', Recorded)
    BY <2>1, EmptyIsClean, RebuiltIsClean DEF PastInv
  <2>5. Clean(history', Recorded')
    BY <2>2, <2>4, CleanWider
  <2>6. QED BY <2>2, <2>3, <2>5 DEF PastInv, HistoryInv
<1>14. CASE ServeLate
  <2>1. PICK r \in unserved : records' = Append(records, r) /\ unserved' = unserved \ {r}
    BY <1>14 DEF ServeLate
  <2>2. UNCHANGED <<history, clock, pc, failed>>
    BY <1>14 DEF ServeLate
  <2>3. Recorded' = Recorded /\ Shown' = Shown
    BY <2>2 DEF Recorded, Shown
  <2>4. r \in Record /\ r.turn \in Recorded /\ \A i \in DOMAIN records : records[i].turn # r.turn
    BY DEF PastInv, RecordsInv, OneRecord
  <2>5. records' \in Seq(Record) /\ Len(records') = Len(records) + 1
    BY <2>1, <2>4 DEF PastInv, RecordsInv
  <2>6. \A i \in DOMAIN records' :
           \/ i \in DOMAIN records /\ records'[i] = records[i]
           \/ i = Len(records) + 1 /\ records'[i] = r
    BY <2>1, <2>5 DEF PastInv, RecordsInv
  <2>7. \A s \in unserved' : s \in unserved /\ s.turn # r.turn
    BY <2>1 DEF PastInv, RecordsInv, OneRecord
  <2>8. OneRecord'
    BY <2>4, <2>6, <2>7 DEF PastInv, RecordsInv, OneRecord
  <2>9. RecordsInv'
    BY <2>3, <2>4, <2>5, <2>6, <2>7, <2>8 DEF PastInv, RecordsInv
  <2>10. ClockInv' /\ HistoryInv'
    BY <2>2, <2>3 DEF PastInv, ClockInv, HistoryInv
  <2>11. QED BY <2>9, <2>10 DEF PastInv
<1>15. CASE OthersWrite
  <2>1. UNCHANGED <<history, unserved, pc, failed>> /\ pc = "idle" /\ clock < MaxTurns
        /\ clock' = clock + 1
    BY <1>15 DEF OthersWrite
  <2>2. PICK form \in DOMAIN Roles : records' = Append(records, [form |-> form, turn |-> clock'])
    BY <1>15 DEF OthersWrite
  <2> DEFINE r == [form |-> form, turn |-> clock']
  <2>3. clock \in Nat /\ clock' \in 1..MaxTurns
    BY <2>1, ChatAssumption DEF PastInv, ClockInv
  <2>4. r \in Record /\ r.turn = clock'
    BY <2>3 DEF Record
  <2>5. records' = Append(records, r)
    BY <2>2
  <2> HIDE DEF r
  <2>6. ClockInv'
    BY <2>1, <2>3 DEF PastInv, ClockInv
  <2>7. Shown \subseteq Shown' /\ Recorded \subseteq Recorded' /\ clock' \in Recorded'
        /\ clock' \notin Recorded
    BY <2>1, <2>3 DEF PastInv, ClockInv, Shown, Recorded
  <2>8. records' \in Seq(Record) /\ Len(records') = Len(records) + 1
    BY <2>4, <2>5 DEF PastInv, RecordsInv
  <2>9. \A i \in DOMAIN records' :
           \/ i \in DOMAIN records /\ records'[i] = records[i]
           \/ i = Len(records) + 1 /\ records'[i] = r
    BY <2>5, <2>8 DEF PastInv, RecordsInv
  <2>10. OneRecord'
    BY <2>1, <2>4, <2>7, <2>9 DEF PastInv, RecordsInv, OneRecord
  <2>11. RecordsInv'
    BY <2>1, <2>4, <2>7, <2>8, <2>9, <2>10 DEF PastInv, RecordsInv
  <2>12. Clean(history, Shown')
    BY <2>7, CleanWider DEF PastInv, HistoryInv
  <2>13. QED BY <2>1, <2>6, <2>11, <2>12 DEF PastInv, HistoryInv
<1>16. CASE UNCHANGED vars
  BY <1>16, SamePast DEF vars
<1>17. QED BY <1>1, <1>2, <1>3, <1>4, <1>5, <1>6, <1>7, <1>8, <1>9, <1>10, <1>11, <1>12,
              <1>13, <1>14, <1>15, <1>16 DEF Next, Step

-----------------------------------------------------------------------------
(* The conversation of a request *)

\* Each call is answered where it must be, as far as the request goes, and a
\* tool's message answers a call.
Conv(b) ==
  /\ \A i \in DOMAIN b, k \in 1..MaxCalls :
       b[i].role = "assistant" /\ k <= b[i].calls /\ i + k <= Len(b) => b[i + k] = Answers(k)
  /\ \A i \in DOMAIN b : b[i].role = "tool" =>
       i > b[i].calls /\ \E n \in b[i].calls..MaxCalls : b[i - b[i].calls] = Asks(n)

\* The answers to the calls of message i are all there.
AllAnswered(b, i) == b[i].role = "assistant" => i + b[i].calls <= Len(b)
Closed(b) == \A i \in DOMAIN b : AllAnswered(b, i)

\* Of the calls 1..n of message a all are answered but k..n, and every call of
\* the others is.
OpenFrom(b, a, k, n) ==
  /\ a \in DOMAIN b /\ b[a] = Asks(n) /\ Len(b) = a + k - 1
  /\ \A i \in DOMAIN b : i # a => AllAnswered(b, i)

\* The messages the chat puts into a request, by role and calls
LEMMA MessageFacts ==
  /\ \A n \in 1..MaxCalls : Asks(n) \in Message /\ Asks(n).role = "assistant" /\ Asks(n).calls = n
  /\ \A k \in 1..MaxCalls : Answers(k) \in Message /\ Answers(k).role = "tool" /\ Answers(k).calls = k
  /\ \A role \in {"system", "user", "assistant"} :
       Msg(role) \in Message /\ Msg(role).role = role /\ Msg(role).calls = 0
  /\ \A m \in Message : m.calls \in 0..MaxCalls
  BY ChatAssumption DEF Asks, Answers, Msg, Message

\* One more message that is not a tool's keeps a conversation without open calls
\* in order, and its old calls answered.
LEMMA ConvAppend ==
  ASSUME NEW b \in Seq(Message), Conv(b), Closed(b), NEW m \in Message, m.role # "tool"
  PROVE  /\ Conv(Append(b, m))
         /\ \A i \in DOMAIN b : AllAnswered(Append(b, m), i)
<1> DEFINE c == Append(b, m)
<1>1. /\ c \in Seq(Message) /\ Len(c) = Len(b) + 1 /\ Len(b) \in Nat
      /\ c[Len(b) + 1] = m /\ \A i \in 1..Len(b) : c[i] = b[i]
      /\ DOMAIN b = 1..Len(b) /\ DOMAIN c = 1..(Len(b) + 1)
  OBVIOUS
<1> HIDE DEF c
<1>2. \A i \in 1..Len(b) : b[i] \in Message /\ b[i].calls \in 0..MaxCalls
  BY MessageFacts, <1>1
<1>3. \A i \in DOMAIN b : AllAnswered(c, i)
  BY <1>1, <1>2 DEF Closed, AllAnswered
<1>4. ASSUME NEW i \in DOMAIN c, NEW k \in 1..MaxCalls,
             c[i].role = "assistant", k <= c[i].calls, i + k <= Len(c)
      PROVE  c[i + k] = Answers(k)
  <2>1. i \in 1..Len(b)
    BY <1>1, <1>4
  <2>2. i + k <= Len(b)
    BY <1>1, <1>2, <1>4, <2>1 DEF Closed, AllAnswered
  <2>3. b[i].role = "assistant" /\ k <= b[i].calls
    BY <1>1, <1>4, <2>1
  <2>4. b[i + k] = Answers(k)
    BY <1>1, <2>1, <2>2, <2>3 DEF Conv
  <2>5. i + k \in 1..Len(b)
    BY <2>1, <2>2
  <2>6. QED BY <1>1, <2>4, <2>5
<1>5. ASSUME NEW i \in DOMAIN c, c[i].role = "tool"
      PROVE  i > c[i].calls /\ \E n \in c[i].calls..MaxCalls : c[i - c[i].calls] = Asks(n)
  <2>1. i \in 1..Len(b)
    BY <1>1, <1>5
  <2>2. c[i] = b[i] /\ b[i].role = "tool"
    BY <1>1, <1>5, <2>1
  <2>3. i > b[i].calls /\ \E n \in b[i].calls..MaxCalls : b[i - b[i].calls] = Asks(n)
    BY <1>1, <2>1, <2>2 DEF Conv
  <2>4. i - b[i].calls \in 1..Len(b)
    BY <1>2, <2>1, <2>3
  <2>5. QED BY <1>1, <2>2, <2>3, <2>4
<1>6. Conv(c)
  BY <1>4, <1>5 DEF Conv
<1>7. QED BY <1>3, <1>6 DEF c

\* The answer to the first open call keeps it in order; the next call is open
\* then, or none.
LEMMA ConvAnswer ==
  ASSUME NEW b \in Seq(Message), Conv(b), NEW n \in 1..MaxCalls, NEW k \in 1..n,
         NEW a \in Nat, OpenFrom(b, a, k, n)
  PROVE  LET c == Append(b, Answers(k)) IN
         /\ Conv(c)
         /\ k < n => OpenFrom(c, a, k + 1, n)
         /\ k = n => Closed(c)
<1> DEFINE c == Append(b, Answers(k))
<1>1. MaxCalls \in Nat /\ n \in Nat /\ k \in Nat /\ k \in 1..MaxCalls /\ n \in k..MaxCalls
  BY ChatAssumption
<1>2. Answers(k) \in Message /\ Answers(k).role = "tool" /\ Answers(k).calls = k
  BY <1>1, MessageFacts
<1>3. /\ c \in Seq(Message) /\ Len(c) = Len(b) + 1 /\ Len(b) \in Nat
      /\ c[Len(b) + 1] = Answers(k) /\ \A i \in 1..Len(b) : c[i] = b[i]
      /\ DOMAIN b = 1..Len(b) /\ DOMAIN c = 1..(Len(b) + 1)
  BY <1>2
<1> HIDE DEF c
<1>4. \A i \in 1..Len(b) : b[i] \in Message /\ b[i].calls \in 0..MaxCalls
  BY MessageFacts, <1>3
<1>5. /\ a \in 1..Len(b) /\ b[a] = Asks(n) /\ Len(b) = a + k - 1
      /\ b[a].role = "assistant" /\ b[a].calls = n
      /\ \A i \in 1..Len(b) : i # a => AllAnswered(b, i)
  BY <1>3, MessageFacts DEF OpenFrom
<1>6. ASSUME NEW i \in DOMAIN c, NEW j \in 1..MaxCalls,
             c[i].role = "assistant", j <= c[i].calls, i + j <= Len(c)
      PROVE  c[i + j] = Answers(j)
  <2>1. i \in 1..Len(b) /\ c[i] = b[i] /\ b[i].role = "assistant" /\ j <= b[i].calls /\ j \in Nat
    BY <1>2, <1>3, <1>6
  <2>2. CASE i + j <= Len(b)
    <3>1. b[i + j] = Answers(j) /\ i + j \in 1..Len(b)
      BY <1>3, <2>1, <2>2 DEF Conv
    <3>2. QED BY <1>3, <3>1
  <2>3. CASE i + j = Len(b) + 1
    <3>1. i = a
      BY <1>4, <1>5, <2>1, <2>3 DEF AllAnswered
    <3>2. j = k
      BY <1>1, <1>5, <2>1, <2>3, <3>1
    <3>3. QED BY <1>3, <2>3, <3>2
  <2>4. QED BY <1>3, <1>6, <2>1, <2>2, <2>3
<1>7. ASSUME NEW i \in DOMAIN c, c[i].role = "tool"
      PROVE  i > c[i].calls /\ \E p \in c[i].calls..MaxCalls : c[i - c[i].calls] = Asks(p)
  <2>1. CASE i \in 1..Len(b)
    <3>1. c[i] = b[i] /\ b[i].role = "tool"
      BY <1>3, <1>7, <2>1
    <3>2. i > b[i].calls /\ \E p \in b[i].calls..MaxCalls : b[i - b[i].calls] = Asks(p)
      BY <1>3, <2>1, <3>1 DEF Conv
    <3>3. i - b[i].calls \in 1..Len(b)
      BY <1>4, <2>1, <3>2
    <3>4. QED BY <1>3, <3>1, <3>2, <3>3
  <2>2. CASE i = Len(b) + 1
    <3>1. c[i].calls = k /\ i - k = a /\ i > k
      BY <1>1, <1>2, <1>3, <1>5, <2>2
    <3>2. c[a] = Asks(n)
      BY <1>3, <1>5
    <3>3. QED BY <1>1, <3>1, <3>2
  <2>3. QED BY <1>3, <2>1, <2>2
<1>8. Conv(c)
  BY <1>6, <1>7 DEF Conv
<1>9. \A i \in DOMAIN c : i # a => AllAnswered(c, i)
  BY <1>2, <1>3, <1>4, <1>5 DEF AllAnswered
<1>10. k < n => OpenFrom(c, a, k + 1, n)
  BY <1>1, <1>3, <1>5, <1>9 DEF OpenFrom
<1>11. k = n => Closed(c)
  <2>1. HAVE k = n
  <2>2. AllAnswered(c, a)
    BY <1>1, <1>3, <1>5, <2>1 DEF AllAnswered
  <2>3. QED BY <1>9, <2>2 DEF Closed
<1>12. QED BY <1>8, <1>10, <1>11 DEF c

\* What does not ask and does not answer
Silent == {m \in Message : m.role # "tool" /\ m.calls = 0}

\* Where nobody asks, no call is open.
LEMMA SilentConv ==
  ASSUME NEW b \in Seq(Silent)
  PROVE  b \in Seq(Message) /\ Conv(b) /\ Closed(b)
<1>1. b \in Seq(Message) /\ \A i \in DOMAIN b : b[i].role # "tool" /\ b[i].calls = 0 /\ i \in 1..Len(b)
  BY DEF Silent
<1>2. QED BY <1>1 DEF Conv, Closed, AllAnswered

\* Neither in an empty request.
LEMMA EmptyConv == <<>> \in Seq(Message) /\ Conv(<<>>) /\ Closed(<<>>)
  BY DEF Conv, Closed, AllAnswered

-----------------------------------------------------------------------------
(* How much a request holds *)

\* The messages of a request that ask for tools
AskingIn(b) == {i \in DOMAIN b : b[i].role = "assistant" /\ b[i].calls > 0}

\* The messages that ask can be counted.
LEMMA AskingFinite ==
  ASSUME NEW b \in Seq(Message)
  PROVE  IsFiniteSet(AskingIn(b)) /\ Cardinality(AskingIn(b)) \in Nat
<1>1. IsFiniteSet(1..Len(b))
  BY FS_Interval
<1>2. AskingIn(b) \subseteq 1..Len(b)
  BY DEF AskingIn
<1>3. QED BY <1>1, <1>2, FS_Subset, FS_CardinalityType

\* A new message adds at most one to them, and none when it is not an assistant's.
LEMMA AskingAppend ==
  ASSUME NEW b \in Seq(Message), NEW m \in Message
  PROVE  /\ Cardinality(AskingIn(Append(b, m))) <= Cardinality(AskingIn(b)) + 1
         /\ m.role # "assistant" => AskingIn(Append(b, m)) = AskingIn(b)
<1> DEFINE c == Append(b, m)
<1>1. /\ Len(b) \in Nat /\ c[Len(b) + 1] = m /\ \A i \in 1..Len(b) : c[i] = b[i]
      /\ DOMAIN b = 1..Len(b) /\ DOMAIN c = 1..(Len(b) + 1) /\ Len(b) + 1 \notin 1..Len(b)
  OBVIOUS
<1>2. c \in Seq(Message)
  OBVIOUS
<1> HIDE DEF c
<1>3. \A i \in DOMAIN c : i \in 1..Len(b) \/ i = Len(b) + 1
  BY <1>1
<1>4. \A i \in 1..Len(b) : i \in AskingIn(c) <=> i \in AskingIn(b)
  BY <1>1 DEF AskingIn
<1>5. CASE m.role = "assistant" /\ m.calls > 0
  <2>1. AskingIn(c) = AskingIn(b) \cup {Len(b) + 1} /\ Len(b) + 1 \notin AskingIn(b)
    BY <1>1, <1>3, <1>4, <1>5 DEF AskingIn
  <2>2. Cardinality(AskingIn(c)) = Cardinality(AskingIn(b)) + 1
    BY <2>1, AskingFinite, FS_AddElement
  <2>3. QED BY <1>5, <2>2, AskingFinite DEF c
<1>6. CASE ~(m.role = "assistant" /\ m.calls > 0)
  <2>1. AskingIn(c) = AskingIn(b)
    BY <1>1, <1>3, <1>4, <1>6 DEF AskingIn
  <2>2. QED BY <2>1, AskingFinite DEF c
<1>7. QED BY <1>5, <1>6

\* Where nobody asks, there are none.
LEMMA AskingSilent ==
  ASSUME NEW b \in Seq(Silent)
  PROVE  Cardinality(AskingIn(b)) = 0
<1>1. AskingIn(b) = {}
  BY DEF AskingIn, Silent
<1>2. QED BY <1>1, FS_EmptySet

\* What is in a request at most: the prompt, a memory, the history and the
\* line, and for each round the message that asks and its answers.
Size(r) == Capacity + 3 + r * (1 + MaxCalls)

\* A product grows with its factor.
LEMMA TimesMonotone ==
  ASSUME NEW x \in Nat, NEW y \in Nat, x <= y, NEW z \in Nat PROVE x * z <= y * z
<1>1. y * z = x * z + (y - x) * z
  OBVIOUS
<1>2. (y - x) * z >= 0
  OBVIOUS
<1>3. QED BY <1>1, <1>2

\* A round adds its messages to the size of a request, and the buffer has memory
\* for all of them and the order to sum up.
LEMMA SizeFacts ==
  /\ \A r \in Nat : Size(r) \in Nat /\ Size(r + 1) = Size(r) + 1 + MaxCalls
  /\ \A r \in 0..ToolRounds : Size(r) + 1 <= MaxMessages
  /\ Size(0) = Capacity + 3
<1>1. Capacity \in Nat /\ MaxCalls \in Nat /\ ToolRounds \in Nat /\ MaxMessages \in Nat
      /\ MaxMessages >= Capacity + 4 + ToolRounds * (1 + MaxCalls)
  BY ChatAssumption, CapacityType
<1> DEFINE z == 1 + MaxCalls
<1>2. z \in Nat /\ z = 1 + MaxCalls
  BY <1>1
<1> HIDE DEF z
<1>3. \A r \in Nat : (r + 1) * z = r * z + z /\ r * z \in Nat
  BY <1>2
<1>4. \A r \in Nat : Size(r) = Capacity + 3 + r * z
  BY <1>2 DEF Size
<1>5. \A r \in 0..ToolRounds : r * z <= ToolRounds * z
  BY <1>1, <1>2, TimesMonotone
<1>6. MaxMessages >= Capacity + 4 + ToolRounds * z /\ ToolRounds * z \in Nat
  BY <1>1, <1>2, <1>3
<1>7. \A r \in Nat : Size(r) \in Nat /\ Size(r + 1) = Size(r) + 1 + MaxCalls
  BY <1>1, <1>2, <1>3, <1>4
<1>8. ASSUME NEW r \in 0..ToolRounds PROVE Size(r) + 1 <= MaxMessages
  <2>1. r \in Nat /\ r * z \in Nat /\ Size(r) = Capacity + 3 + r * z /\ r * z <= ToolRounds * z
    BY <1>1, <1>3, <1>4, <1>5
  <2>2. QED BY <1>1, <1>6, <2>1
<1>9. Size(0) = Capacity + 3
  BY <1>1, <1>2, <1>4
<1>10. QED BY <1>7, <1>8, <1>9

-----------------------------------------------------------------------------
(* The invariant of the request *)

\* Between the tool calls of a round, k..n of message a are open; otherwise no
\* call is. A request grows by a round's messages, and once by the order to
\* sum up.
RoundInv ==
  /\ ~summary /\ rounds < ToolRounds
  /\ Cardinality(AskingIn(buffer)) <= rounds + 1
  /\ \E n \in 1..MaxCalls : \E k \in 1..n, a \in Nat :
       todo = k..n /\ OpenFrom(buffer, a, k, n) /\ Len(buffer) <= Size(rounds) + k
RequestInv ==
  /\ Closed(buffer) /\ Cardinality(AskingIn(buffer)) <= rounds
  /\ Len(buffer) <= Size(rounds) + 1
  /\ ~summary => Len(buffer) <= Size(rounds)
LoopInv ==
  /\ buffer \in Seq(Message) /\ rounds \in 0..ToolRounds /\ todo \subseteq 1..MaxCalls
  /\ Conv(buffer)
  /\ pc = "tools" => RoundInv
  /\ pc # "tools" => RequestInv

\* The same for the round under way
LEMMA RoundSize ==
  ASSUME rounds \in 0..ToolRounds
  PROVE  /\ rounds \in Nat /\ MaxMessages \in Nat
         /\ Size(rounds) \in Nat /\ Size(rounds) + 1 <= MaxMessages
         /\ Size(rounds + 1) = Size(rounds) + 1 + MaxCalls
         /\ rounds < ToolRounds => rounds + 1 \in 0..ToolRounds /\ Size(rounds + 1) + 1 <= MaxMessages
<1>1. rounds \in Nat /\ ToolRounds \in Nat /\ MaxMessages \in Nat
  BY BoundsType
<1>2. Size(rounds) \in Nat /\ Size(rounds + 1) = Size(rounds) + 1 + MaxCalls
  BY <1>1, SizeFacts
<1>3. Size(rounds) + 1 <= MaxMessages
  BY SizeFacts
<1>4. ASSUME rounds < ToolRounds
      PROVE  rounds + 1 \in 0..ToolRounds /\ Size(rounds + 1) + 1 <= MaxMessages
  <2>1. rounds + 1 \in 0..ToolRounds
    BY <1>1, <1>4
  <2>2. QED BY <2>1, SizeFacts
<1>5. QED BY <1>1, <1>2, <1>3, <1>4

\* A step that drops the request keeps the invariant.
LEMMA NoRequest ==
  ASSUME buffer' = <<>>, rounds' \in 0..ToolRounds, todo' \subseteq 1..MaxCalls, pc' # "tools"
  PROVE  LoopInv'
<1>1. AskingIn(buffer') = {} /\ Cardinality({}) = 0
  BY FS_EmptySet DEF AskingIn
<1>2. rounds' \in Nat /\ Size(rounds') \in Nat /\ Len(buffer') = 0
  BY SizeFacts, BoundsType
<1>3. buffer' \in Seq(Message) /\ Conv(buffer') /\ Closed(buffer')
  BY EmptyConv
<1>4. Cardinality(AskingIn(buffer')) <= rounds'
  BY <1>1, <1>2
<1>5. Len(buffer') <= Size(rounds') /\ Len(buffer') <= Size(rounds') + 1
  BY <1>2
<1>6. RequestInv'
  BY <1>3, <1>4, <1>5 DEF RequestInv
<1>7. QED BY <1>3, <1>6 DEF LoopInv

\* The chat starts without one.
LEMMA InitLoop == Init => LoopInv
<1> SUFFICES ASSUME Init PROVE LoopInv
  OBVIOUS
<1>1. buffer = <<>> /\ rounds = 0 /\ todo = {} /\ pc = "idle"
  BY DEF Init
<1>2. Cardinality(AskingIn(buffer)) = 0
  <2>1. AskingIn(buffer) = {}
    BY <1>1 DEF AskingIn
  <2>2. QED BY <2>1, FS_EmptySet
<1>3. rounds \in 0..ToolRounds /\ Size(rounds) \in Nat /\ Len(buffer) = 0
  BY <1>1, SizeFacts, BoundsType
<1>4. buffer \in Seq(Message) /\ Conv(buffer) /\ Closed(buffer)
  BY <1>1, EmptyConv
<1>5. Cardinality(AskingIn(buffer)) <= rounds
  BY <1>1, <1>2
<1>6. Len(buffer) <= Size(rounds) /\ Len(buffer) <= Size(rounds) + 1
  BY <1>3
<1>7. RequestInv
  BY <1>4, <1>5, <1>6 DEF RequestInv
<1>8. QED BY <1>1, <1>3, <1>4, <1>7 DEF LoopInv

\* A step that leaves the loop's state alone, in a turn or between turns, keeps it.
LEMMA SameRequest ==
  ASSUME LoopInv, buffer' = buffer, rounds' = rounds, todo' = todo, summary' = summary,
         pc' = pc \/ (pc # "tools" /\ pc' # "tools")
  PROVE  LoopInv'
<1>1. RoundInv' = RoundInv
  BY DEF RoundInv
<1>2. RequestInv' = RequestInv
  BY DEF RequestInv
<1>3. QED BY <1>1, <1>2 DEF LoopInv

\* The first request of a turn asks for no tool.
LEMMA InjectLoop ==
  ASSUME PastInv, LoopInv, Inject
  PROVE  LoopInv'
<1>1. pc' = "llm" /\ rounds' = 0 /\ todo' = todo
  BY DEF Inject, Chat
<1> DEFINE told == [i \in DOMAIN history |-> Msg(history[i].role)]
<1>2. PICK memories \in Memories :
        buffer' = <<Msg("system")>> \o memories \o told \o <<Msg("user")>>
  BY DEF Inject
<1>3. <<Msg("system")>> \in Seq(Silent) /\ <<Msg("user")>> \in Seq(Silent)
  BY MessageFacts DEF Silent
<1>4. memories \in Seq(Silent) /\ Len(memories) <= 1
  <2>1. memories = <<>> \/ memories = <<Msg("system")>>
    BY <1>2, Zenon DEF Memories
  <2>2. CASE memories = <<>>
    BY <2>2
  <2>3. CASE memories = <<Msg("system")>>
    BY <1>3, <2>3
  <2>4. QED BY <2>1, <2>2, <2>3
<1>5. history \in Seq(Said) /\ Len(history) <= Capacity
  BY DEF PastInv, HistoryInv, Clean, Ring
<1>6. told \in Seq(Silent) /\ Len(told) = Len(history)
  <2>0. \A i \in DOMAIN history : history[i] \in Said
    BY <1>5
  <2>1. \A i \in DOMAIN history : history[i].role \in {"user", "assistant"}
    BY <2>0 DEF Said
  <2>2. \A i \in DOMAIN history : told[i] \in Silent
    BY <2>1, MessageFacts DEF Silent
  <2>3. DOMAIN history = 1..Len(history) /\ Len(history) \in Nat
    BY <1>5
  <2>4. QED BY <2>2, <2>3
<1> HIDE DEF told
<1>7. buffer' \in Seq(Silent) /\ Len(buffer') = 1 + Len(memories) + Len(told) + 1
  BY <1>2, <1>3, <1>4, <1>6
<1>8. buffer' \in Seq(Message) /\ Conv(buffer') /\ Closed(buffer')
  BY <1>7, SilentConv
<1>9. Cardinality(AskingIn(buffer')) = 0
  BY <1>7, AskingSilent
<1>10. Len(buffer') <= Size(rounds') /\ Size(rounds') \in Nat /\ Len(buffer') \in Nat
  BY <1>1, <1>4, <1>5, <1>6, <1>7, SizeFacts, CapacityType
<1>11. RequestInv'
  BY <1>1, <1>8, <1>9, <1>10 DEF RequestInv
<1>12. rounds' \in 0..ToolRounds /\ todo' \subseteq 1..MaxCalls
  BY <1>1, ChatAssumption DEF LoopInv
<1>13. QED BY <1>1, <1>8, <1>11, <1>12 DEF LoopInv

\* A message that asks for tools opens its calls, from the first to the last.
LEMMA LlmAsksLoop ==
  ASSUME LoopInv, LlmAsks
  PROVE  LoopInv'
<1>1. pc = "llm" /\ pc' = "tools" /\ ~summary /\ rounds < ToolRounds
  BY DEF LlmAsks, Chat, RoundLeft
<1>2. rounds' = rounds /\ summary' = summary
  BY DEF LlmAsks
<1>3. PICK n \in 1..MaxCalls : todo' = 1..n /\ buffer' = Push(buffer, Asks(n))
  BY DEF LlmAsks
<1> DEFINE m == Asks(n)
<1>4. m \in Message /\ m.role # "tool"
  BY MessageFacts
<1>5. RequestInv /\ buffer \in Seq(Message) /\ Conv(buffer) /\ rounds \in 0..ToolRounds
  BY <1>1 DEF LoopInv
<1>6. Closed(buffer) /\ Cardinality(AskingIn(buffer)) <= rounds /\ Len(buffer) <= Size(rounds)
  BY <1>1, <1>5 DEF RequestInv
<1>7. Size(rounds) \in Nat /\ Size(rounds) + 1 <= MaxMessages /\ MaxMessages \in Nat /\ rounds \in Nat
  BY <1>5, RoundSize
<1>8. buffer' = Append(buffer, m)
  BY <1>3, <1>5, <1>6, <1>7 DEF Push
<1> HIDE DEF m
<1>9. /\ buffer' \in Seq(Message) /\ Len(buffer') = Len(buffer) + 1 /\ Len(buffer) \in Nat
      /\ buffer'[Len(buffer) + 1] = m
      /\ \A i \in DOMAIN buffer' : i # Len(buffer) + 1 => i \in DOMAIN buffer
  BY <1>4, <1>5, <1>8
<1>10. Conv(buffer') /\ \A i \in DOMAIN buffer : AllAnswered(buffer', i)
  BY <1>4, <1>5, <1>6, <1>8, ConvAppend
<1>11. Cardinality(AskingIn(buffer')) <= rounds + 1
  <2>1. Cardinality(AskingIn(buffer')) <= Cardinality(AskingIn(buffer)) + 1
    BY <1>4, <1>5, <1>8, AskingAppend
  <2>2. Cardinality(AskingIn(buffer)) \in Nat /\ Cardinality(AskingIn(buffer')) \in Nat
    BY <1>5, <1>9, AskingFinite
  <2>3. QED BY <2>1, <2>2, <1>6, <1>7
<1>12. OpenFrom(buffer', Len(buffer) + 1, 1, n)
  <2>1. Len(buffer) + 1 \in DOMAIN buffer' /\ Len(buffer') = Len(buffer) + 1 + 1 - 1
    BY <1>9
  <2>2. buffer'[Len(buffer) + 1] = Asks(n)
    BY <1>9 DEF m
  <2>3. QED BY <2>1, <2>2, <1>9, <1>10 DEF OpenFrom
<1>13. Len(buffer') <= Size(rounds') + 1
  BY <1>2, <1>6, <1>7, <1>9
<1>14. MaxCalls \in Nat /\ 1 \in 1..n /\ Len(buffer) + 1 \in Nat /\ 1..n \subseteq 1..MaxCalls
  BY <1>9, ChatAssumption
<1>15. RoundInv'
  BY <1>1, <1>2, <1>3, <1>11, <1>12, <1>13, <1>14 DEF RoundInv
<1>16. QED BY <1>1, <1>2, <1>3, <1>5, <1>9, <1>10, <1>14, <1>15 DEF LoopInv

\* The order to sum up is the last message there is memory for.
LEMMA LlmSumsUpLoop ==
  ASSUME LoopInv, LlmSumsUp
  PROVE  LoopInv'
<1>1. pc = "llm" /\ pc' = "llm" /\ ~summary /\ summary' = TRUE
  BY DEF LlmSumsUp, Chat
<1>2. rounds' = rounds /\ todo' = todo /\ buffer' = Push(buffer, Msg("user"))
  BY DEF LlmSumsUp
<1>3. Msg("user") \in Message /\ Msg("user").role = "user"
  BY MessageFacts
<1>4. RequestInv /\ buffer \in Seq(Message) /\ Conv(buffer) /\ rounds \in 0..ToolRounds
      /\ todo \subseteq 1..MaxCalls
  BY <1>1 DEF LoopInv
<1>5. Closed(buffer) /\ Cardinality(AskingIn(buffer)) <= rounds /\ Len(buffer) <= Size(rounds)
  BY <1>1, <1>4 DEF RequestInv
<1>6. Size(rounds) \in Nat /\ Size(rounds) + 1 <= MaxMessages /\ MaxMessages \in Nat
  BY <1>4, RoundSize
<1>7. buffer' = Append(buffer, Msg("user"))
  BY <1>2, <1>4, <1>5, <1>6 DEF Push
<1>8. buffer' \in Seq(Message) /\ Len(buffer') = Len(buffer) + 1
      /\ \A i \in DOMAIN buffer' : i \in DOMAIN buffer \/ buffer'[i] = Msg("user")
  BY <1>3, <1>4, <1>7
<1>9. Conv(buffer') /\ \A i \in DOMAIN buffer : AllAnswered(buffer', i)
  BY <1>3, <1>4, <1>5, <1>7, ConvAppend
<1>10. Closed(buffer')
  BY <1>3, <1>8, <1>9 DEF Closed, AllAnswered
<1>11. AskingIn(buffer') = AskingIn(buffer)
  BY <1>3, <1>4, <1>7, AskingAppend
<1>12. Len(buffer') <= Size(rounds') + 1
  BY <1>2, <1>4, <1>5, <1>6, <1>8
<1>13. RequestInv'
  BY <1>1, <1>2, <1>5, <1>10, <1>11, <1>12 DEF RequestInv
<1>14. QED BY <1>1, <1>2, <1>4, <1>8, <1>9, <1>13 DEF LoopInv

\* A tool answers the first open call; the last answer ends the round.
LEMMA ToolLoop ==
  ASSUME LoopInv, Tool
  PROVE  LoopInv'
<1>1. /\ pc = "tools" /\ buffer' = Answered(Min(todo)) /\ todo' = todo \ {Min(todo)}
      /\ summary' = summary
      /\ todo' = {} => pc' = "llm" /\ rounds' = rounds + 1
      /\ todo' # {} => pc' = pc /\ rounds' = rounds
  BY DEF Tool, Counted
<1>2. RoundInv /\ buffer \in Seq(Message) /\ Conv(buffer) /\ rounds \in 0..ToolRounds
  BY <1>1 DEF LoopInv
<1>3. ~summary /\ rounds < ToolRounds /\ Cardinality(AskingIn(buffer)) <= rounds + 1
  BY <1>2 DEF RoundInv
<1>4. PICK n \in 1..MaxCalls : \E k \in 1..n, a \in Nat :
         todo = k..n /\ OpenFrom(buffer, a, k, n) /\ Len(buffer) <= Size(rounds) + k
  BY <1>2 DEF RoundInv
<1>5. PICK k \in 1..n, a \in Nat :
         todo = k..n /\ OpenFrom(buffer, a, k, n) /\ Len(buffer) <= Size(rounds) + k
  BY <1>4
<1>6. MaxCalls \in Nat /\ n \in Nat /\ k \in Nat /\ k \in 1..MaxCalls /\ n <= MaxCalls /\ ToolRounds \in Nat
  BY ChatAssumption
<1>7. Min(todo) = k
  <2>1. k \in k..n /\ \A y \in k..n : k <= y
    BY <1>6
  <2>2. \A x \in k..n : (\A y \in k..n : x <= y) => x = k
    BY <2>1
  <2>3. QED BY <1>5, <2>1, <2>2 DEF Min
<1>8. todo' = (k + 1)..n
  BY <1>1, <1>5, <1>6, <1>7
<1>9. /\ Size(rounds) \in Nat /\ Size(rounds + 1) = Size(rounds) + 1 + MaxCalls
      /\ Size(rounds + 1) + 1 <= MaxMessages /\ MaxMessages \in Nat
      /\ rounds \in Nat /\ rounds + 1 \in 0..ToolRounds
  BY <1>2, <1>3, RoundSize
<1>10. Answers(k) \in Message /\ Answers(k).role = "tool"
  BY <1>6, MessageFacts
<1>11. Len(buffer) \in Nat /\ Len(buffer) < MaxMessages
  BY <1>2, <1>5, <1>6, <1>9
<1>12. buffer' = Append(buffer, Answers(k))
  BY <1>1, <1>7, <1>11 DEF Answered, Push
<1>13. buffer' \in Seq(Message) /\ Len(buffer') = Len(buffer) + 1
  BY <1>2, <1>10, <1>12
<1>14. /\ Conv(buffer')
       /\ k < n => OpenFrom(buffer', a, k + 1, n)
       /\ k = n => Closed(buffer')
  BY <1>2, <1>5, <1>12, ConvAnswer
<1>15. AskingIn(buffer') = AskingIn(buffer)
  BY <1>2, <1>10, <1>12, AskingAppend
<1>16. CASE k < n
  <2>1. todo' # {} /\ k + 1 \in 1..n
    BY <1>6, <1>8, <1>16
  <2>2. pc' = "tools" /\ rounds' = rounds
    BY <1>1, <2>1
  <2>3. Len(buffer') <= Size(rounds') + (k + 1)
    BY <1>5, <1>6, <1>9, <1>11, <1>13, <2>2
  <2>4. RoundInv'
    <3>1. OpenFrom(buffer', a, k + 1, n)
      BY <1>14, <1>16
    <3>2. ~summary'
      BY <1>1, <1>3
    <3>3. QED BY <1>3, <1>8, <1>15, <2>1, <2>2, <2>3, <3>1, <3>2 DEF RoundInv
  <2>5. todo' \subseteq 1..MaxCalls
    BY <1>6, <1>8
  <2>6. QED BY <1>2, <1>13, <1>14, <2>2, <2>4, <2>5 DEF LoopInv
<1>17. CASE k = n
  <2>1. todo' = {}
    BY <1>6, <1>8, <1>17
  <2>2. pc' = "llm" /\ rounds' = rounds + 1
    BY <1>1, <2>1
  <2>3. Len(buffer') <= Size(rounds') /\ Size(rounds') \in Nat
    BY <1>5, <1>6, <1>9, <1>11, <1>13, <2>2
  <2>4. Len(buffer') <= Size(rounds') + 1
    BY <2>3, <1>11, <1>13
  <2>5. Closed(buffer') /\ Conv(buffer')
    BY <1>14, <1>17
  <2>6. RequestInv'
    BY <1>3, <1>15, <2>2, <2>3, <2>4, <2>5 DEF RequestInv
  <2>7. QED BY <1>9, <1>13, <2>1, <2>2, <2>5, <2>6 DEF LoopInv
<1>18. QED BY <1>5, <1>6, <1>16, <1>17

\* Every step keeps the invariant of the request.
LEMMA NextLoop ==
  ASSUME PastInv, LoopInv, [Next]_vars
  PROVE  LoopInv'
<1> USE DEF memVars, loopVars
<1>0. rounds \in 0..ToolRounds /\ todo \subseteq 1..MaxCalls
  BY DEF LoopInv
<1>1. CASE Clear
  BY <1>1, SameRequest DEF Clear, Idle
<1>2. CASE Rebind
  BY <1>2, SameRequest DEF Rebind, Idle
<1>3. CASE Sigint
  BY <1>3, SameRequest DEF Sigint
<1>4. CASE Enter
  BY <1>4, SameRequest DEF Enter, Chat
<1>5. CASE Inject
  BY <1>5, InjectLoop
<1>6. CASE LlmFails
  BY <1>0, <1>6, NoRequest DEF LlmFails, Chat
<1>7. CASE LlmAsks
  BY <1>7, LlmAsksLoop
<1>8. CASE LlmSumsUp
  BY <1>8, LlmSumsUpLoop
<1>9. CASE LlmAnswers
  BY <1>9, SameRequest DEF LlmAnswers, Chat
<1>10. CASE Tool
  BY <1>10, ToolLoop
<1>11. CASE RecordTurn
  BY <1>11, SameRequest DEF RecordTurn, Chat
<1>12. CASE Finalize
  BY <1>0, <1>12, NoRequest DEF Finalize, Chat
<1>13. CASE Restart
  BY <1>13, NoRequest, ChatAssumption DEF Restart
<1>14. CASE ServeLate
  BY <1>14, SameRequest DEF ServeLate
<1>15. CASE OthersWrite
  BY <1>15, SameRequest DEF OthersWrite
<1>16. CASE UNCHANGED vars
  BY <1>16, SameRequest DEF vars
<1>17. QED BY <1>1, <1>2, <1>3, <1>4, <1>5, <1>6, <1>7, <1>8, <1>9, <1>10, <1>11, <1>12,
              <1>13, <1>14, <1>15, <1>16 DEF Next, Step

-----------------------------------------------------------------------------
(* A rebuilt session is whole *)

\* The elements of a sequence of two
LEMMA BothElements ==
  ASSUME NEW S, NEW m \in Seq(S), Len(m) = 2
  PROVE  m[1] \in S /\ m[2] \in S
<1>1. 1 \in 1..Len(m) /\ 2 \in 1..Len(m)
  OBVIOUS
<1>2. QED BY <1>1, ElementOfSeq

\* A sequence of two is a pair.
LEMMA TwoAsTuple ==
  ASSUME NEW S, NEW m \in Seq(S), Len(m) = 2
  PROVE  m = <<m[1], m[2]>>
  OBVIOUS

\* A sequence of one is a tuple.
LEMMA OneAsTuple ==
  ASSUME NEW S, NEW m \in Seq(S), Len(m) = 1
  PROVE  m = <<m[1]>>
  OBVIOUS

\* Two single elements join to a pair.
LEMMA PairJoined ==
  ASSUME NEW S, NEW a \in S, NEW b \in S
  PROVE  <<a>> \o <<b>> = <<a, b>>
<1> DEFINE s == <<a>> \o <<b>>
<1>1. <<a>> \in Seq(S) /\ <<b>> \in Seq(S) /\ Len(<<a>>) = 1 /\ Len(<<b>>) = 1
      /\ <<a>>[1] = a /\ <<b>>[1] = b
  OBVIOUS
<1>2. s \in Seq(S) /\ Len(s) = Len(<<a>>) + Len(<<b>>)
      /\ \A i \in 1 .. Len(<<a>>) + Len(<<b>>) : s[i] = IF i <= Len(<<a>>) THEN <<a>>[i] ELSE <<b>>[i - Len(<<a>>)]
  BY <1>1, ConcatProperties, Zenon
<1> HIDE DEF s
<1>3. Len(s) = 2 /\ s[1] = a /\ s[2] = b
  BY <1>1, <1>2
<1>4. s = <<s[1], s[2]>>
  BY <1>2, <1>3, TwoAsTuple
<1>5. QED BY <1>3, <1>4 DEF s

\* To join a sequence of one is to append its element.
LEMMA JoinOne ==
  ASSUME NEW S, NEW h \in Seq(S), NEW m \in Seq(S), Len(m) = 1
  PROVE  h \o m = Append(h, m[1])
<1>1. m[1] \in S
  BY ElementOfSeq
<1>2. QED BY <1>1, OneAsTuple, AppendIsConcat

\* To join a sequence of two is to append both.
LEMMA JoinTwo ==
  ASSUME NEW S, NEW h \in Seq(S), NEW m \in Seq(S), Len(m) = 2
  PROVE  h \o m = Append(Append(h, m[1]), m[2])
<1>1. m[1] \in S /\ m[2] \in S
  BY BothElements
<1>2. m = <<m[1]>> \o <<m[2]>> /\ <<m[1]>> \in Seq(S) /\ <<m[2]>> \in Seq(S)
  BY <1>1, TwoAsTuple, PairJoined
<1>3. h \o m = (h \o <<m[1]>>) \o <<m[2]>>
  <2> DEFINE a == <<m[1]>>
             b == <<m[2]>>
  <2>1. a \in Seq(S) /\ b \in Seq(S) /\ m = a \o b
    BY <1>2
  <2> HIDE DEF a, b
  <2>2. (h \o a) \o b = h \o (a \o b)
    BY <2>1, ConcatAssociative
  <2>3. QED BY <2>1, <2>2 DEF a, b
<1>4. Append(h, m[1]) = h \o <<m[1]>> /\ Append(h, m[1]) \in Seq(S)
  BY <1>1, AppendIsConcat
<1>5. Append(Append(h, m[1]), m[2]) = Append(h, m[1]) \o <<m[2]>>
  BY <1>1, <1>4, AppendIsConcat
<1>6. QED BY <1>3, <1>4, <1>5

\* A ring that is not full only grows.
LEMMA AddAppends ==
  ASSUME NEW h, Len(h) \in Nat, Len(h) < Capacity, NEW m
  PROVE  Add(h, m) = Append(h, m)
  BY CapacityType DEF Add, Full

\* A record is appended whole to a ring with room for a round.
LEMMA AddRecordAppends ==
  ASSUME NEW h \in Seq(Said), Len(h) + 2 <= Capacity, NEW r \in Record
  PROVE  /\ AddRecord(h, r) = h \o MessagesOf(r)
         /\ AddRecord(h, r) \in Seq(Said) /\ Len(AddRecord(h, r)) <= Len(h) + 2
<1> DEFINE m == MessagesOf(r)
<1>1. m \in Seq(Said) /\ Len(m) \in 0..2
  BY MessagesType
<1>2. AddRecord(h, r) = IF Len(m) = 0 THEN h ELSE IF Len(m) = 1 THEN Add(h, m[1]) ELSE Add(Add(h, m[1]), m[2])
  BY DEF AddRecord
<1> HIDE DEF m
<1>3. Capacity \in Nat /\ Len(h) \in Nat
  BY CapacityType
<1>4. h \o m \in Seq(Said) /\ Len(h \o m) = Len(h) + Len(m)
  BY <1>1
<1>5. AddRecord(h, r) = h \o m
  <2>1. CASE Len(m) = 0
    <3>1. h \o m = h
      BY <1>1, <2>1
    <3>2. QED BY <1>2, <2>1, <3>1
  <2>2. CASE Len(m) = 1
    <3>0. m[1] \in Said
      BY <1>1, <2>2
    <3>1. Add(h, m[1]) = Append(h, m[1])
      BY <1>3, AddAppends
    <3>2. h \o m = Append(h, m[1])
      BY <1>1, <2>2, JoinOne
    <3>3. QED BY <1>2, <2>2, <3>1, <3>2
  <2>3. CASE Len(m) = 2
    <3>0. m[1] \in Said /\ m[2] \in Said
      BY <1>1, <2>3, BothElements
    <3>1. Add(h, m[1]) = Append(h, m[1])
      BY <1>3, AddAppends
    <3>2. Append(h, m[1]) \in Seq(Said) /\ Len(Append(h, m[1])) = Len(h) + 1
      BY <3>0
    <3>3. Add(Append(h, m[1]), m[2]) = Append(Append(h, m[1]), m[2])
      <4> DEFINE g == Append(h, m[1])
      <4>1. Len(g) \in Nat /\ Len(g) < Capacity
        BY <1>3, <3>2
      <4> HIDE DEF g
      <4>2. Add(g, m[2]) = Append(g, m[2])
        BY <4>1, AddAppends
      <4>3. QED BY <4>2 DEF g
    <3>4. h \o m = Append(Append(h, m[1]), m[2])
      BY <1>1, <2>3, JoinTwo
    <3>5. QED BY <1>2, <2>3, <3>1, <3>3, <3>4
  <2>4. QED BY <1>1, <2>1, <2>2, <2>3
<1>6. AddRecord(h, r) \in Seq(Said) /\ Len(AddRecord(h, r)) <= Len(h) + 2
  <2> DEFINE s == h \o m
  <2>1. s \in Seq(Said) /\ Len(s) = Len(h) + Len(m) /\ AddRecord(h, r) = s
    BY <1>4, <1>5
  <2> HIDE DEF s
  <2>2. Len(s) <= Len(h) + 2
    <3>1. PICK p \in Nat, q \in 0..2 : p = Len(h) /\ q = Len(m)
      BY <1>1, <1>3
    <3>2. p + q <= p + 2
      OBVIOUS
    <3>3. QED BY <2>1, <3>1, <3>2
  <2>3. QED BY <2>1, <2>2
<1>7. QED BY <1>5, <1>6 DEF m

\* The recursive function of FlattenSeq
Flattens(g, s) == g = [i \in 1..Len(s) |-> IF i = 1 THEN s[i] ELSE g[i - 1] \o s[i]]

\* A replay of records that fit loses nothing.
LEMMA ReplayIsWhole ==
  ASSUME NEW rs \in Seq(Record), 2 * Len(rs) <= Capacity
  PROVE  Replayed(<<>>, rs) = Spoken(rs)
<1> DEFINE ms == [i \in DOMAIN rs |-> MessagesOf(rs[i])]
<1>1. Len(rs) \in Nat /\ DOMAIN rs = 1..Len(rs) /\ Len(ms) = Len(rs)
      /\ \A i \in 1..Len(rs) : rs[i] \in Record /\ ms[i] = MessagesOf(rs[i])
  OBVIOUS
<1>2. Spoken(rs) = FlattenSeq(ms)
  BY DEF Spoken
<1> DEFINE e == <<>>
<1> HIDE DEF e
<1>3. PICK f : /\ Replayed(e, rs) = f[Len(rs)] /\ f[0] = e
               /\ \A k \in 1..Len(rs) : f[k] = AddRecord(f[k - 1], rs[k])
  <2>1. Len(rs) \in Nat
    OBVIOUS
  <2>2. QED BY <2>1, ReplayedFilled
<1> USE DEF e
<1>4. CASE Len(rs) = 0
  <2>1. ms = <<>>
    BY <1>1, <1>4
  <2>2. FlattenSeq(ms) = ms
    BY <1>1, <1>4 DEF FlattenSeq
  <2>3. QED BY <1>2, <1>3, <1>4, <2>1, <2>2
<1>5. CASE Len(rs) # 0
  <2> HIDE DEF ms
  <2> DEFINE S == {k \in Nat : k <= Len(rs) => f[k] \in Seq(Said) /\ Len(f[k]) <= 2 * k}
  <2>1. ASSUME NEW k \in S, k + 1 <= Len(rs)
        PROVE  /\ f[k + 1] = f[k] \o ms[k + 1]
               /\ f[k + 1] \in Seq(Said) /\ Len(f[k + 1]) <= 2 * (k + 1)
    <3>1. k \in Nat /\ k + 1 \in 1..Len(rs) /\ (k + 1) - 1 = k
      BY <1>1, <2>1
    <3>2. f[k] \in Seq(Said) /\ Len(f[k]) <= 2 * k
      BY <1>1, <2>1, <3>1
    <3>3. f[k + 1] = AddRecord(f[k], rs[k + 1]) /\ rs[k + 1] \in Record /\ ms[k + 1] = MessagesOf(rs[k + 1])
      BY <1>1, <1>3, <3>1
    <3>4. Len(f[k]) \in Nat /\ Len(f[k]) + 2 <= Capacity
      BY <1>1, <3>1, <3>2, CapacityType
    <3>5. /\ AddRecord(f[k], rs[k + 1]) = f[k] \o MessagesOf(rs[k + 1])
          /\ AddRecord(f[k], rs[k + 1]) \in Seq(Said)
          /\ Len(AddRecord(f[k], rs[k + 1])) <= Len(f[k]) + 2
      BY <3>2, <3>3, <3>4, AddRecordAppends
    <3>6. Len(f[k + 1]) <= 2 * (k + 1)
      <4> DEFINE t == f[k + 1]
      <4>0. t \in Seq(Said) /\ Len(t) <= Len(f[k]) + 2
        BY <3>3, <3>5
      <4> HIDE DEF t
      <4>1. Len(t) \in Nat
        BY <4>0
      <4> USE DEF t
      <4>2. QED BY <3>1, <3>2, <3>4, <4>0, <4>1
    <3>7. QED BY <3>3, <3>5, <3>6
  <2>2. S \in SUBSET Nat /\ 0 \in S
    <3>1. f[0] \in Seq(Said) /\ Len(f[0]) = 0
      BY <1>3
    <3>2. QED BY <3>1
  <2>3. \A k \in S : k + 1 \in S
    <3>1. TAKE k \in S
    <3>2. CASE k + 1 <= Len(rs)
      <4>1. f[k + 1] \in Seq(Said) /\ Len(f[k + 1]) <= 2 * (k + 1)
        BY <2>1, <3>2
      <4>2. QED BY <4>1
    <3>3. CASE ~(k + 1 <= Len(rs))
      BY <3>3
    <3>4. QED BY <3>2, <3>3
  <2>4. \A k \in Nat : k \in S
    <3> HIDE DEF S
    <3>1. QED BY <2>2, <2>3, Induct
  <2> HIDE DEF S
  <2>5. \A k \in Nat : k + 1 <= Len(rs) => f[k + 1] = f[k] \o ms[k + 1]
    BY <2>1, <2>4
  <2>6. f[1] = ms[1]
    <3>0. PICK j \in Nat : j = 0 /\ j + 1 <= Len(rs)
      BY <1>1, <1>5
    <3>1. f[1] = f[0] \o ms[1]
      <4>1. f[j + 1] = f[j] \o ms[j + 1]
        BY <2>5, <3>0
      <4>2. j + 1 = 1
        BY <3>0
      <4>3. QED BY <3>0, <4>1, <4>2, Zenon
    <3>2. ms[1] \in Seq(Said)
      BY <1>1, <1>5, MessagesType
    <3>3. QED BY <1>3, <3>1, <3>2
  <2> DEFINE g == [i \in 1..Len(ms) |-> f[i]]
  <2>7. g = [i \in 1..Len(ms) |-> IF i = 1 THEN ms[i] ELSE g[i - 1] \o ms[i]]
    <3>1. ASSUME NEW i \in 1..Len(ms) PROVE g[i] = IF i = 1 THEN ms[i] ELSE g[i - 1] \o ms[i]
      <4>1. CASE i = 1
        BY <2>6, <4>1
      <4>2. CASE i # 1
        <5>1. i - 1 \in Nat /\ (i - 1) + 1 = i /\ i - 1 \in 1..Len(ms) /\ i <= Len(rs)
          BY <1>1, <4>2
        <5>2. f[i] = f[i - 1] \o ms[i]
          BY <2>5, <5>1
        <5>3. g[i] = f[i] /\ g[i - 1] = f[i - 1]
          BY <5>1
        <5>4. QED BY <4>2, <5>2, <5>3
      <4>3. QED BY <4>1, <4>2
    <3>2. g = [i \in 1..Len(ms) |-> g[i]]
      OBVIOUS
    <3> HIDE DEF g
    <3>3. QED BY <3>1, <3>2
  <2> DEFINE c == CHOOSE x : Flattens(x, ms)
  <2>8. \E x : Flattens(x, ms)
    <3> HIDE DEF g
    <3>1. QED BY <2>7 DEF Flattens
  <2>9. Flattens(c, ms)
    BY <2>8
  <2>10. FlattenSeq(ms) = c[Len(ms)]
    BY <1>1, <1>5 DEF FlattenSeq, Flattens
  <2> HIDE DEF c
  <2>11. c = [i \in 1..Len(ms) |-> IF i = 1 THEN ms[i] ELSE c[i - 1] \o ms[i]]
    BY <2>9 DEF Flattens
  <2> DEFINE Q == {k \in Nat : k + 1 <= Len(rs) => c[k + 1] = f[k + 1]}
  <2>12. 0 \in Q
    BY <1>1, <1>5, <2>6, <2>11
  <2>13. ASSUME NEW k \in Q PROVE k + 1 \in Q
    <3>1. SUFFICES ASSUME (k + 1) + 1 <= Len(rs) PROVE c[(k + 1) + 1] = f[(k + 1) + 1]
      OBVIOUS
    <3>2. k \in Nat /\ k + 1 <= Len(rs) /\ (k + 1) + 1 \in 1..Len(ms) /\ ((k + 1) + 1) - 1 = k + 1
          /\ (k + 1) + 1 # 1 /\ k + 1 \in Nat
      BY <1>1, <3>1
    <3>3. c[k + 1] = f[k + 1]
      BY <3>2
    <3>4. c[(k + 1) + 1] = c[k + 1] \o ms[(k + 1) + 1]
      BY <2>11, <3>2
    <3>5. f[(k + 1) + 1] = f[k + 1] \o ms[(k + 1) + 1]
      BY <2>5, <3>1, <3>2
    <3>6. QED BY <3>3, <3>4, <3>5
  <2>14. \A k \in Nat : k \in Q
    <3>1. Q \in SUBSET Nat
      OBVIOUS
    <3> HIDE DEF Q
    <3>2. QED BY <2>12, <2>13, <3>1, Induct
  <2>15. c[Len(rs)] = f[Len(rs)]
    <3>1. Len(rs) - 1 \in Nat /\ (Len(rs) - 1) + 1 = Len(rs)
      BY <1>1, <1>5
    <3>2. QED BY <1>1, <2>14, <3>1
  <2>16. QED BY <1>1, <1>2, <1>3, <2>10, <2>15
<1>6. QED BY <1>4, <1>5

-----------------------------------------------------------------------------
(* The theorems *)

\* cancel and summary are flags.
Flags == cancel \in BOOLEAN /\ summary \in BOOLEAN

\* The flags are TRUE or FALSE.
LEMMA NextFlags ==
  ASSUME Flags, [Next]_vars
  PROVE  Flags'
<1> USE DEF Flags, memVars, loopVars
<1>1. CASE Clear
  BY <1>1 DEF Clear, Idle
<1>2. CASE Rebind
  BY <1>2 DEF Rebind, Idle
<1>3. CASE Sigint
  BY <1>3 DEF Sigint
<1>4. CASE Enter
  BY <1>4 DEF Enter
<1>5. CASE Inject
  BY <1>5 DEF Inject
<1>6. CASE LlmFails
  BY <1>6 DEF LlmFails
<1>7. CASE LlmAsks
  BY <1>7 DEF LlmAsks
<1>8. CASE LlmSumsUp
  BY <1>8 DEF LlmSumsUp
<1>9. CASE LlmAnswers
  BY <1>9 DEF LlmAnswers
<1>10. CASE Tool
  BY <1>10 DEF Tool
<1>11. CASE RecordTurn
  BY <1>11 DEF RecordTurn
<1>12. CASE Finalize
  BY <1>12 DEF Finalize
<1>13. CASE Restart
  BY <1>13 DEF Restart
<1>14. CASE ServeLate
  BY <1>14 DEF ServeLate
<1>15. CASE OthersWrite
  BY <1>15 DEF OthersWrite
<1>16. CASE UNCHANGED vars
  BY <1>16 DEF vars
<1>17. QED BY <1>1, <1>2, <1>3, <1>4, <1>5, <1>6, <1>7, <1>8, <1>9, <1>10, <1>11, <1>12,
              <1>13, <1>14, <1>15, <1>16 DEF Next, Step

\* The inductive invariant
IInv == PastInv /\ LoopInv /\ Flags

\* The parts of the invariant hold together, in every reachable state.
THEOREM Inductive == Spec => []IInv
<1>1. Init => IInv
  <2>1. Init => Flags
    BY DEF Init, Flags
  <2>2. QED BY <2>1, InitPast, InitLoop DEF IInv
<1>2. IInv /\ [Next]_vars => IInv'
  BY NextPast, NextLoop, NextFlags DEF IInv
<1>3. QED BY <1>1, <1>2, PTL DEF Spec

\* The types follow from it; that the buffer never overflows needs its size.
LEMMA TypeFromInv == IInv => TypeOK
<1> SUFFICES ASSUME IInv PROVE TypeOK
  OBVIOUS
<1>1. history \in Seq(Said) /\ Len(history) <= Capacity
  BY DEF IInv, PastInv, HistoryInv, Clean, Ring
<1>2. records \in Seq(Record) /\ unserved \subseteq Record
  BY DEF IInv, PastInv, RecordsInv
<1>3. clock \in 0..MaxTurns /\ pc \in {"idle", "inject", "llm", "tools", "record", "finalize"}
  BY DEF IInv, PastInv, ClockInv
<1>4. failed \subseteq 1..MaxTurns
  BY <1>3, BoundsType DEF IInv, PastInv, ClockInv
<1>5. buffer \in Seq(Message) /\ rounds \in 0..ToolRounds /\ todo \subseteq 1..MaxCalls
  BY DEF IInv, LoopInv
<1>6. Len(buffer) <= MaxMessages
  <2>1. Len(buffer) \in Nat /\ MaxCalls \in Nat
    BY <1>5, BoundsType
  <2>2. CASE pc = "tools"
    <3>1. RoundInv
      BY <2>2 DEF IInv, LoopInv
    <3>2. rounds < ToolRounds
      BY <3>1 DEF RoundInv
    <3>3. \E n \in 1..MaxCalls : \E k \in 1..n : Len(buffer) <= Size(rounds) + k
      BY <3>1 DEF RoundInv
    <3>4. PICK k \in 1..MaxCalls : Len(buffer) <= Size(rounds) + k
      BY <2>1, <3>3
    <3>5. QED BY <1>5, <2>1, <3>2, <3>4, RoundSize
  <2>3. CASE pc # "tools"
    <3>1. RequestInv
      BY <2>3 DEF IInv, LoopInv
    <3>2. Len(buffer) <= Size(rounds) + 1
      BY <3>1 DEF RequestInv
    <3>3. QED BY <1>5, <2>1, <3>2, RoundSize
  <2>4. QED BY <2>2, <2>3
<1>7. cancel \in BOOLEAN /\ summary \in BOOLEAN
  BY DEF IInv, Flags
<1>8. QED BY <1>1, <1>2, <1>3, <1>4, <1>5, <1>6, <1>7 DEF TypeOK

\* Every variable has its type: the ring never exceeds its capacity and a
\* request never the memory of cli_chat_msgbuf_t.
THEOREM TypeCorrect == Spec => []TypeOK
  BY Inductive, TypeFromInv, PTL

\* When the model is called, no call of the conversation is open.
LEMMA WellFormedFromInv == IInv => RequestIsWellFormed
<1> SUFFICES ASSUME IInv, pc = "llm" PROVE RequestIsWellFormed
  BY DEF RequestIsWellFormed
<1>1. buffer \in Seq(Message) /\ Conv(buffer) /\ Closed(buffer)
  BY DEF IInv, LoopInv, RequestInv
<1>2. \A i \in DOMAIN buffer : buffer[i].calls \in 0..MaxCalls /\ i \in Nat
  BY <1>1, MessageFacts
<1>3. ASSUME NEW i \in DOMAIN buffer, NEW k \in 1..buffer[i].calls, buffer[i].role = "assistant"
      PROVE  i + k <= Len(buffer) /\ buffer[i + k] = Answers(k)
  <2>1. k \in 1..MaxCalls /\ k <= buffer[i].calls /\ k \in Nat
    BY <1>2, BoundsType
  <2>2. i + k <= Len(buffer)
    BY <1>1, <1>2, <1>3, <2>1 DEF Closed, AllAnswered
  <2>3. QED BY <1>1, <1>3, <2>1, <2>2 DEF Conv
<1>4. ASSUME NEW i \in DOMAIN buffer, buffer[i].role = "tool"
      PROVE  i > buffer[i].calls /\ \E n \in buffer[i].calls..MaxCalls : buffer[i - buffer[i].calls] = Asks(n)
  BY <1>1, <1>4 DEF Conv
<1>5. QED BY <1>3, <1>4 DEF RequestIsWellFormed

\* Every request sent to llm.complete answers each tool call in order and at once,
\* however many rounds there were and wherever Ctrl+C came (chat_loop).
THEOREM RequestsAreWellFormed == Spec => []RequestIsWellFormed
  BY Inductive, WellFormedFromInv, PTL

\* The rounds counted are the messages that asked.
LEMMA BoundedFromInv == IInv => ToolRoundsBounded
<1> SUFFICES ASSUME IInv PROVE ToolRoundsBounded
  OBVIOUS
<1>1. buffer \in Seq(Message) /\ rounds \in 0..ToolRounds
  BY DEF IInv, LoopInv
<1>2. Cardinality(AskingIn(buffer)) \in Nat /\ rounds \in Nat /\ ToolRounds \in Nat /\ rounds <= ToolRounds
  BY <1>1, AskingFinite, BoundsType
<1>3. pc = "tools" => ~summary
  BY DEF IInv, LoopInv, RoundInv
<1>4. CASE pc = "tools"
  <2>1. rounds < ToolRounds /\ Cardinality(AskingIn(buffer)) <= rounds + 1
    BY <1>4 DEF IInv, LoopInv, RoundInv
  <2>2. Cardinality(AskingIn(buffer)) <= ToolRounds
    BY <1>2, <2>1
  <2>3. QED BY <1>3, <2>2 DEF ToolRoundsBounded, AskingIn
<1>5. CASE pc # "tools"
  <2>1. Cardinality(AskingIn(buffer)) <= rounds
    BY <1>5 DEF IInv, LoopInv, RequestInv
  <2>2. Cardinality(AskingIn(buffer)) <= ToolRounds
    BY <1>2, <2>1
  <2>3. QED BY <1>3, <2>2 DEF ToolRoundsBounded, AskingIn
<1>6. QED BY <1>4, <1>5

\* A turn has at most ToolRounds rounds of tools (CLI_CHAT_TOOL_MAX_ROUNDS).
THEOREM RoundsAreBounded == Spec => []ToolRoundsBounded
  BY Inductive, BoundedFromInv, PTL

\* A clean history shows nothing twice.
LEMMA OnceFromInv == IInv => NothingTwice
  BY DEF IInv, PastInv, HistoryInv, Clean, NothingTwice

\* No message is in the history twice, also after any number of rebuilds from
\* mem_d and late writes to it (cli_session_restore).
THEOREM HistoryShowsOnce == Spec => []NothingTwice
  BY Inductive, OnceFromInv, PTL

\* Neither the turns shown nor those recorded have failed.
LEMMA NoTraceFromInv == IInv => FailedLeavesNoTrace
<1> SUFFICES ASSUME IInv PROVE FailedLeavesNoTrace
  OBVIOUS
<1>1. \A i \in DOMAIN history : history[i].turn \notin failed
  BY DEF IInv, PastInv, HistoryInv, Clean, Shown
<1>2. /\ \A i \in DOMAIN records : records[i].turn \notin failed
      /\ \A r \in unserved : r.turn \notin failed
  BY DEF IInv, PastInv, RecordsInv, Recorded
<1>3. QED BY <1>1, <1>2 DEF FailedLeavesNoTrace, Range

\* A turn that failed or was canceled is in no history and no record, also when a
\* later process rebuilds the one from the other.
THEOREM FailuresLeaveNoTrace == Spec => []FailedLeavesNoTrace
  BY Inductive, NoTraceFromInv, PTL

\* The records a restore asks for fit into the ring.
LEMMA RebuiltFromInv ==
  ASSUME IInv, Rebind \/ Restart
  PROVE  history' \in {<<>>, Spoken(Recent(Capacity \div 2))}
<1>1. history' \in {<<>>, Replayed(<<>>, Recent(Want))}
  <2>1. CASE Rebind
    BY <2>1 DEF Rebind, Restored, Cleared
  <2>2. CASE Restart
    BY <2>2 DEF Restart
  <2>3. QED BY <2>1, <2>2
<1>2. records \in Seq(Record)
  BY DEF IInv, PastInv, RecordsInv
<1>3. Recent(Want) \in Seq(Record) /\ Len(Recent(Want)) <= Want
  BY <1>2, CapacityType, RecentOf
<1>4. 2 * Len(Recent(Want)) <= Capacity
  BY <1>3, CapacityType
<1>5. Replayed(<<>>, Recent(Want)) = Spoken(Recent(Want))
  BY <1>3, <1>4, ReplayIsWhole
<1>6. QED BY <1>1, <1>5 DEF Want

\* A rebuilt session is empty or all that the newest records say, in their order:
\* the ring evicts nothing while it is filled (cli_session_records_want).
THEOREM RebuildLosesNothing == Spec => RebuiltIsWhole
<1>1. IInv /\ [Next]_vars =>
        [Rebind \/ Restart => history' \in {<<>>, Spoken(Recent(Capacity \div 2))}]_vars
  BY RebuiltFromInv
<1>2. QED BY <1>1, Inductive, PTL DEF Spec, RebuiltIsWhole
=============================================================================
