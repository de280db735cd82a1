-------------------------- MODULE SpadSystem_proofs --------------------------
(***************************************************************************)
(* Theorems about the load controller, the store controller and the two on *)
(* one scratchpad (SpadSystem), for every number of instructions, rows,    *)
(* buffers, credits and banks.                                             *)
(*                                                                         *)
(* The first two sections are about what the controllers share, as facts   *)
(* about values: pools, which are sequences without repetition whose front *)
(* elements are taken and which get elements back at the end; and the rows *)
(* of the tiles, each not asked for yet, in a buffer, or answered and      *)
(* counted.  The load controller by itself follows, with Next and SafeSpec *)
(* its own.                                                                *)
(*                                                                         *)
(* Then the store controller, whose invariant has the parts of the load    *)
(* controller's: its pools share the buffers and credits with the requests *)
(* under way, and each buffer in use stands for a row of its own.  A       *)
(* buffer goes through two requests, with the credit of the first freed    *)
(* and reused during the second.  The next section shows that the composed *)
(* system takes only steps of its components, so that what was proved of   *)
(* each alone holds on one scratchpad.  Then the controllers keep what the *)
(* arbiter expects of its initiators, and the issuer's order keeps a tile  *)
(* in its place until it is read.                                          *)
(***************************************************************************)
EXTENDS SpadSystem, FunctionTheorems, FiniteSetTheorems, SequenceTheorems, TLAPS

(* No element occurs twice. *)
Distinct(s) == \A i, j \in 1 .. Len(s) : s[i] = s[j] => i = j

(* The first n elements, and the sequence after them *)
Front(s, n) == {s[k] : k \in 1 .. n}
Rest(s, n) == SubSeq(s, n + 1, Len(s))

(* The elements of a sequence, and how often one without repetition holds  *)
(* each.                                                                   *)
LEMMA RangeElements ==
  ASSUME NEW D, NEW s \in Seq(D)
  PROVE  /\ Len(s) \in Nat /\ DOMAIN s = 1 .. Len(s)
         /\ Range(s) = {s[k] : k \in 1 .. Len(s)}
         /\ Range(s) \subseteq D
         /\ \A k \in 1 .. Len(s) : s[k] \in D /\ s[k] \in Range(s)
         /\ \A x \in Range(s) : \E k \in 1 .. Len(s) : s[k] = x
<1>1. Len(s) \in Nat /\ DOMAIN s = 1 .. Len(s) /\ \A k \in 1 .. Len(s) : s[k] \in D
  BY LenProperties, ElementOfSeq
<1>2. QED
  BY <1>1 DEF Range

LEMMA CountInDistinct ==
  ASSUME NEW D, NEW s \in Seq(D), Distinct(s), NEW x
  PROVE  Cardinality({k \in DOMAIN s : s[k] = x}) = IF x \in Range(s) THEN 1 ELSE 0
<1>1. CASE x \in Range(s)
  <2>1. PICK k \in 1 .. Len(s) : s[k] = x
    BY <1>1, RangeElements
  <2>2. {j \in DOMAIN s : s[j] = x} = {k}
    BY <2>1, RangeElements DEF Distinct
  <2>3. QED
    BY <1>1, <2>2, FS_Singleton
<1>2. CASE x \notin Range(s)
  <2>1. {j \in DOMAIN s : s[j] = x} = {}
    BY <1>2 DEF Range
  <2>2. QED
    BY <1>2, <2>1, FS_EmptySet
<1>3. QED
  BY <1>1, <1>2

(* The pools at first: full, or empty *)
LEMMA FullPool ==
  ASSUME NEW n \in Nat
  PROVE  LET s == [k \in 1 .. n |-> k]
         IN  s \in Seq(1 .. n) /\ Distinct(s) /\ Range(s) = 1 .. n
<1> DEFINE s == [k \in 1 .. n |-> k]
<1>1. s \in Seq(1 .. n)
  BY SeqDef
<1>2. Len(s) = n
  BY <1>1, LenProperties
<1>3. Distinct(s) /\ Range(s) = 1 .. n
  BY <1>2 DEF Distinct, Range
<1>4. QED
  BY <1>1, <1>3

LEMMA EmptyPool ==
  ASSUME NEW D
  PROVE  << >> \in Seq(D) /\ Distinct(<< >>) /\ Range(<< >>) = {}
<1>1. << >> \in Seq(D) /\ Len(<< >>) = 0
  BY EmptySeq
<1>2. DOMAIN << >> = {}
  BY <1>1, LenProperties
<1>3. Range(<< >>) = {}
  BY <1>2 DEF Range
<1>4. QED
  BY <1>1, <1>3 DEF Distinct

(* Taking the front n elements of a pool *)
LEMMA TakeFront ==
  ASSUME NEW D, NEW s \in Seq(D), Distinct(s), NEW n \in Nat, n <= Len(s)
  PROVE  /\ Rest(s, n) \in Seq(D)
         /\ Distinct(Rest(s, n))
         /\ Front(s, n) \subseteq Range(s)
         /\ Range(Rest(s, n)) = Range(s) \ Front(s, n)
<1> DEFINE r == Rest(s, n)
<1>1. Len(s) \in Nat /\ \A k \in 1 .. Len(s) : s[k] \in D
  BY RangeElements
<1>2. /\ r \in Seq(D)
      /\ Len(r) = Len(s) - n
      /\ \A k \in 1 .. Len(s) - n : r[k] = s[n + k]
  <2>1. \A k \in n + 1 .. Len(s) : s[k] \in D
    BY <1>1
  <2>2. /\ r \in Seq(D)
        /\ Len(r) = IF n + 1 <= Len(s) THEN Len(s) - (n + 1) + 1 ELSE 0
        /\ \A k \in 1 .. Len(s) - (n + 1) + 1 : r[k] = s[n + 1 + k - 1]
    BY <1>1, <2>1, SubSeqProperties DEF Rest
  <2> HIDE DEF r
  <2>3. Len(r) = Len(s) - n
    BY <1>1, <2>2
  <2>4. \A k \in 1 .. Len(s) - n : k \in 1 .. Len(s) - (n + 1) + 1 /\ n + 1 + k - 1 = n + k
    BY <1>1
  <2>5. QED
    BY <2>2, <2>3, <2>4
<1> HIDE DEF r
<1>3. Distinct(r)
  <2> SUFFICES ASSUME NEW i \in 1 .. Len(r), NEW j \in 1 .. Len(r), r[i] = r[j]
               PROVE  i = j
    BY DEF Distinct
  <2>1. n + i \in 1 .. Len(s) /\ n + j \in 1 .. Len(s) /\ s[n + i] = s[n + j]
    BY <1>1, <1>2
  <2>2. n + i = n + j
    BY <2>1 DEF Distinct
  <2>3. QED
    BY <1>1, <1>2, <2>2
<1>4. Front(s, n) \subseteq Range(s)
  BY <1>1, RangeElements DEF Front
<1>5. ASSUME NEW x \in Range(r) PROVE x \in Range(s) \ Front(s, n)
  <2>1. PICK k \in 1 .. Len(r) : r[k] = x
    BY <1>2, RangeElements
  <2>2. n + k \in 1 .. Len(s) /\ s[n + k] = x
    BY <1>1, <1>2, <2>1
  <2>3. x \in Range(s)
    BY <2>2, RangeElements
  <2>4. \A j \in 1 .. n : j \in 1 .. Len(s) /\ j # n + k
    BY <1>1, <1>2
  <2>5. x \notin Front(s, n)
    BY <2>2, <2>4 DEF Front, Distinct
  <2>6. QED
    BY <2>3, <2>5
<1>6. ASSUME NEW x \in Range(s) \ Front(s, n) PROVE x \in Range(r)
  <2>1. PICK k \in 1 .. Len(s) : s[k] = x
    BY RangeElements
  <2>2. k \notin 1 .. n
    BY <2>1, <1>6 DEF Front
  <2>3. k - n \in 1 .. Len(r) /\ n + (k - n) = k
    BY <1>1, <1>2, <2>2
  <2>4. r[k - n] = x
    BY <1>2, <2>1, <2>3
  <2>5. QED
    BY <1>2, <2>3, <2>4, RangeElements
<1>7. QED
  BY <1>2, <1>3, <1>4, <1>5, <1>6 DEF r

(* The place of an element among the front ones *)
LEMMA PlaceInFront ==
  ASSUME NEW D, NEW s \in Seq(D), Distinct(s), NEW n \in Nat, n <= Len(s), NEW k \in 1 .. n
  PROVE  (CHOOSE j \in 1 .. n : s[j] = s[k]) = k
<1>1. Len(s) \in Nat
  BY RangeElements
<1>2. \A j \in 1 .. n : s[j] = s[k] => j = k
  BY <1>1 DEF Distinct
<1>3. QED
  BY <1>2

(* Giving an element back *)
LEMMA GiveBack ==
  ASSUME NEW D, NEW s \in Seq(D), Distinct(s), NEW x \in D, x \notin Range(s)
  PROVE  /\ Append(s, x) \in Seq(D)
         /\ Distinct(Append(s, x))
         /\ Range(Append(s, x)) = Range(s) \cup {x}
<1> DEFINE r == Append(s, x)
<1>1. /\ Len(s) \in Nat
      /\ r \in Seq(D)
      /\ Len(r) = Len(s) + 1
      /\ \A k \in 1 .. Len(s) : r[k] = s[k]
      /\ r[Len(s) + 1] = x
  BY AppendProperties, RangeElements
<1> HIDE DEF r
<1>2. \A k \in 1 .. Len(r) : k \in 1 .. Len(s) \/ k = Len(s) + 1
  BY <1>1
<1>3. \A k \in 1 .. Len(s) : s[k] # x
  BY RangeElements
<1>4. Distinct(r)
  BY <1>1, <1>2, <1>3 DEF Distinct
<1>5. Range(r) = {r[k] : k \in 1 .. Len(r)} /\ Range(s) = {s[k] : k \in 1 .. Len(s)}
  BY <1>1, RangeElements
<1>6. 1 .. Len(r) = 1 .. Len(s) \cup {Len(s) + 1}
  BY <1>1
<1>7. Range(r) = Range(s) \cup {x}
  BY <1>1, <1>5, <1>6
<1>8. QED
  BY <1>1, <1>4, <1>7 DEF r

(* Removing the oldest element *)
LEMMA TakeHead ==
  ASSUME NEW D, NEW s \in Seq(D), Distinct(s), s # << >>
  PROVE  /\ Head(s) \in D /\ Head(s) \in Range(s)
         /\ Tail(s) \in Seq(D)
         /\ Distinct(Tail(s))
         /\ Range(Tail(s)) = Range(s) \ {Head(s)}
<1>1. Len(s) \in Nat /\ 1 <= Len(s) /\ Head(s) = s[1] /\ Head(s) \in D
  BY RangeElements, HeadTailProperties, EmptySeq
<1>2. Tail(s) = Rest(s, 1)
  BY <1>1, TailIsSubSeq DEF Rest
<1>3. Front(s, 1) = {Head(s)}
  BY <1>1 DEF Front
<1>4. Head(s) \in Range(s)
  BY <1>1, RangeElements
<1>5. /\ Rest(s, 1) \in Seq(D) /\ Distinct(Rest(s, 1))
      /\ Range(Rest(s, 1)) = Range(s) \ Front(s, 1)
  <2>1. 1 \in Nat
    OBVIOUS
  <2>2. QED
    BY <2>1, <1>1, TakeFront
<1>6. QED
  BY <1>1, <1>2, <1>3, <1>4, <1>5
-----------------------------------------------------------------------------
(* The rows of tiles                                                       *)
LEMMA TileRowIs ==
  /\ \A t \in TileRows : t[1] \in Instrs /\ t[2] \in 0 .. Rows[t[1]] - 1 /\ t = <<t[1], t[2]>>
  /\ \A id \in Instrs : \A k \in 0 .. Rows[id] - 1 : <<id, k>> \in TileRows
  /\ \A id \in Instrs : Rows[id] \in Nat \ {0}
  /\ Instrs \subseteq Nat \ {0}
  BY InstrAssumption DEF TileRows, Instrs

(* Has the reading thread, whose next row is reader, asked for row t?      *)
WasRead(t, queue, issued, reader) ==
  /\ t[1] <= issued
  /\ t[1] \notin Range(queue)
  /\ reader # NULL => ~ (reader[1] = t[1] /\ reader[2] <= t[2])

(* The rows of id that it has not asked for, as RowsUnread                 *)
Unread(id, queue, reader) ==
  IF id \in Range(queue) THEN Rows[id]
  ELSE IF reader # NULL /\ reader[1] = id THEN Rows[id] - reader[2]
  ELSE 0

(* The buffers in use that hold a row of id, by their tags                 *)
OfInstr(id, used, tag) == {b \in used : tag[b][1] = id}

(* Every buffer in use stands for a row of its own that was asked for, and *)
(* rows_remaining counts them and the rows not asked for.                  *)
Accounted(queue, remaining, issued, reader, used, tag) ==
  /\ queue \in Seq(Instrs) /\ Distinct(queue)
  /\ issued \in 0 .. N_INSTRS
  /\ \A id \in Range(queue) : id <= issued
  /\ reader \in TileRows \cup {NULL}
  /\ reader # NULL => reader[1] <= issued /\ reader[1] \notin Range(queue)
  /\ IsFiniteSet(used)
  /\ \A b \in used : tag[b] \in TileRows /\ WasRead(tag[b], queue, issued, reader)
  /\ \A a, b \in used : tag[a] = tag[b] => a = b
  /\ remaining \in [Instrs -> Nat]
  /\ \A id \in Instrs :
       remaining[id] = Unread(id, queue, reader) + Cardinality(OfInstr(id, used, tag))

(* The destination holds the rows that were asked for, except those whose  *)
(* buffers are still pending.                                              *)
Copied(dest, queue, issued, reader, pending, tag) ==
  /\ dest \in [TileRows -> TileRows \cup {NULL}]
  /\ \A t \in TileRows :
       dest[t] = IF /\ WasRead(t, queue, issued, reader)
                    /\ \A b \in pending : tag[b] # t
                 THEN t ELSE NULL

(* A step that changes what was read of no row, nor the buffers *)
LEMMA SameRowsRead ==
  ASSUME NEW q1, NEW i1, NEW r1, NEW q2, NEW i2, NEW r2, NEW used, NEW tag, NEW dest,
         NEW pending,
         \A t \in TileRows : WasRead(t, q2, i2, r2) <=> WasRead(t, q1, i1, r1)
  PROVE  /\ (\A b \in used : tag[b] \in TileRows /\ WasRead(tag[b], q1, i1, r1)) =>
              (\A b \in used : tag[b] \in TileRows /\ WasRead(tag[b], q2, i2, r2))
         /\ Copied(dest, q1, i1, r1, pending, tag) => Copied(dest, q2, i2, r2, pending, tag)
  BY DEF Copied

LEMMA OfInstrFinite ==
  ASSUME NEW used, IsFiniteSet(used), NEW tag, NEW id
  PROVE  /\ IsFiniteSet(OfInstr(id, used, tag))
         /\ Cardinality(OfInstr(id, used, tag)) \in Nat
<1>1. OfInstr(id, used, tag) \in SUBSET used
  BY DEF OfInstr
<1>2. QED
  BY <1>1, FS_Subset, FS_CardinalityType

(* Before anything is issued there is nothing to count or copy.            *)
LEMMA NothingAccounted ==
  ASSUME NEW tag
  PROVE  /\ Accounted(<< >>, [id \in Instrs |-> 0], 0, NULL, {}, tag)
         /\ Copied([t \in TileRows |-> NULL], << >>, 0, NULL, {}, tag)
<1>1. << >> \in Seq(Instrs) /\ Distinct(<< >>) /\ Range(<< >>) = {}
  BY EmptyPool
<1>2. IsFiniteSet({}) /\ Cardinality({}) = 0
  BY FS_EmptySet
<1>3. \A id : OfInstr(id, {}, tag) = {} /\ Unread(id, << >>, NULL) = 0
  BY <1>1 DEF OfInstr, Unread
<1>4. 0 \in 0 .. N_INSTRS
  BY InstrAssumption
<1>5. Accounted(<< >>, [id \in Instrs |-> 0], 0, NULL, {}, tag)
  <2> DEFINE none == [id \in Instrs |-> 0]
  <2>1. none \in [Instrs -> Nat] /\ \A id \in Instrs : none[id] = 0
    OBVIOUS
  <2> HIDE DEF none
  <2>2. ASSUME NEW id \in Instrs
        PROVE  none[id] = Unread(id, << >>, NULL) + Cardinality(OfInstr(id, {}, tag))
    <3>1. Unread(id, << >>, NULL) = 0 /\ Cardinality(OfInstr(id, {}, tag)) = 0
      BY <1>2, <1>3, Zenon
    <3>2. QED
      BY <2>1, <3>1
  <2>3. Accounted(<< >>, none, 0, NULL, {}, tag)
    BY <1>1, <1>2, <1>4, <2>1, <2>2 DEF Accounted
  <2>4. QED
    BY <2>3 DEF none
<1>6. \A t \in TileRows : ~ WasRead(t, << >>, 0, NULL)
  BY TileRowIs DEF WasRead
<1>7. QED
  BY <1>5, <1>6 DEF Copied

(* An instruction is issued: none of its rows is read yet.                 *)
LEMMA IssueAccounted ==
  ASSUME NEW queue, NEW remaining, NEW issued, NEW reader, NEW used, NEW tag,
         NEW dest, NEW pending,
         Accounted(queue, remaining, issued, reader, used, tag), issued < N_INSTRS,
         Copied(dest, queue, issued, reader, pending, tag)
  PROVE  /\ issued + 1 \in Instrs
         /\ Accounted(Append(queue, issued + 1),
                      [remaining EXCEPT ![issued + 1] = Rows[issued + 1]],
                      issued + 1, reader, used, tag)
         /\ Copied(dest, Append(queue, issued + 1), issued + 1, reader, pending, tag)
<1> DEFINE new == issued + 1
           q == Append(queue, new)
           rem == [remaining EXCEPT ![new] = Rows[new]]
<1>1. /\ queue \in Seq(Instrs) /\ Distinct(queue)
      /\ issued \in 0 .. N_INSTRS
      /\ \A id \in Range(queue) : id <= issued
      /\ reader \in TileRows \cup {NULL}
      /\ reader # NULL => reader[1] <= issued /\ reader[1] \notin Range(queue)
      /\ \A b \in used : tag[b] \in TileRows /\ WasRead(tag[b], queue, issued, reader)
      /\ remaining \in [Instrs -> Nat]
  BY DEF Accounted
<1>2. /\ new \in Instrs /\ new \in Nat /\ issued \in Nat /\ new = issued + 1
      /\ ~ (new <= issued)
  BY <1>1, InstrAssumption DEF Instrs
<1> HIDE DEF new
<1>3. q \in Seq(Instrs) /\ Distinct(q) /\ Range(q) = Range(queue) \cup {new}
  BY <1>1, <1>2, GiveBack
<1> HIDE DEF q
<1>4. Range(queue) \subseteq Nat /\ \A t \in TileRows : t[1] \in Nat
  BY <1>1, RangeElements, TileRowIs
<1>5. \A t \in TileRows : WasRead(t, q, new, reader) <=> WasRead(t, queue, issued, reader)
  BY <1>1, <1>2, <1>3, <1>4 DEF WasRead
<1>6. Copied(dest, q, new, reader, pending, tag)
  BY <1>5, SameRowsRead
<1>7. \A b \in used : tag[b] \in TileRows /\ WasRead(tag[b], q, new, reader)
  BY <1>1, <1>5, SameRowsRead
<1>8. reader # NULL => reader[1] <= new /\ reader[1] \notin Range(q)
  BY <1>1, <1>2, <1>3, TileRowIs
<1>9. rem \in [Instrs -> Nat]
  BY <1>1, <1>2, TileRowIs
<1>10. ASSUME NEW id \in Instrs
       PROVE  rem[id] = Unread(id, q, reader) + Cardinality(OfInstr(id, used, tag))
  <2>1. CASE id = new
    <3>1. OfInstr(id, used, tag) = {}
      BY <1>1, <1>2, <2>1 DEF OfInstr, WasRead
    <3>2. Unread(id, q, reader) = Rows[id] /\ rem[id] = Rows[id]
      BY <1>1, <1>3, <2>1 DEF Unread
    <3>3. QED
      BY <3>1, <3>2, FS_EmptySet, TileRowIs
  <2>2. CASE id # new
    <3>1. Unread(id, q, reader) = Unread(id, queue, reader) /\ rem[id] = remaining[id]
      BY <1>1, <1>3, <2>2 DEF Unread
    <3>2. QED
      BY <3>1 DEF Accounted
  <2>3. QED
    BY <2>1, <2>2
<1>11. new \in 0 .. N_INSTRS /\ \A id \in Range(q) : id <= new
  BY <1>1, <1>2, <1>3, <1>4 DEF Instrs
<1>12. Accounted(q, rem, new, reader, used, tag)
  <2> HIDE DEF rem
  <2>1. QED
    BY <1>1, <1>3, <1>7, <1>8, <1>9, <1>10, <1>11 DEF Accounted
<1>13. QED
  BY <1>2, <1>6, <1>12 DEF q, new

(* The thread takes the oldest instruction and is at its first row.        *)
LEMMA DequeueAccounted ==
  ASSUME NEW queue, NEW remaining, NEW issued, NEW used, NEW tag, NEW dest, NEW pending,
         Accounted(queue, remaining, issued, NULL, used, tag), queue # << >>,
         Copied(dest, queue, issued, NULL, pending, tag)
  PROVE  /\ <<Head(queue), 0>> \in TileRows
         /\ Accounted(Tail(queue), remaining, issued, <<Head(queue), 0>>, used, tag)
         /\ Copied(dest, Tail(queue), issued, <<Head(queue), 0>>, pending, tag)
<1> DEFINE first == <<Head(queue), 0>>
           q == Tail(queue)
<1>1. /\ queue \in Seq(Instrs) /\ Distinct(queue)
      /\ \A id \in Range(queue) : id <= issued
      /\ \A b \in used : tag[b] \in TileRows /\ WasRead(tag[b], queue, issued, NULL)
  BY DEF Accounted
<1>2. /\ Head(queue) \in Instrs /\ Head(queue) \in Range(queue)
      /\ q \in Seq(Instrs) /\ Distinct(q) /\ Range(q) = Range(queue) \ {Head(queue)}
  BY <1>1, TakeHead
<1>3. first \in TileRows /\ first[1] = Head(queue) /\ first[2] = 0
  BY <1>2, TileRowIs
<1>4. first # NULL
  BY <1>3, NullAssumption
<1> HIDE DEF first, q
<1>5. \A t \in TileRows : WasRead(t, q, issued, first) <=> WasRead(t, queue, issued, NULL)
  BY <1>2, <1>3, <1>4, TileRowIs DEF WasRead
<1>6. Copied(dest, q, issued, first, pending, tag)
  BY <1>5, SameRowsRead
<1>7. \A b \in used : tag[b] \in TileRows /\ WasRead(tag[b], q, issued, first)
  BY <1>1, <1>5, SameRowsRead
<1>8. \A id \in Instrs : Unread(id, q, first) = Unread(id, queue, NULL)
  BY <1>2, <1>3, <1>4, TileRowIs DEF Unread
<1>9. Accounted(q, remaining, issued, first, used, tag)
  BY <1>1, <1>2, <1>3, <1>7, <1>8 DEF Accounted
<1>10. QED
  BY <1>3, <1>6, <1>9 DEF first, q

(* The front elements of a pool are as many as there are places.           *)
LEMMA FrontCardinality ==
  ASSUME NEW s, NEW n \in Nat, \A j, k \in 1 .. n : s[j] = s[k] => j = k
  PROVE  IsFiniteSet(Front(s, n)) /\ Cardinality(Front(s, n)) = n
<1> DEFINE f == [k \in 1 .. n |-> s[k]]
<1>1. f \in Bijection(1 .. n, Front(s, n))
  BY DEF Front, Bijection, Injection, Surjection, IsInjective
<1>2. ExistsBijection(1 .. n, Front(s, n))
  BY <1>1 DEF ExistsBijection
<1>3. IsFiniteSet(1 .. n) /\ Cardinality(1 .. n) = n
  <2>1. 1 \in Int /\ n \in Int /\ (IF 1 > n THEN 0 ELSE n - 1 + 1) = n
    OBVIOUS
  <2>2. QED
    BY <2>1, FS_Interval
<1>4. QED
  BY <1>2, <1>3, FS_Bijection

(* The thread, whose next row is first of id, asks for n rows with the     *)
(* front n buffers of a pool, and tags them; none of the pool is in use.   *)
Tagged(used, tag, id, first, n, pool, tag2) ==
  /\ n \in Nat /\ <<id, first>> \in TileRows /\ first + n <= Rows[id]
  /\ \A j, k \in 1 .. n : pool[j] = pool[k] => j = k
  /\ Front(pool, n) \cap used = {}
  /\ \A b \in used : tag2[b] = tag[b]
  /\ \A k \in 1 .. n : tag2[pool[k]] = <<id, first + k - 1>>

(* The row after k rows of id, which the thread goes on with               *)
RowAfter(id, k) == IF k < Rows[id] THEN <<id, k>> ELSE NULL

LEMMA ReadAccounted ==
  ASSUME NEW queue, NEW remaining, NEW issued, NEW used, NEW tag, NEW dest,
         NEW pending \in SUBSET used, NEW id, NEW first, NEW n, NEW bufs, NEW tag2,
         Accounted(queue, remaining, issued, <<id, first>>, used, tag),
         Copied(dest, queue, issued, <<id, first>>, pending, tag),
         Tagged(used, tag, id, first, n, bufs, tag2)
  PROVE  /\ Accounted(queue, remaining, issued, RowAfter(id, first + n),
                      used \cup Front(bufs, n), tag2)
         /\ Copied(dest, queue, issued, RowAfter(id, first + n),
                   pending \cup Front(bufs, n), tag2)
<1> DEFINE next == RowAfter(id, first + n)
<1>0. /\ n \in Nat /\ <<id, first>> \in TileRows /\ first + n <= Rows[id]
      /\ \A j, k \in 1 .. n : bufs[j] = bufs[k] => j = k
      /\ Front(bufs, n) \cap used = {}
      /\ \A b \in used : tag2[b] = tag[b]
      /\ \A k \in 1 .. n : tag2[bufs[k]] = <<id, first + k - 1>>
      /\ next = IF first + n < Rows[id] THEN <<id, first + n>> ELSE NULL
  BY DEF Tagged, RowAfter
<1> HIDE DEF next
<1> USE <1>0
<1> DEFINE reader == <<id, first>>
           taken == Front(bufs, n)
<1>1. /\ queue \in Seq(Instrs) /\ Distinct(queue)
      /\ issued \in 0 .. N_INSTRS
      /\ id <= issued /\ id \notin Range(queue)
      /\ IsFiniteSet(used)
      /\ \A b \in used : tag[b] \in TileRows /\ WasRead(tag[b], queue, issued, reader)
      /\ \A a, b \in used : tag[a] = tag[b] => a = b
      /\ remaining \in [Instrs -> Nat]
      /\ reader # NULL
  BY NullAssumption DEF Accounted
<1>2. /\ id \in Instrs /\ id \in Nat /\ first \in Nat /\ first < Rows[id] /\ Rows[id] \in Nat
      /\ reader[1] = id /\ reader[2] = first /\ reader \in TileRows
  <2>1. reader[1] = id /\ reader[2] = first
    OBVIOUS
  <2>2. id \in Instrs /\ first \in 0 .. Rows[id] - 1
    BY <2>1, TileRowIs
  <2>3. QED
    BY <2>1, <2>2, TileRowIs
<1>3. \/ first + n < Rows[id] /\ next = <<id, first + n>> /\ next \in TileRows /\ next # NULL
         /\ next[1] = id /\ next[2] = first + n
      \/ first + n = Rows[id] /\ next = NULL /\ next \notin TileRows
  <2>1. CASE first + n < Rows[id]
    <3>1. first + n \in 0 .. Rows[id] - 1
      BY <2>1, <1>2
    <3>2. <<id, first + n>> \in TileRows
      BY <3>1, <1>2, TileRowIs
    <3>3. QED
      BY <2>1, <3>2, NullAssumption
  <2>2. CASE first + n = Rows[id]
    BY <2>2, <1>2, NullAssumption
  <2>3. QED
    BY <1>2, <2>1, <2>2
<1>4. \A b \in taken : \E k \in 1 .. n : bufs[k] = b /\ tag2[b] = <<id, first + k - 1>>
  <2> SUFFICES ASSUME NEW b \in taken PROVE \E k \in 1 .. n : bufs[k] = b /\ tag2[b] = <<id, first + k - 1>>
    OBVIOUS
  <2>1. PICK k \in 1 .. n : bufs[k] = b
    BY Zenon DEF Front
  <2>2. tag2[bufs[k]] = <<id, first + k - 1>>
    BY <1>2, Zenon
  <2>3. QED
    BY <2>1, <2>2, Zenon
<1>5. /\ IsFiniteSet(taken) /\ Cardinality(taken) = n
      /\ \A k \in 1 .. n : bufs[k] \in taken
  <2>1. \A k \in 1 .. n : bufs[k] \in taken
    BY DEF Front
  <2> HIDE DEF taken
  <2>2. IsFiniteSet(taken) /\ Cardinality(taken) = n
    BY FrontCardinality DEF taken
  <2>3. QED
    BY <2>1, <2>2
<1> DEFINE Newly(t) == t[1] = id /\ first <= t[2] /\ t[2] < first + n
<1>6. \A b \in taken : tag2[b] \in TileRows /\ Newly(tag2[b])
  <2> SUFFICES ASSUME NEW b \in taken PROVE tag2[b] \in TileRows /\ Newly(tag2[b])
    OBVIOUS
  <2>1. PICK k \in 1 .. n : tag2[b] = <<id, first + k - 1>>
    BY <1>4
  <2>2. first + k - 1 \in 0 .. Rows[id] - 1 /\ first <= first + k - 1 /\ first + k - 1 < first + n
    BY <1>2
  <2>3. QED
    BY <1>2, <2>1, <2>2, TileRowIs
<1>7. \A t \in TileRows : Newly(t) => \E b \in taken : tag2[b] = t
  <2> SUFFICES ASSUME NEW t \in TileRows, Newly(t) PROVE \E b \in taken : tag2[b] = t
    OBVIOUS
  <2>1. t[2] \in Nat /\ t = <<t[1], t[2]>>
    BY <1>2, TileRowIs
  <2>2. t[2] - first + 1 \in 1 .. n /\ first + (t[2] - first + 1) - 1 = t[2]
    BY <1>2, <2>1
  <2>3. tag2[bufs[t[2] - first + 1]] = t
    BY <2>1, <2>2
  <2>4. QED
    BY <1>5, <2>2, <2>3
<1>8. \A a, b \in taken : tag2[a] = tag2[b] => a = b
  <2> SUFFICES ASSUME NEW a \in taken, NEW b \in taken, tag2[a] = tag2[b] PROVE a = b
    OBVIOUS
  <2>1. PICK j \in 1 .. n : bufs[j] = a /\ tag2[a] = <<id, first + j - 1>>
    BY <1>4
  <2>2. PICK k \in 1 .. n : bufs[k] = b /\ tag2[b] = <<id, first + k - 1>>
    BY <1>4
  <2>3. <<id, first + j - 1>> = <<id, first + k - 1>>
    BY <2>1, <2>2, Zenon
  <2>4. j = k
    BY <2>3, <1>2
  <2>5. QED
    BY <2>1, <2>2, <2>4
<1> HIDE DEF taken
<1>9. \A t \in TileRows :
        /\ WasRead(t, queue, issued, next) <=> WasRead(t, queue, issued, reader) \/ Newly(t)
        /\ Newly(t) => ~ WasRead(t, queue, issued, reader)
  <2> SUFFICES ASSUME NEW t \in TileRows
               PROVE  /\ WasRead(t, queue, issued, next)
                           <=> WasRead(t, queue, issued, reader) \/ Newly(t)
                      /\ Newly(t) => ~ WasRead(t, queue, issued, reader)
    OBVIOUS
  <2>1. t[1] \in Nat /\ t[2] \in Nat /\ t[2] <= Rows[t[1]] - 1
    BY TileRowIs
  <2>2. WasRead(t, queue, issued, reader)
          <=> t[1] <= issued /\ t[1] \notin Range(queue) /\ ~ (id = t[1] /\ first <= t[2])
    BY <1>1, <1>2 DEF WasRead
  <2>3. WasRead(t, queue, issued, next)
          <=> t[1] <= issued /\ t[1] \notin Range(queue) /\ ~ (id = t[1] /\ first + n <= t[2])
    <3>1. CASE next = NULL /\ first + n = Rows[id]
      <4>1. ~ (id = t[1] /\ first + n <= t[2])
        BY <3>1, <1>2, <2>1
      <4>2. QED
        BY <3>1, <4>1 DEF WasRead
    <3>2. CASE next # NULL /\ next[1] = id /\ next[2] = first + n
      BY <3>2 DEF WasRead
    <3>3. QED
      BY <1>3, <3>1, <3>2
  <2>4. QED
    BY <1>1, <1>2, <2>1, <2>2, <2>3
<1> HIDE DEF reader
<1>10. ASSUME NEW i \in Instrs
       PROVE  remaining[i] = Unread(i, queue, next)
                             + Cardinality(OfInstr(i, used \cup taken, tag2))
  <2>1. remaining[i] = Unread(i, queue, reader) + Cardinality(OfInstr(i, used, tag))
    BY DEF Accounted, reader
  <2>2. OfInstr(i, used, tag2) = OfInstr(i, used, tag)
    BY DEF OfInstr
  <2>3. CASE i # id
    <3>1. OfInstr(i, used \cup taken, tag2) = OfInstr(i, used, tag2)
      BY <1>6, <2>3 DEF OfInstr
    <3>2. Unread(i, queue, next) = Unread(i, queue, reader)
      BY <1>2, <1>3, <2>3 DEF Unread
    <3>3. QED
      BY <2>1, <2>2, <3>1, <3>2
  <2>4. CASE i = id
    <3>1. OfInstr(i, used \cup taken, tag2) = OfInstr(i, used, tag) \cup taken
      BY <1>6, <2>2, <2>4 DEF OfInstr
    <3>2. OfInstr(i, used, tag) \cap taken = {}
      BY DEF OfInstr, taken
    <3>3. /\ IsFiniteSet(OfInstr(i, used, tag))
          /\ Cardinality(OfInstr(i, used, tag)) \in Nat
      BY <1>1, OfInstrFinite
    <3>4. Cardinality(OfInstr(i, used \cup taken, tag2))
            = Cardinality(OfInstr(i, used, tag)) + n
      <4>1. Cardinality(OfInstr(i, used, tag) \cup taken)
              = Cardinality(OfInstr(i, used, tag)) + Cardinality(taken)
                - Cardinality(OfInstr(i, used, tag) \cap taken)
        BY <1>5, <3>3, FS_Union
      <4>2. Cardinality(OfInstr(i, used, tag) \cap taken) = 0
        BY <3>2, FS_EmptySet
      <4>3. Cardinality(OfInstr(i, used \cup taken, tag2))
              = Cardinality(OfInstr(i, used, tag) \cup taken)
        BY <3>1, Zenon
      <4>4. Cardinality(OfInstr(i, used, tag) \cup taken)
              = Cardinality(OfInstr(i, used, tag)) + n
        BY <1>5, <3>3, <4>1, <4>2
      <4>5. QED
        BY <4>3, <4>4, Zenon
    <3>5. Unread(i, queue, reader) = Rows[id] - first
      BY <1>1, <1>2, <2>4 DEF Unread
    <3>6. Unread(i, queue, next) = Rows[id] - (first + n)
      BY <1>1, <1>2, <1>3, <2>4 DEF Unread
    <3>7. QED
      BY <1>2, <2>1, <3>3, <3>4, <3>5, <3>6
  <2>5. QED
    BY <2>3, <2>4
<1>11. \A b \in used \cup taken : tag2[b] \in TileRows /\ WasRead(tag2[b], queue, issued, next)
  <2>1. ASSUME NEW b \in used PROVE tag2[b] \in TileRows /\ WasRead(tag2[b], queue, issued, next)
    BY <1>1, <1>9, <2>1
  <2>2. ASSUME NEW b \in taken PROVE tag2[b] \in TileRows /\ WasRead(tag2[b], queue, issued, next)
    BY <1>6, <1>9, <2>2
  <2>3. QED
    BY <2>1, <2>2
<1>12. \A a, b \in used \cup taken : tag2[a] = tag2[b] => a = b
  <2>1. ASSUME NEW a \in used, NEW b \in taken PROVE tag2[a] # tag2[b]
    <3>1. tag2[a] \in TileRows /\ WasRead(tag2[a], queue, issued, reader)
      BY <1>1, <2>1
    <3>2. tag2[b] \in TileRows /\ ~ WasRead(tag2[b], queue, issued, reader)
      BY <1>6, <1>9, <2>1
    <3>3. QED
      BY <3>1, <3>2
  <2>2. QED
    BY <1>1, <1>8, <2>1
<1>13. next \in TileRows \cup {NULL} /\ (next # NULL => next[1] <= issued /\ next[1] \notin Range(queue))
  BY <1>1, <1>3
<1>14. IsFiniteSet(used \cup taken)
  BY <1>1, <1>5, FS_Union
<1>15. \A i \in Range(queue) : i <= issued
  BY DEF Accounted
<1>16. Accounted(queue, remaining, issued, next, used \cup taken, tag2)
  BY <1>1, <1>10, <1>11, <1>12, <1>13, <1>14, <1>15 DEF Accounted
<1>17. ASSUME NEW t \in TileRows
       PROVE  dest[t] = IF /\ WasRead(t, queue, issued, next)
                           /\ \A b \in pending \cup taken : tag2[b] # t
                        THEN t ELSE NULL
  <2>1. dest[t] = IF /\ WasRead(t, queue, issued, reader)
                     /\ \A b \in pending : tag[b] # t
                  THEN t ELSE NULL
    BY DEF Copied, reader
  <2>2. \A b \in pending : tag2[b] = tag[b]
    OBVIOUS
  <2>3. CASE Newly(t)
    BY <1>7, <1>9, <2>1, <2>3
  <2>4. CASE ~ Newly(t)
    <3>1. \A b \in taken : tag2[b] # t
      BY <1>6, <2>4
    <3>2. WasRead(t, queue, issued, next) <=> WasRead(t, queue, issued, reader)
      BY <1>9, <2>4
    <3>3. QED
      BY <2>1, <2>2, <3>1, <3>2
  <2>5. QED
    BY <2>3, <2>4
<1>18. Copied(dest, queue, issued, next, pending \cup taken, tag2)
  <2>1. dest \in [TileRows -> TileRows \cup {NULL}]
    BY DEF Copied
  <2>2. QED
    BY <1>17, <2>1 DEF Copied
<1>19. QED
  BY <1>16, <1>18 DEF taken, next

(* A buffer whose row is in the destination is answered for.               *)
LEMMA AnswerAccounted ==
  ASSUME NEW queue, NEW remaining, NEW issued, NEW reader, NEW used, NEW tag, NEW b \in used,
         Accounted(queue, remaining, issued, reader, used, tag)
  PROVE  /\ tag[b][1] \in Instrs /\ tag[b][1] <= issued
         /\ remaining[tag[b][1]] \in Nat \ {0}
         /\ Accounted(queue, [remaining EXCEPT ![tag[b][1]] = @ - 1], issued, reader,
                      used \ {b}, tag)
<1> DEFINE id == tag[b][1]
           rem == [remaining EXCEPT ![tag[b][1]] = @ - 1]
<1>1. /\ tag[b] \in TileRows /\ id \in Instrs /\ id <= issued
      /\ remaining \in [Instrs -> Nat] /\ IsFiniteSet(used)
  BY TileRowIs DEF Accounted, WasRead
<1> HIDE DEF id
<1>2. ASSUME NEW i \in Instrs
      PROVE  /\ Cardinality(OfInstr(i, used, tag)) \in Nat
             /\ i # id => Cardinality(OfInstr(i, used \ {b}, tag))
                            = Cardinality(OfInstr(i, used, tag))
             /\ i = id => /\ Cardinality(OfInstr(i, used, tag)) # 0
                          /\ Cardinality(OfInstr(i, used \ {b}, tag))
                               = Cardinality(OfInstr(i, used, tag)) - 1
  <2>1. IsFiniteSet(OfInstr(i, used, tag)) /\ Cardinality(OfInstr(i, used, tag)) \in Nat
    BY <1>1, OfInstrFinite
  <2>2. CASE i # id
    <3>1. OfInstr(i, used \ {b}, tag) = OfInstr(i, used, tag)
      BY <2>2 DEF OfInstr, id
    <3>2. QED
      BY <2>1, <2>2, <3>1
  <2>3. CASE i = id
    <3>1. b \in OfInstr(i, used, tag) /\ OfInstr(i, used \ {b}, tag) = OfInstr(i, used, tag) \ {b}
      BY <2>3 DEF OfInstr, id
    <3>2. Cardinality(OfInstr(i, used, tag)) # 0
      BY <2>1, <3>1, FS_EmptySet
    <3>3. QED
      BY <2>1, <2>3, <3>1, <3>2, FS_RemoveElement
  <2>4. QED
    BY <2>2, <2>3
<1>3. \A i \in Instrs : Unread(i, queue, reader) \in Nat
  <2>1. Range(queue) \subseteq Instrs
    BY RangeElements DEF Accounted
  <2>2. reader # NULL => Rows[reader[1]] - reader[2] \in Nat
    BY TileRowIs DEF Accounted
  <2>3. QED
    BY <2>1, <2>2, TileRowIs DEF Unread
<1>4. \A i \in Instrs : remaining[i] = Unread(i, queue, reader) + Cardinality(OfInstr(i, used, tag))
  BY DEF Accounted
<1>5. remaining[id] \in Nat \ {0}
  BY <1>1, <1>2, <1>3, <1>4
<1>6. rem \in [Instrs -> Nat] /\ rem[id] = remaining[id] - 1
      /\ \A i \in Instrs : i # id => rem[i] = remaining[i]
  BY <1>1, <1>5 DEF id
<1> HIDE DEF rem
<1>7. \A i \in Instrs :
        rem[i] = Unread(i, queue, reader) + Cardinality(OfInstr(i, used \ {b}, tag))
  <2> SUFFICES ASSUME NEW i \in Instrs
               PROVE rem[i] = Unread(i, queue, reader) + Cardinality(OfInstr(i, used \ {b}, tag))
    OBVIOUS
  <2>1. CASE i = id
    <3>1. /\ Cardinality(OfInstr(i, used \ {b}, tag)) = Cardinality(OfInstr(i, used, tag)) - 1
          /\ Cardinality(OfInstr(i, used, tag)) \in Nat
          /\ Unread(i, queue, reader) \in Nat
      BY <1>2, <1>3, <2>1
    <3>2. rem[i] = Unread(i, queue, reader) + Cardinality(OfInstr(i, used, tag)) - 1
      <4>1. rem[i] = remaining[i] - 1
        BY <1>6, <2>1, Zenon
      <4>2. remaining[i] = Unread(i, queue, reader) + Cardinality(OfInstr(i, used, tag))
        BY <1>4, Zenon
      <4>3. QED
        BY <3>1, <4>1, <4>2
    <3>3. QED
      BY <3>1, <3>2
  <2>2. CASE i # id
    BY <1>2, <1>4, <1>6, <2>2
  <2>3. QED
    BY <2>1, <2>2
<1>8. IsFiniteSet(used \ {b})
  BY <1>1, FS_Subset
<1>9. Accounted(queue, rem, issued, reader, used \ {b}, tag)
  BY <1>6, <1>7, <1>8 DEF Accounted
<1>10. QED
  BY <1>1, <1>5, <1>9 DEF id, rem

(* The row of a pending buffer reaches the destination.                    *)
LEMMA CopyAccounted ==
  ASSUME NEW queue, NEW remaining, NEW issued, NEW reader, NEW used, NEW tag, NEW dest,
         NEW pending \in SUBSET used, NEW b \in pending,
         Accounted(queue, remaining, issued, reader, used, tag),
         Copied(dest, queue, issued, reader, pending, tag)
  PROVE  /\ tag[b] \in TileRows /\ tag[b][1] <= issued /\ dest[tag[b]] = NULL
         /\ Copied([dest EXCEPT ![tag[b]] = tag[b]], queue, issued, reader, pending \ {b}, tag)
<1>1. /\ tag[b] \in TileRows /\ tag[b][1] <= issued /\ WasRead(tag[b], queue, issued, reader)
      /\ \A a \in pending : tag[a] = tag[b] => a = b
  BY DEF Accounted, WasRead
<1>2. dest[tag[b]] = NULL /\ dest \in [TileRows -> TileRows \cup {NULL}]
  BY <1>1 DEF Copied
<1> DEFINE d == [dest EXCEPT ![tag[b]] = tag[b]]
<1>3. d \in [TileRows -> TileRows \cup {NULL}] /\ d[tag[b]] = tag[b]
      /\ \A t \in TileRows : t # tag[b] => d[t] = dest[t]
  BY <1>1, <1>2
<1> HIDE DEF d
<1>4. ASSUME NEW t \in TileRows
      PROVE  d[t] = IF /\ WasRead(t, queue, issued, reader)
                       /\ \A a \in pending \ {b} : tag[a] # t
                    THEN t ELSE NULL
  <2>1. CASE t = tag[b]
    BY <1>1, <1>3, <2>1
  <2>2. CASE t # tag[b]
    <3>1. dest[t] = IF WasRead(t, queue, issued, reader) /\ \A a \in pending : tag[a] # t
                    THEN t ELSE NULL
      BY DEF Copied
    <3>2. QED
      BY <1>3, <2>2, <3>1
  <2>3. QED
    BY <2>1, <2>2
<1>5. QED
  BY <1>1, <1>2, <1>3, <1>4 DEF Copied, d

(* When nothing of an issued instruction remains its tile is copied.       *)
LEMMA CompleteCopied ==
  ASSUME NEW queue, NEW remaining, NEW issued, NEW reader, NEW used, NEW tag, NEW dest,
         NEW pending \in SUBSET used, NEW id \in Instrs,
         Accounted(queue, remaining, issued, reader, used, tag),
         Copied(dest, queue, issued, reader, pending, tag),
         id <= issued, remaining[id] = 0
  PROVE  \A t \in TileRows : t[1] = id => dest[t] # NULL
<1>1. /\ IsFiniteSet(used)
      /\ remaining[id] = Unread(id, queue, reader) + Cardinality(OfInstr(id, used, tag))
      /\ reader \in TileRows \cup {NULL}
  BY DEF Accounted
<1>2. Rows[id] \in Nat \ {0} /\ (reader # NULL /\ reader[1] = id => Rows[id] - reader[2] \in Nat \ {0})
  BY <1>1, TileRowIs
<1>3. Unread(id, queue, reader) \in Nat
      /\ (Unread(id, queue, reader) = 0 =>
            id \notin Range(queue) /\ ~ (reader # NULL /\ reader[1] = id))
  BY <1>2 DEF Unread
<1>4. IsFiniteSet(OfInstr(id, used, tag)) /\ Cardinality(OfInstr(id, used, tag)) \in Nat
  BY <1>1, OfInstrFinite
<1>5. Unread(id, queue, reader) = 0 /\ Cardinality(OfInstr(id, used, tag)) = 0
  BY <1>1, <1>3, <1>4
<1>6. OfInstr(id, used, tag) = {}
  BY <1>4, <1>5, FS_EmptySet
<1>7. ASSUME NEW t \in TileRows, t[1] = id PROVE dest[t] # NULL
  <2>1. WasRead(t, queue, issued, reader)
    BY <1>3, <1>5, <1>7 DEF WasRead
  <2>2. \A b \in pending : tag[b] # t
    BY <1>6, <1>7 DEF OfInstr
  <2>3. dest[t] = t
    BY <2>1, <2>2, <1>7 DEF Copied
  <2>4. QED
    BY <2>3, <1>7, NullAssumption
<1>8. QED
  BY <1>7
-----------------------------------------------------------------------------
(* The load controller                                                     *)

(* The buffers that wait for the scratchpad's answer                       *)
BufsOf(credits) == {spad_tag[c].buf : c \in credits}

(* The buffers in use, and those of them whose row is not in the           *)
(* scratchpad yet                                                          *)
InUse   == Bufs \ Range(free_data_bufs)
Pending == InUse \ BufsOf(spad_served)

LoadTypes ==
  /\ Len(mvin_instr_queue) <= INSTR_QUEUE_SIZE
  /\ free_data_bufs \in Seq(Bufs) /\ Distinct(free_data_bufs)
  /\ ready_bufs \in Seq(Bufs) /\ Distinct(ready_bufs)
  /\ free_spad_credits \in Seq(Credits) /\ Distinct(free_spad_credits)
  /\ dram_tag \in [Bufs -> TileRows \cup {NULL}]
  /\ row_buffers \in [Bufs -> TileRows \cup {NULL}]
  /\ spad_tag \in [Credits -> [row : TileRows, buf : Bufs] \cup {NULL}]
  /\ <<buf_freed, buf_ready, credit_freed>> \in BOOLEAN \X BOOLEAN \X BOOLEAN

(* A buffer in use waits for DRAM, is ready, or waits for the scratchpad.  *)
BufsPartitioned ==
  /\ dram_requests \cup Range(ready_bufs) \cup BufsOf(SpadBusy) = InUse
  /\ dram_requests \cap Range(ready_bufs) = {}
  /\ dram_requests \cap BufsOf(SpadBusy) = {}
  /\ Range(ready_bufs) \cap BufsOf(SpadBusy) = {}

CreditsPartitioned ==
  /\ SpadBusy = Credits \ Range(free_spad_credits)
  /\ spad_requests \cap spad_served = {}

(* A request to the scratchpad is for a buffer of its own and writes the   *)
(* row that the buffer holds, the one DRAM was asked for.                  *)
TagsMatch ==
  /\ \A c \in SpadBusy : /\ spad_tag[c] \in [row : TileRows, buf : Bufs]
                         /\ spad_tag[c].row = dram_tag[spad_tag[c].buf]
  /\ \A c, d \in SpadBusy : spad_tag[c].buf = spad_tag[d].buf => c = d
  /\ \A b \in InUse : b \notin dram_requests => row_buffers[b] = dram_tag[b]

LoadAccounted ==
  /\ Accounted(mvin_instr_queue, rows_remaining, last_issued_id, mvin, InUse, dram_tag)
  /\ Copied(spad, mvin_instr_queue, last_issued_id, mvin, Pending, dram_tag)

LoadInv ==
  /\ LoadTypes
  /\ BufsPartitioned
  /\ CreditsPartitioned
  /\ TagsMatch
  /\ LoadAccounted

(* What the row loop of dram_read_thread does: it takes n buffers.         *)
TakesRows(id, first, n) ==
  /\ first + n <= Rows[id] /\ n <= Len(free_data_bufs)
  /\ free_data_bufs' = Rest(free_data_bufs, n)
  /\ dram_requests' = dram_requests \cup Front(free_data_bufs, n)
  /\ mvin' = RowAfter(id, first + n)
  /\ dram_tag' \in [Bufs -> TileRows \cup {NULL}]
  /\ \A b \in Bufs \ Front(free_data_bufs, n) : dram_tag'[b] = dram_tag[b]
  /\ \A k \in 1 .. n : dram_tag'[free_data_bufs[k]] = <<id, first + k - 1>>

LEMMA ReadRowsEffect ==
  ASSUME LoadTypes, NEW id, NEW first, <<id, first>> \in TileRows, ReadRows(id, first)
  PROVE  \E n \in Nat : TakesRows(id, first, n)
<1> DEFINE n == Least(Rows[id] - first, Len(free_data_bufs))
<1>1. /\ id \in Instrs /\ first \in Nat /\ Rows[id] \in Nat /\ Rows[id] - first \in Nat
      /\ \A k \in 0 .. Rows[id] - 1 : <<id, k>> \in TileRows
  <2>1. <<id, first>>[1] = id /\ <<id, first>>[2] = first
    OBVIOUS
  <2>2. id \in Instrs /\ first \in 0 .. Rows[id] - 1
    BY <2>1, TileRowIs
  <2>3. QED
    BY <2>2, TileRowIs
<1>2. /\ free_data_bufs \in Seq(Bufs) /\ Distinct(free_data_bufs)
      /\ dram_tag \in [Bufs -> TileRows \cup {NULL}]
      /\ Len(free_data_bufs) \in Nat
      /\ \A k \in 1 .. Len(free_data_bufs) : free_data_bufs[k] \in Bufs
  BY RangeElements DEF LoadTypes
<1>3. n \in Nat /\ n <= Rows[id] - first /\ n <= Len(free_data_bufs)
  BY <1>1, <1>2 DEF Least
<1>4. /\ dram_tag' =
           [b \in Bufs |->
              IF \E k \in 1 .. n : free_data_bufs[k] = b
              THEN <<id, first + (CHOOSE k \in 1 .. n : free_data_bufs[k] = b) - 1>>
              ELSE dram_tag[b]]
      /\ dram_requests' = dram_requests \cup Front(free_data_bufs, n)
      /\ free_data_bufs' = Rest(free_data_bufs, n)
      /\ mvin' = RowAfter(id, first + n)
  BY DEF ReadRows, Front, Rest, RowAfter
<1> HIDE DEF n
<1>5. ASSUME NEW k \in 1 .. n
      PROVE  /\ dram_tag'[free_data_bufs[k]] = <<id, first + k - 1>>
             /\ <<id, first + k - 1>> \in TileRows
  <2>1. free_data_bufs[k] \in Bufs
    BY <1>2, <1>3
  <2>2. (CHOOSE j \in 1 .. n : free_data_bufs[j] = free_data_bufs[k]) = k
    BY <1>2, <1>3, PlaceInFront
  <2>3. dram_tag'[free_data_bufs[k]] = <<id, first + k - 1>>
    BY <1>4, <2>1, <2>2
  <2>4. first + k - 1 \in 0 .. Rows[id] - 1
    BY <1>1, <1>3
  <2>5. QED
    BY <1>1, <2>3, <2>4
<1>6. \A b \in Bufs \ Front(free_data_bufs, n) : dram_tag'[b] = dram_tag[b]
  BY <1>4 DEF Front
<1>7. dram_tag' \in [Bufs -> TileRows \cup {NULL}]
  <2>1. ASSUME NEW b \in Bufs PROVE dram_tag'[b] \in TileRows \cup {NULL}
    <3>1. CASE b \in Front(free_data_bufs, n)
      <4>1. PICK k \in 1 .. n : free_data_bufs[k] = b
        BY <3>1 DEF Front
      <4>2. QED
        BY <1>5, <4>1
    <3>2. CASE b \notin Front(free_data_bufs, n)
      BY <1>2, <1>6, <3>2
    <3>3. QED
      BY <3>1, <3>2
  <2>2. QED
    BY <1>4, <2>1
<1>8. first + n <= Rows[id]
  BY <1>1, <1>3
<1>9. TakesRows(id, first, n)
  BY <1>3, <1>4, <1>5, <1>6, <1>7, <1>8 DEF TakesRows
<1>10. QED
  BY <1>3, <1>9

(* The row loop keeps the invariant, entered with the instructions of      *)
(* queue still to be taken.                                                *)
LEMMA ReadRowsKeeps ==
  ASSUME LoadTypes, BufsPartitioned, CreditsPartitioned, TagsMatch,
         NEW queue, NEW id, NEW first, <<id, first>> \in TileRows,
         Accounted(queue, rows_remaining, last_issued_id, <<id, first>>, InUse, dram_tag),
         Copied(spad, queue, last_issued_id, <<id, first>>, Pending, dram_tag),
         ReadRows(id, first),
         UNCHANGED <<rows_remaining, last_issued_id, free_spad_credits, ready_bufs,
                     row_buffers, spad_tag, buf_ready, credit_freed, spadVars>>,
         buf_freed' \in BOOLEAN, Len(mvin_instr_queue') <= INSTR_QUEUE_SIZE
  PROVE  /\ LoadTypes' /\ BufsPartitioned' /\ CreditsPartitioned' /\ TagsMatch'
         /\ Accounted(queue, rows_remaining, last_issued_id, mvin', InUse', dram_tag')
         /\ Copied(spad, queue, last_issued_id, mvin', Pending', dram_tag')
<1>1. PICK n \in Nat : TakesRows(id, first, n)
  BY ReadRowsEffect
<1> DEFINE F == Front(free_data_bufs, n)
<1>2. /\ free_data_bufs \in Seq(Bufs) /\ Distinct(free_data_bufs)
      /\ Range(free_data_bufs) \subseteq Bufs
  BY RangeElements DEF LoadTypes
<1>3. /\ free_data_bufs' \in Seq(Bufs) /\ Distinct(free_data_bufs')
      /\ F \subseteq Range(free_data_bufs)
      /\ Range(free_data_bufs') = Range(free_data_bufs) \ F
  BY <1>1, <1>2, TakeFront DEF TakesRows
<1>4. /\ dram_requests' = dram_requests \cup F
      /\ \A b \in Bufs \ F : dram_tag'[b] = dram_tag[b]
  BY <1>1 DEF TakesRows
<1>5. F \cap InUse = {} /\ F \subseteq Bufs /\ InUse' = InUse \cup F
  BY <1>2, <1>3 DEF InUse
<1> HIDE DEF F
<1>6. SpadBusy' = SpadBusy /\ BufsOf(SpadBusy)' = BufsOf(SpadBusy)
      /\ BufsOf(spad_served)' = BufsOf(spad_served) /\ Range(ready_bufs') = Range(ready_bufs)
  BY DEF SpadBusy, BufsOf, spadVars
<1>7. LoadTypes'
  BY <1>1, <1>3 DEF LoadTypes, TakesRows
<1>8. BufsPartitioned'
  BY <1>4, <1>5, <1>6 DEF BufsPartitioned
<1>9. CreditsPartitioned'
  BY <1>6 DEF CreditsPartitioned, spadVars
<1>10. \A c \in SpadBusy : spad_tag[c].buf \in InUse
  BY DEF BufsPartitioned, BufsOf
<1>11. InUse \subseteq Bufs
  BY DEF InUse
<1>12. TagsMatch'
  <2>1. ASSUME NEW c \in SpadBusy
        PROVE  /\ spad_tag[c] \in [row : TileRows, buf : Bufs]
               /\ spad_tag[c].row = dram_tag'[spad_tag[c].buf]
    <3>1. spad_tag[c].buf \in Bufs \ F
      BY <1>5, <1>10, <1>11
    <3>2. QED
      BY <3>1, <1>4 DEF TagsMatch
  <2>2. \A b \in InUse' : b \notin dram_requests' => row_buffers[b] = dram_tag'[b]
    BY <1>4, <1>5, <1>11 DEF TagsMatch
  <2>3. row_buffers' = row_buffers /\ spad_tag' = spad_tag
    OBVIOUS
  <2>4. QED
    BY <1>6, <2>1, <2>2, <2>3 DEF TagsMatch
<1>13. BufsOf(spad_served) \subseteq InUse
  BY <1>10 DEF BufsOf, SpadBusy
<1>14. Pending \subseteq InUse /\ Pending' = Pending \cup F
  BY <1>5, <1>6, <1>13 DEF Pending
<1>15. \A b \in InUse : dram_tag'[b] = dram_tag[b]
  BY <1>4, <1>5, <1>11
<1>16. /\ Accounted(queue, rows_remaining, last_issued_id, mvin', InUse \cup F, dram_tag')
       /\ Copied(spad, queue, last_issued_id, mvin', Pending \cup F, dram_tag')
  <2>1. Tagged(InUse, dram_tag, id, first, n, free_data_bufs, dram_tag')
    <3>1. \A j, k \in 1 .. n : free_data_bufs[j] = free_data_bufs[k] => j = k
      BY <1>1, <1>2, RangeElements DEF TakesRows, Distinct
    <3>2. QED
      BY <1>1, <1>5, <1>15, <3>1 DEF Tagged, TakesRows, F
  <2>2. mvin' = RowAfter(id, first + n)
    BY <1>1 DEF TakesRows
  <2>3. QED
    BY <1>14, <2>1, <2>2, ReadAccounted DEF F
<1>17. QED
  BY <1>5, <1>7, <1>8, <1>9, <1>12, <1>14, <1>16

LEMMA LoadInitially == Init => LoadInv
<1> SUFFICES ASSUME Init PROVE LoadInv
  OBVIOUS
<1>1. /\ free_data_bufs \in Seq(Bufs) /\ Distinct(free_data_bufs)
      /\ Range(free_data_bufs) = Bufs
  BY SizeAssumption, FullPool DEF Init, Bufs
<1>2. /\ free_spad_credits \in Seq(Credits) /\ Distinct(free_spad_credits)
      /\ Range(free_spad_credits) = Credits
  BY SizeAssumption, FullPool DEF Init, Credits
<1>3. /\ ready_bufs \in Seq(Bufs) /\ Distinct(ready_bufs) /\ Range(ready_bufs) = {}
      /\ Len(mvin_instr_queue) = 0
  BY EmptyPool, EmptySeq DEF Init
<1>4. InUse = {} /\ Pending = {} /\ SpadBusy = {} /\ BufsOf(SpadBusy) = {}
  BY <1>1 DEF InUse, Pending, SpadBusy, BufsOf, Init
<1>5. LoadTypes
  <2>1. Len(mvin_instr_queue) <= INSTR_QUEUE_SIZE
    BY <1>3, SizeAssumption
  <2>2. /\ dram_tag \in [Bufs -> TileRows \cup {NULL}]
        /\ row_buffers \in [Bufs -> TileRows \cup {NULL}]
        /\ spad_tag \in [Credits -> [row : TileRows, buf : Bufs] \cup {NULL}]
        /\ <<buf_freed, buf_ready, credit_freed>> \in BOOLEAN \X BOOLEAN \X BOOLEAN
    BY DEF Init
  <2>3. QED
    BY <1>1, <1>2, <1>3, <2>1, <2>2 DEF LoadTypes
<1>6. BufsPartitioned
  BY <1>3, <1>4 DEF BufsPartitioned, Init
<1>7. CreditsPartitioned
  BY <1>2, <1>4 DEF CreditsPartitioned, Init
<1>8. TagsMatch
  BY <1>4 DEF TagsMatch
<1>9. LoadAccounted
  BY <1>4, NothingAccounted DEF LoadAccounted, Init
<1>10. QED
  BY <1>5, <1>6, <1>7, <1>8, <1>9 DEF LoadInv

(* A step that leaves the pools, requests and tags alone *)
LEMMA SamePools ==
  ASSUME LoadTypes, BufsPartitioned, CreditsPartitioned, TagsMatch,
         UNCHANGED <<poolVars, dram_tag, row_buffers, spad_tag, eventVars,
                     dram_requests, spad_requests, spad_served>>,
         Len(mvin_instr_queue') <= INSTR_QUEUE_SIZE
  PROVE  /\ LoadTypes' /\ BufsPartitioned' /\ CreditsPartitioned' /\ TagsMatch'
         /\ InUse' = InUse /\ Pending' = Pending
<1>1. /\ InUse' = InUse /\ Pending' = Pending /\ SpadBusy' = SpadBusy
      /\ BufsOf(SpadBusy)' = BufsOf(SpadBusy)
  BY DEF poolVars, InUse, Pending, SpadBusy, BufsOf
<1>2. LoadTypes'
  BY DEF LoadTypes, poolVars, eventVars
<1>3. BufsPartitioned' /\ CreditsPartitioned'
  BY <1>1 DEF BufsPartitioned, CreditsPartitioned, poolVars
<1>4. TagsMatch'
  BY <1>1 DEF TagsMatch
<1>5. QED
  BY <1>1, <1>2, <1>3, <1>4

LEMMA IssueKeepsLoadInv ==
  ASSUME LoadInv, Issue
  PROVE  LoadInv'
<1>1. Len(mvin_instr_queue') <= INSTR_QUEUE_SIZE
  <2>1. mvin_instr_queue \in Seq(Instrs)
    BY DEF LoadInv, LoadAccounted, Accounted
  <2>2. /\ Len(mvin_instr_queue) \in Nat
        /\ Len(Append(mvin_instr_queue, last_issued_id + 1)) = Len(mvin_instr_queue) + 1
    BY <2>1, AppendProperties, LenProperties
  <2>3. QED
    BY <2>2, SizeAssumption DEF Issue, has_room
<1>2. /\ LoadTypes' /\ BufsPartitioned' /\ CreditsPartitioned' /\ TagsMatch'
      /\ InUse' = InUse /\ Pending' = Pending
  BY <1>1, SamePools DEF LoadInv, Issue, spadVars
<1>3. /\ Accounted(mvin_instr_queue', rows_remaining', last_issued_id', mvin, InUse, dram_tag)
      /\ Copied(spad, mvin_instr_queue', last_issued_id', mvin, Pending, dram_tag)
  <2>1. /\ Accounted(mvin_instr_queue, rows_remaining, last_issued_id, mvin, InUse, dram_tag)
        /\ Copied(spad, mvin_instr_queue, last_issued_id, mvin, Pending, dram_tag)
        /\ last_issued_id < N_INSTRS
    BY DEF LoadInv, LoadAccounted, Issue
  <2>2. /\ mvin_instr_queue' = Append(mvin_instr_queue, last_issued_id + 1)
        /\ rows_remaining' = [rows_remaining EXCEPT ![last_issued_id + 1] = Rows[last_issued_id + 1]]
        /\ last_issued_id' = last_issued_id + 1
    BY DEF Issue
  <2>3. QED
    BY <2>1, <2>2, IssueAccounted
<1>4. mvin' = mvin /\ dram_tag' = dram_tag /\ spad' = spad
  BY DEF Issue, spadVars
<1>5. LoadAccounted'
  BY <1>2, <1>3, <1>4 DEF LoadAccounted
<1>6. QED
  BY <1>2, <1>5 DEF LoadInv

LEMMA DequeueKeepsLoadInv ==
  ASSUME LoadInv, Dequeue
  PROVE  LoadInv'
<1> DEFINE id == Head(mvin_instr_queue)
<1>1. /\ Accounted(mvin_instr_queue, rows_remaining, last_issued_id, NULL, InUse, dram_tag)
      /\ Copied(spad, mvin_instr_queue, last_issued_id, NULL, Pending, dram_tag)
      /\ mvin_instr_queue # << >> /\ mvin_instr_queue' = Tail(mvin_instr_queue)
  BY DEF LoadInv, LoadAccounted, Dequeue
<1>2. /\ <<id, 0>> \in TileRows
      /\ Accounted(mvin_instr_queue', rows_remaining, last_issued_id, <<id, 0>>, InUse, dram_tag)
      /\ Copied(spad, mvin_instr_queue', last_issued_id, <<id, 0>>, Pending, dram_tag)
  BY <1>1, DequeueAccounted
<1>3. Len(mvin_instr_queue') <= INSTR_QUEUE_SIZE
  <2>1. mvin_instr_queue \in Seq(Instrs)
    BY DEF LoadInv, LoadAccounted, Accounted
  <2>2. /\ Len(mvin_instr_queue) \in Nat
        /\ Len(Tail(mvin_instr_queue)) = Len(mvin_instr_queue) - 1
    BY <1>1, <2>1, HeadTailProperties, LenProperties
  <2>3. QED
    BY <1>1, <2>2, SizeAssumption DEF LoadInv, LoadTypes
<1>4. /\ ReadRows(id, 0)
      /\ UNCHANGED <<rows_remaining, last_issued_id, free_spad_credits, ready_bufs,
                     row_buffers, spad_tag, buf_ready, credit_freed, spadVars>>
      /\ buf_freed' \in BOOLEAN
  BY DEF Dequeue, eventVars, LoadInv, LoadTypes
<1> HIDE DEF id
<1>5. /\ LoadTypes' /\ BufsPartitioned' /\ CreditsPartitioned' /\ TagsMatch'
      /\ Accounted(mvin_instr_queue', rows_remaining, last_issued_id, mvin', InUse', dram_tag')
      /\ Copied(spad, mvin_instr_queue', last_issued_id, mvin', Pending', dram_tag')
  BY <1>2, <1>3, <1>4, ReadRowsKeeps DEF LoadInv
<1>6. LoadAccounted'
  BY <1>4, <1>5 DEF LoadAccounted, spadVars
<1>7. QED
  BY <1>5, <1>6 DEF LoadInv

LEMMA BufFreedKeepsLoadInv ==
  ASSUME LoadInv, BufFreed
  PROVE  LoadInv'
<1>1. CASE mvin # NULL
  <2>1. mvin \in TileRows /\ mvin = <<mvin[1], mvin[2]>>
    BY <1>1, TileRowIs DEF LoadInv, LoadAccounted, Accounted
  <2>2. /\ <<mvin[1], mvin[2]>> \in TileRows
        /\ Accounted(mvin_instr_queue, rows_remaining, last_issued_id, <<mvin[1], mvin[2]>>,
                     InUse, dram_tag)
        /\ Copied(spad, mvin_instr_queue, last_issued_id, <<mvin[1], mvin[2]>>, Pending, dram_tag)
    BY <2>1, Zenon DEF LoadInv, LoadAccounted
  <2>3. /\ ReadRows(mvin[1], mvin[2])
        /\ UNCHANGED <<rows_remaining, last_issued_id, free_spad_credits, ready_bufs,
                       row_buffers, spad_tag, buf_ready, credit_freed, spadVars>>
        /\ buf_freed' \in BOOLEAN /\ mvin_instr_queue' = mvin_instr_queue
        /\ Len(mvin_instr_queue') <= INSTR_QUEUE_SIZE
    BY <1>1 DEF BufFreed, LoadInv, LoadTypes
  <2>4. /\ LoadTypes' /\ BufsPartitioned' /\ CreditsPartitioned' /\ TagsMatch'
        /\ Accounted(mvin_instr_queue, rows_remaining, last_issued_id, mvin', InUse', dram_tag')
        /\ Copied(spad, mvin_instr_queue, last_issued_id, mvin', Pending', dram_tag')
    BY <2>2, <2>3, ReadRowsKeeps DEF LoadInv
  <2>5. LoadAccounted'
    BY <2>3, <2>4 DEF LoadAccounted, spadVars
  <2>6. QED
    BY <2>4, <2>5 DEF LoadInv
<1>2. CASE mvin = NULL
  <2>1. /\ UNCHANGED <<mvin_instr_queue, rows_remaining, last_issued_id, mvin, poolVars,
                       dram_tag, row_buffers, spad_tag, dram_requests, spadVars,
                       buf_ready, credit_freed>>
        /\ buf_freed' = FALSE
    BY <1>2 DEF BufFreed, poolVars
  <2>2. /\ InUse' = InUse /\ Pending' = Pending /\ SpadBusy' = SpadBusy
        /\ BufsOf(SpadBusy)' = BufsOf(SpadBusy)
    BY <2>1 DEF poolVars, spadVars, InUse, Pending, SpadBusy, BufsOf
  <2>3. LoadTypes'
    BY <2>1 DEF LoadInv, LoadTypes, poolVars
  <2>4. BufsPartitioned' /\ CreditsPartitioned'
    BY <2>1, <2>2 DEF LoadInv, BufsPartitioned, CreditsPartitioned, poolVars, spadVars
  <2>5. TagsMatch'
    BY <2>1, <2>2 DEF LoadInv, TagsMatch
  <2>6. LoadAccounted'
    BY <2>1, <2>2 DEF LoadInv, LoadAccounted, spadVars
  <2>7. QED
    BY <2>3, <2>4, <2>5, <2>6 DEF LoadInv
<1>3. QED
  BY <1>1, <1>2

LEMMA DramResponseKeepsLoadInv ==
  ASSUME LoadInv, NEW b \in Bufs, DramResponse(b)
  PROVE  LoadInv'
<1>1. /\ b \in dram_requests /\ dram_requests' = dram_requests \ {b}
      /\ row_buffers' = [row_buffers EXCEPT ![b] = dram_tag[b]]
      /\ ready_bufs' = Append(ready_bufs, b) /\ buf_ready' = TRUE
      /\ UNCHANGED <<mvin_instr_queue, rows_remaining, last_issued_id, mvin,
                     free_data_bufs, free_spad_credits, dram_tag, spad_tag,
                     buf_freed, credit_freed, spadVars>>
  BY DEF DramResponse
<1>2. b \notin Range(ready_bufs) /\ b \notin BufsOf(SpadBusy)
  BY <1>1 DEF LoadInv, BufsPartitioned
<1>3. /\ ready_bufs' \in Seq(Bufs) /\ Distinct(ready_bufs')
      /\ Range(ready_bufs') = Range(ready_bufs) \cup {b}
  BY <1>1, <1>2, GiveBack DEF LoadInv, LoadTypes
<1>4. /\ InUse' = InUse /\ Pending' = Pending /\ SpadBusy' = SpadBusy
      /\ BufsOf(SpadBusy)' = BufsOf(SpadBusy)
  BY <1>1 DEF spadVars, InUse, Pending, SpadBusy, BufsOf
<1>5. /\ row_buffers' \in [Bufs -> TileRows \cup {NULL}]
      /\ row_buffers'[b] = dram_tag[b]
      /\ \A a \in Bufs : a # b => row_buffers'[a] = row_buffers[a]
  BY <1>1 DEF LoadInv, LoadTypes
<1>6. LoadTypes'
  BY <1>1, <1>3, <1>5 DEF LoadInv, LoadTypes
<1>7. BufsPartitioned'
  BY <1>1, <1>2, <1>3, <1>4 DEF LoadInv, BufsPartitioned
<1>8. CreditsPartitioned'
  BY <1>1, <1>4 DEF LoadInv, CreditsPartitioned, spadVars
<1>9. TagsMatch'
  <2>1. \A a \in InUse : a \notin dram_requests' => row_buffers'[a] = dram_tag[a]
    BY <1>1, <1>5 DEF LoadInv, TagsMatch, InUse
  <2>2. QED
    BY <1>1, <1>4, <2>1 DEF LoadInv, TagsMatch
<1>10. LoadAccounted'
  BY <1>1, <1>4 DEF LoadInv, LoadAccounted, spadVars
<1>11. QED
  BY <1>6, <1>7, <1>8, <1>9, <1>10 DEF LoadInv

(* The tag asks the scratchpad to write the row in buffer b.               *)
Writes(tag, b) ==
  tag \in [row : TileRows, buf : Bufs] /\ tag.row = dram_tag[b] /\ tag.buf = b

(* What the row loop of spad_write_thread does: it takes n ready buffers   *)
(* and as many credits.                                                    *)
WritesRows(n) ==
  /\ n <= Len(ready_bufs) /\ n <= Len(free_spad_credits)
  /\ ready_bufs' = Rest(ready_bufs, n)
  /\ free_spad_credits' = Rest(free_spad_credits, n)
  /\ spad_requests' = spad_requests \cup Front(free_spad_credits, n)
  /\ spad_tag' \in [Credits -> [row : TileRows, buf : Bufs] \cup {NULL}]
  /\ \A c \in Credits \ Front(free_spad_credits, n) : spad_tag'[c] = spad_tag[c]
  /\ \A k \in 1 .. n : Writes(spad_tag'[free_spad_credits[k]], ready_bufs[k])

LEMMA WriteRowsEffect ==
  ASSUME LoadInv, WriteRows
  PROVE  \E n \in Nat : WritesRows(n)
<1> DEFINE n == Least(Len(ready_bufs), Len(free_spad_credits))
           write(b) == [row |-> dram_tag[b], buf |-> b]
<1>1. /\ ready_bufs \in Seq(Bufs) /\ Distinct(ready_bufs)
      /\ free_spad_credits \in Seq(Credits) /\ Distinct(free_spad_credits)
      /\ spad_tag \in [Credits -> [row : TileRows, buf : Bufs] \cup {NULL}]
  BY DEF LoadInv, LoadTypes
<1>2. /\ Len(ready_bufs) \in Nat /\ Len(free_spad_credits) \in Nat
      /\ \A k \in 1 .. Len(ready_bufs) : ready_bufs[k] \in Range(ready_bufs) /\ ready_bufs[k] \in Bufs
      /\ \A k \in 1 .. Len(free_spad_credits) : free_spad_credits[k] \in Credits
  BY <1>1, RangeElements
<1>3. n \in Nat /\ n <= Len(ready_bufs) /\ n <= Len(free_spad_credits)
  BY <1>2 DEF Least
<1>4. /\ spad_tag' =
           [c \in Credits |->
              IF \E k \in 1 .. n : free_spad_credits[k] = c
              THEN write(ready_bufs[CHOOSE k \in 1 .. n : free_spad_credits[k] = c])
              ELSE spad_tag[c]]
      /\ spad_requests' = spad_requests \cup Front(free_spad_credits, n)
      /\ ready_bufs' = Rest(ready_bufs, n)
      /\ free_spad_credits' = Rest(free_spad_credits, n)
  BY DEF WriteRows, Front, Rest
<1> HIDE DEF n
<1>5. \A b \in Range(ready_bufs) : dram_tag[b] \in TileRows
  BY DEF LoadInv, BufsPartitioned, LoadAccounted, Accounted
<1>6. ASSUME NEW k \in 1 .. n
      PROVE  /\ spad_tag'[free_spad_credits[k]] = write(ready_bufs[k])
             /\ write(ready_bufs[k]) \in [row : TileRows, buf : Bufs]
             /\ Writes(write(ready_bufs[k]), ready_bufs[k])
  <2>1. free_spad_credits[k] \in Credits /\ ready_bufs[k] \in Range(ready_bufs)
        /\ ready_bufs[k] \in Bufs
    BY <1>2, <1>3
  <2>2. (CHOOSE j \in 1 .. n : free_spad_credits[j] = free_spad_credits[k]) = k
    BY <1>1, <1>3, PlaceInFront
  <2> HIDE DEF write
  <2>3. spad_tag'[free_spad_credits[k]] = write(ready_bufs[k])
    BY <1>4, <2>1, <2>2
  <2>4. QED
    BY <1>5, <2>1, <2>3 DEF write, Writes
<1>7. \A c \in Credits \ Front(free_spad_credits, n) : spad_tag'[c] = spad_tag[c]
  BY <1>4 DEF Front
<1>8. spad_tag' \in [Credits -> [row : TileRows, buf : Bufs] \cup {NULL}]
  <2>1. ASSUME NEW c \in Credits PROVE spad_tag'[c] \in [row : TileRows, buf : Bufs] \cup {NULL}
    <3>1. CASE c \in Front(free_spad_credits, n)
      <4>1. PICK k \in 1 .. n : free_spad_credits[k] = c
        BY <3>1 DEF Front
      <4>2. QED
        BY <1>6, <4>1
    <3>2. CASE c \notin Front(free_spad_credits, n)
      BY <1>1, <1>7, <3>2
    <3>3. QED
      BY <3>1, <3>2
  <2>2. QED
    BY <1>4, <2>1
<1>9. WritesRows(n)
  <2>1. \A k \in 1 .. n : Writes(spad_tag'[free_spad_credits[k]], ready_bufs[k])
    <3> HIDE DEF write
    <3> QED
      BY <1>6
  <2>2. /\ spad_requests' = spad_requests \cup Front(free_spad_credits, n)
        /\ ready_bufs' = Rest(ready_bufs, n)
        /\ free_spad_credits' = Rest(free_spad_credits, n)
    BY <1>4
  <2>3. QED
    BY <1>3, <1>7, <1>8, <2>1, <2>2 DEF WritesRows
<1>10. QED
  BY <1>3, <1>9

LEMMA SpadWriteThreadKeepsLoadInv ==
  ASSUME LoadInv, SpadWriteThread
  PROVE  LoadInv'
<1>1. PICK n \in Nat : WritesRows(n)
  BY WriteRowsEffect DEF SpadWriteThread
<1> DEFINE B == Front(ready_bufs, n)
           C == Front(free_spad_credits, n)
<1>2. /\ UNCHANGED <<mvin_instr_queue, rows_remaining, last_issued_id, mvin, free_data_bufs,
                     dram_tag, row_buffers, buf_freed, dram_requests, spad_served, spad>>
      /\ buf_ready' = FALSE /\ credit_freed' = FALSE
  BY DEF SpadWriteThread
<1>3. /\ ready_bufs \in Seq(Bufs) /\ Distinct(ready_bufs)
      /\ free_spad_credits \in Seq(Credits) /\ Distinct(free_spad_credits)
      /\ Range(free_spad_credits) \subseteq Credits
  BY RangeElements DEF LoadInv, LoadTypes
<1>4. /\ ready_bufs' \in Seq(Bufs) /\ Distinct(ready_bufs')
      /\ B \subseteq Range(ready_bufs) /\ Range(ready_bufs') = Range(ready_bufs) \ B
  BY <1>1, <1>3, TakeFront DEF WritesRows
<1>5. /\ free_spad_credits' \in Seq(Credits) /\ Distinct(free_spad_credits')
      /\ C \subseteq Range(free_spad_credits)
      /\ Range(free_spad_credits') = Range(free_spad_credits) \ C
  BY <1>1, <1>3, TakeFront DEF WritesRows
<1>6. /\ C \cap SpadBusy = {} /\ C \subseteq Credits /\ SpadBusy \subseteq Credits
      /\ spad_requests' = spad_requests \cup C /\ SpadBusy' = SpadBusy \cup C
  BY <1>1, <1>2, <1>3, <1>5 DEF LoadInv, CreditsPartitioned, SpadBusy, WritesRows
<1>7. \A c \in C : \E k \in 1 .. n : /\ c = free_spad_credits[k] /\ ready_bufs[k] \in B
                                    /\ Writes(spad_tag'[c], ready_bufs[k])
  BY <1>1 DEF WritesRows, Front
<1>8. \A b \in B : \E c \in C : spad_tag'[c].buf = b
  <2> SUFFICES ASSUME NEW b \in B PROVE \E c \in C : spad_tag'[c].buf = b
    OBVIOUS
  <2>1. PICK k \in 1 .. n : b = ready_bufs[k]
    BY DEF Front
  <2>2. free_spad_credits[k] \in C /\ spad_tag'[free_spad_credits[k]].buf = b
    BY <1>1, <2>1 DEF WritesRows, Front, Writes
  <2>3. QED
    BY <2>2
<1>9. \A c \in SpadBusy : spad_tag'[c] = spad_tag[c]
  BY <1>1, <1>6 DEF WritesRows
<1>10. \A c, d \in C : spad_tag'[c].buf = spad_tag'[d].buf => c = d
  <2> SUFFICES ASSUME NEW c \in C, NEW d \in C, spad_tag'[c].buf = spad_tag'[d].buf
               PROVE  c = d
    OBVIOUS
  <2>1. PICK j \in 1 .. n : c = free_spad_credits[j] /\ spad_tag'[c].buf = ready_bufs[j]
    BY <1>7 DEF Writes
  <2>2. PICK k \in 1 .. n : d = free_spad_credits[k] /\ spad_tag'[d].buf = ready_bufs[k]
    BY <1>7 DEF Writes
  <2>3. j \in 1 .. Len(ready_bufs) /\ k \in 1 .. Len(ready_bufs)
    BY <1>1, <1>3, RangeElements DEF WritesRows
  <2>4. j = k
    BY <1>3, <2>1, <2>2, <2>3 DEF Distinct
  <2>5. QED
    BY <2>1, <2>2, <2>4
<1> HIDE DEF B, C
<1>11. /\ BufsOf(SpadBusy)' = BufsOf(SpadBusy) \cup B
       /\ BufsOf(spad_served)' = BufsOf(spad_served)
  <2>1. \A c \in C : spad_tag'[c].buf \in B
    BY <1>7 DEF Writes
  <2>2. QED
    BY <1>2, <1>6, <1>8, <1>9, <2>1 DEF BufsOf, SpadBusy
<1>12. InUse' = InUse /\ Pending' = Pending
  BY <1>2, <1>11 DEF InUse, Pending
<1>13. LoadTypes'
  BY <1>1, <1>2, <1>4, <1>5 DEF LoadInv, LoadTypes, WritesRows
<1>14. BufsPartitioned'
  BY <1>2, <1>4, <1>11, <1>12 DEF LoadInv, BufsPartitioned
<1>15. CreditsPartitioned'
  BY <1>2, <1>5, <1>6 DEF LoadInv, CreditsPartitioned, SpadBusy
<1>16. TagsMatch'
  <2>1. ASSUME NEW c \in SpadBusy'
        PROVE  /\ spad_tag'[c] \in [row : TileRows, buf : Bufs]
               /\ spad_tag'[c].row = dram_tag[spad_tag'[c].buf]
    <3>1. CASE c \in SpadBusy
      BY <3>1, <1>9 DEF LoadInv, TagsMatch
    <3>2. CASE c \in C
      BY <3>2, <1>7 DEF Writes
    <3>3. QED
      BY <1>6, <3>1, <3>2
  <2>2. ASSUME NEW c \in SpadBusy', NEW d \in SpadBusy', spad_tag'[c].buf = spad_tag'[d].buf
        PROVE  c = d
    <3>1. \A e \in SpadBusy : spad_tag'[e].buf \in BufsOf(SpadBusy)
      BY <1>9 DEF BufsOf
    <3>2. \A e \in C : spad_tag'[e].buf \in Range(ready_bufs)
      BY <1>4, <1>7 DEF Writes
    <3>3. BufsOf(SpadBusy) \cap Range(ready_bufs) = {}
      BY DEF LoadInv, BufsPartitioned
    <3>4. \A e, f \in SpadBusy : spad_tag'[e].buf = spad_tag'[f].buf => e = f
      BY <1>9 DEF LoadInv, TagsMatch
    <3>5. QED
      BY <1>6, <1>10, <2>2, <3>1, <3>2, <3>3, <3>4
  <2>3. QED
    BY <1>2, <1>12, <2>1, <2>2 DEF LoadInv, TagsMatch
<1>17. LoadAccounted'
  BY <1>2, <1>12 DEF LoadInv, LoadAccounted
<1>18. QED
  BY <1>13, <1>14, <1>15, <1>16, <1>17 DEF LoadInv

(* A request the scratchpad has is for a buffer of its own, in use, with   *)
(* its row.                                                                *)
LEMMA BusyBuffer ==
  ASSUME LoadInv, NEW c \in SpadBusy, NEW b, b = spad_tag[c].buf
  PROVE  /\ b \in InUse /\ b \in Bufs /\ b \in BufsOf(SpadBusy)
         /\ b \notin Range(free_data_bufs) /\ b \notin Range(ready_bufs) /\ b \notin dram_requests
         /\ spad_tag[c].row = dram_tag[b] /\ row_buffers[b] = dram_tag[b]
         /\ dram_tag[b] \in TileRows
         /\ c \in Credits /\ c \notin Range(free_spad_credits)
         /\ BufsOf(SpadBusy \ {c}) = BufsOf(SpadBusy) \ {b}
         /\ c \notin spad_served => b \notin BufsOf(spad_served)
         /\ c \in spad_served => BufsOf(spad_served \ {c}) = BufsOf(spad_served) \ {b}
<1>1. /\ b \in BufsOf(SpadBusy)
      /\ \A d \in SpadBusy : spad_tag[d].buf = b => d = c
      /\ spad_served \subseteq SpadBusy
  BY DEF LoadInv, TagsMatch, BufsOf, SpadBusy
<1>2. b \in InUse /\ b \notin Range(ready_bufs) /\ b \notin dram_requests
  BY <1>1 DEF LoadInv, BufsPartitioned
<1>3. b \in Bufs /\ b \notin Range(free_data_bufs)
  BY <1>2 DEF InUse
<1>4. dram_tag[b] \in TileRows
  BY <1>2 DEF LoadInv, LoadAccounted, Accounted
<1>5. spad_tag[c].row = dram_tag[b] /\ row_buffers[b] = dram_tag[b]
  BY <1>2 DEF LoadInv, TagsMatch
<1>6. c \in Credits /\ c \notin Range(free_spad_credits)
  BY DEF LoadInv, CreditsPartitioned
<1>7. /\ BufsOf(SpadBusy \ {c}) = BufsOf(SpadBusy) \ {b}
      /\ c \notin spad_served => b \notin BufsOf(spad_served)
      /\ c \in spad_served => BufsOf(spad_served \ {c}) = BufsOf(spad_served) \ {b}
  BY <1>1 DEF BufsOf
<1>8. QED
  BY <1>1, <1>2, <1>3, <1>4, <1>5, <1>6, <1>7

LEMMA SpadAccessKeepsLoadInv ==
  ASSUME LoadInv, NEW c \in Credits, SpadAccess(c)
  PROVE  LoadInv'
<1> DEFINE b == spad_tag[c].buf
<1>1. /\ c \in spad_requests /\ spad_requests' = spad_requests \ {c}
      /\ spad_served' = spad_served \cup {c}
      /\ spad' = [spad EXCEPT ![spad_tag[c].row] = row_buffers[b]]
      /\ UNCHANGED <<mvin_instr_queue, rows_remaining, last_issued_id, mvin, poolVars,
                     dram_tag, row_buffers, spad_tag, eventVars, dram_requests>>
  BY DEF SpadAccess
<1>2. c \in SpadBusy /\ c \notin spad_served
  BY <1>1 DEF LoadInv, CreditsPartitioned, SpadBusy
<1> HIDE DEF b
<1>3. /\ b \in InUse /\ b \notin BufsOf(spad_served)
      /\ spad_tag[c].row = dram_tag[b] /\ row_buffers[b] = dram_tag[b]
  BY <1>2, BusyBuffer DEF b
<1>4. /\ SpadBusy' = SpadBusy /\ InUse' = InUse /\ BufsOf(SpadBusy)' = BufsOf(SpadBusy)
      /\ BufsOf(spad_served)' = BufsOf(spad_served) \cup {b}
  BY <1>1 DEF SpadBusy, InUse, poolVars, BufsOf, b
<1>5. Pending \subseteq InUse /\ b \in Pending /\ Pending' = Pending \ {b}
  BY <1>3, <1>4 DEF Pending
<1>6. LoadTypes'
  BY <1>1 DEF LoadInv, LoadTypes, poolVars, eventVars
<1>7. BufsPartitioned'
  BY <1>1, <1>4 DEF LoadInv, BufsPartitioned, poolVars
<1>8. CreditsPartitioned'
  BY <1>1, <1>4 DEF LoadInv, CreditsPartitioned, poolVars
<1>9. TagsMatch'
  BY <1>1, <1>4 DEF LoadInv, TagsMatch
<1>10. spad' = [spad EXCEPT ![dram_tag[b]] = dram_tag[b]]
  BY <1>1, <1>3
<1>11. Copied(spad', mvin_instr_queue, last_issued_id, mvin, Pending', dram_tag)
  BY <1>5, <1>10, CopyAccounted DEF LoadInv, LoadAccounted
<1>12. LoadAccounted'
  BY <1>1, <1>4, <1>11 DEF LoadInv, LoadAccounted
<1>13. QED
  BY <1>6, <1>7, <1>8, <1>9, <1>12 DEF LoadInv

LEMMA SpadResponseKeepsLoadInv ==
  ASSUME LoadInv, NEW c \in Credits, SpadResponse(c)
  PROVE  LoadInv'
<1> DEFINE b == spad_tag[c].buf
<1>1. /\ c \in spad_served /\ spad_served' = spad_served \ {c}
      /\ free_data_bufs' = Append(free_data_bufs, b)
      /\ free_spad_credits' = Append(free_spad_credits, c)
      /\ buf_freed' = TRUE /\ credit_freed' = TRUE
      /\ rows_remaining' = [rows_remaining EXCEPT ![spad_tag[c].row[1]] = @ - 1]
      /\ UNCHANGED <<mvin_instr_queue, last_issued_id, mvin, ready_bufs, dram_tag,
                     row_buffers, spad_tag, buf_ready, dram_requests,
                     spad_requests, spad>>
  BY DEF SpadResponse
<1>2. c \in SpadBusy /\ c \notin spad_requests
  BY <1>1 DEF LoadInv, CreditsPartitioned, SpadBusy
<1> HIDE DEF b
<1>3. /\ b \in InUse /\ b \in Bufs /\ b \in BufsOf(SpadBusy) /\ b \notin Range(free_data_bufs)
      /\ b \notin Range(ready_bufs) /\ b \notin dram_requests
      /\ spad_tag[c].row = dram_tag[b] /\ dram_tag[b] \in TileRows
      /\ c \notin Range(free_spad_credits)
      /\ BufsOf(SpadBusy \ {c}) = BufsOf(SpadBusy) \ {b}
      /\ BufsOf(spad_served \ {c}) = BufsOf(spad_served) \ {b}
  BY <1>1, <1>2, BusyBuffer DEF b
<1>4. /\ free_data_bufs' \in Seq(Bufs) /\ Distinct(free_data_bufs')
      /\ Range(free_data_bufs') = Range(free_data_bufs) \cup {b}
  BY <1>1, <1>3, GiveBack DEF LoadInv, LoadTypes
<1>5. /\ free_spad_credits' \in Seq(Credits) /\ Distinct(free_spad_credits')
      /\ Range(free_spad_credits') = Range(free_spad_credits) \cup {c}
  BY <1>1, <1>3, GiveBack DEF LoadInv, LoadTypes
<1>6. /\ SpadBusy' = SpadBusy \ {c}
      /\ BufsOf(SpadBusy)' = BufsOf(SpadBusy) \ {b}
      /\ BufsOf(spad_served)' = BufsOf(spad_served) \ {b}
  <2>1. SpadBusy' = SpadBusy \ {c}
    BY <1>1, <1>2 DEF SpadBusy
  <2>2. BufsOf(SpadBusy)' = BufsOf(SpadBusy \ {c})
    BY <1>1, <2>1 DEF BufsOf
  <2>3. BufsOf(spad_served)' = BufsOf(spad_served \ {c})
    BY <1>1 DEF BufsOf
  <2>4. QED
    BY <1>3, <2>1, <2>2, <2>3
<1>7. InUse' = InUse \ {b}
  BY <1>4 DEF InUse
<1>8. b \in BufsOf(spad_served)
  BY <1>1 DEF BufsOf, b
<1>9. Pending' = Pending
  BY <1>6, <1>7, <1>8 DEF Pending
<1>10. LoadTypes'
  BY <1>1, <1>4, <1>5 DEF LoadInv, LoadTypes
<1>11. BufsPartitioned'
  BY <1>1, <1>3, <1>6, <1>7 DEF LoadInv, BufsPartitioned
<1>12. CreditsPartitioned'
  <2>1. spad_requests' \cap spad_served' = {}
    BY <1>1 DEF LoadInv, CreditsPartitioned
  <2>2. QED
    BY <1>5, <1>6, <2>1 DEF LoadInv, CreditsPartitioned
<1>13. TagsMatch'
  BY <1>1, <1>6, <1>7 DEF LoadInv, TagsMatch
<1>14. Accounted(mvin_instr_queue, rows_remaining', last_issued_id, mvin, InUse', dram_tag)
  <2>1. rows_remaining' = [rows_remaining EXCEPT ![dram_tag[b][1]] = @ - 1]
    BY <1>1, <1>3
  <2>2. QED
    BY <1>3, <1>7, <2>1, AnswerAccounted DEF LoadInv, LoadAccounted
<1>15. LoadAccounted'
  BY <1>1, <1>9, <1>14 DEF LoadInv, LoadAccounted
<1>16. QED
  BY <1>10, <1>11, <1>12, <1>13, <1>15 DEF LoadInv

(* Every step keeps the invariant.                                         *)
LEMMA LoadStep == LoadInv /\ [Next]_vars => LoadInv'
<1> SUFFICES ASSUME LoadInv, [Next]_vars PROVE LoadInv'
  OBVIOUS
<1>1. CASE UNCHANGED vars
  <2>1. /\ InUse' = InUse /\ Pending' = Pending /\ SpadBusy' = SpadBusy
        /\ BufsOf(SpadBusy)' = BufsOf(SpadBusy)
    BY <1>1 DEF vars, poolVars, spadVars, InUse, Pending, SpadBusy, BufsOf
  <2>2. LoadTypes'
    BY <1>1 DEF LoadInv, LoadTypes, vars, poolVars, eventVars
  <2>3. BufsPartitioned' /\ CreditsPartitioned'
    BY <1>1, <2>1 DEF LoadInv, BufsPartitioned, CreditsPartitioned, vars, poolVars, spadVars
  <2>4. TagsMatch'
    BY <1>1, <2>1 DEF LoadInv, TagsMatch, vars
  <2>5. LoadAccounted'
    BY <1>1, <2>1 DEF LoadInv, LoadAccounted, vars, spadVars
  <2>6. QED
    BY <2>2, <2>3, <2>4, <2>5 DEF LoadInv
<1>2. CASE Issue
  BY <1>2, IssueKeepsLoadInv
<1>3. CASE Dequeue
  BY <1>3, DequeueKeepsLoadInv
<1>4. CASE BufFreed
  BY <1>4, BufFreedKeepsLoadInv
<1>5. CASE SpadWriteThread
  BY <1>5, SpadWriteThreadKeepsLoadInv
<1>6. ASSUME NEW b \in Bufs, DramResponse(b) PROVE LoadInv'
  BY <1>6, DramResponseKeepsLoadInv
<1>7. ASSUME NEW c \in Credits, SpadAccess(c) PROVE LoadInv'
  BY <1>7, SpadAccessKeepsLoadInv
<1>8. ASSUME NEW c \in Credits, SpadResponse(c) PROVE LoadInv'
  BY <1>8, SpadResponseKeepsLoadInv
<1>9. QED
  BY <1>1, <1>2, <1>3, <1>4, <1>5, <1>6, <1>7, <1>8 DEF Next

THEOREM LoadInvariant == SafeSpec => []LoadInv
<1>1. Init => LoadInv
  BY LoadInitially
<1>2. LoadInv /\ [Next]_vars => LoadInv'
  BY LoadStep
<1>3. QED
  BY <1>1, <1>2, PTL DEF SafeSpec
-----------------------------------------------------------------------------
(* What the invariant says of pools and rows                               *)

(* The variables hold values of their C++ types.                           *)
THEOREM LoadTypeCorrect == SafeSpec => []TypeOK
<1>1. LoadInv => TypeOK
  <2> SUFFICES ASSUME LoadInv PROVE TypeOK
    OBVIOUS
  <2>1. /\ mvin_instr_queue \in Seq(Instrs)
        /\ rows_remaining \in [Instrs -> Nat]
        /\ last_issued_id \in 0 .. N_INSTRS
        /\ mvin \in TileRows \cup {NULL}
        /\ spad \in [TileRows -> TileRows \cup {NULL}]
    BY DEF LoadInv, LoadAccounted, Accounted, Copied
  <2>2. dram_requests \subseteq Bufs /\ spad_requests \subseteq Credits /\ spad_served \subseteq Credits
    BY DEF LoadInv, BufsPartitioned, CreditsPartitioned, SpadBusy, InUse
  <2>3. QED
    BY <2>1, <2>2 DEF LoadInv, LoadTypes, TypeOK
<1>2. QED
  BY <1>1, LoadInvariant, PTL

(* How many requests to the scratchpad a buffer serves                     *)
LEMMA CountBusy ==
  ASSUME LoadInv, NEW b
  PROVE  Cardinality({c \in SpadBusy : spad_tag[c].buf = b})
           = IF b \in BufsOf(SpadBusy) THEN 1 ELSE 0
<1>1. CASE b \in BufsOf(SpadBusy)
  <2>1. PICK c \in SpadBusy : spad_tag[c].buf = b
    BY <1>1 DEF BufsOf
  <2>2. {d \in SpadBusy : spad_tag[d].buf = b} = {c}
    BY <2>1 DEF LoadInv, TagsMatch
  <2>3. QED
    BY <1>1, <2>2, FS_Singleton
<1>2. CASE b \notin BufsOf(SpadBusy)
  <2>1. {d \in SpadBusy : spad_tag[d].buf = b} = {}
    BY <1>2 DEF BufsOf
  <2>2. QED
    BY <1>2, <2>1, FS_EmptySet
<1>3. QED
  BY <1>1, <1>2

(* No buffer and no credit is lost or handed out twice by the threads and  *)
(* callbacks of the load controller, whatever the sizes of its pools.      *)
THEOREM LoadPoolsConserved == SafeSpec => []PoolsConserved
<1>1. LoadInv => PoolsConserved
  <2> SUFFICES ASSUME LoadInv PROVE PoolsConserved
    OBVIOUS
  <2>1. ASSUME NEW b \in Bufs
        PROVE  Cardinality({k \in DOMAIN free_data_bufs : free_data_bufs[k] = b})
               + Cardinality({k \in DOMAIN ready_bufs : ready_bufs[k] = b})
               + (IF b \in dram_requests THEN 1 ELSE 0)
               + Cardinality({c \in SpadBusy : spad_tag[c].buf = b}) = 1
    <3>1. Cardinality({k \in DOMAIN free_data_bufs : free_data_bufs[k] = b})
            = IF b \in Range(free_data_bufs) THEN 1 ELSE 0
      BY CountInDistinct DEF LoadInv, LoadTypes
    <3>2. Cardinality({k \in DOMAIN ready_bufs : ready_bufs[k] = b})
            = IF b \in Range(ready_bufs) THEN 1 ELSE 0
      BY CountInDistinct DEF LoadInv, LoadTypes
    <3>3. Cardinality({c \in SpadBusy : spad_tag[c].buf = b})
            = IF b \in BufsOf(SpadBusy) THEN 1 ELSE 0
      BY CountBusy
    <3>4. \/ /\ b \in Range(free_data_bufs) /\ b \notin Range(ready_bufs)
             /\ b \notin dram_requests /\ b \notin BufsOf(SpadBusy)
          \/ /\ b \notin Range(free_data_bufs) /\ b \in Range(ready_bufs)
             /\ b \notin dram_requests /\ b \notin BufsOf(SpadBusy)
          \/ /\ b \notin Range(free_data_bufs) /\ b \notin Range(ready_bufs)
             /\ b \in dram_requests /\ b \notin BufsOf(SpadBusy)
          \/ /\ b \notin Range(free_data_bufs) /\ b \notin Range(ready_bufs)
             /\ b \notin dram_requests /\ b \in BufsOf(SpadBusy)
      BY DEF LoadInv, BufsPartitioned, InUse
    <3>5. QED
      BY <3>1, <3>2, <3>3, <3>4
  <2>2. ASSUME NEW c \in Credits
        PROVE  Cardinality({k \in DOMAIN free_spad_credits : free_spad_credits[k] = c})
               + (IF c \in spad_requests THEN 1 ELSE 0)
               + (IF c \in spad_served THEN 1 ELSE 0) = 1
    <3>1. Cardinality({k \in DOMAIN free_spad_credits : free_spad_credits[k] = c})
            = IF c \in Range(free_spad_credits) THEN 1 ELSE 0
      BY CountInDistinct DEF LoadInv, LoadTypes
    <3>2. \/ c \in Range(free_spad_credits) /\ c \notin spad_requests /\ c \notin spad_served
          \/ c \notin Range(free_spad_credits) /\ c \in spad_requests /\ c \notin spad_served
          \/ c \notin Range(free_spad_credits) /\ c \notin spad_requests /\ c \in spad_served
      BY DEF LoadInv, CreditsPartitioned, SpadBusy
    <3>3. QED
      BY <3>1, <3>2
  <2>3. QED
    BY <2>1, <2>2 DEF PoolsConserved
<1>2. QED
  BY <1>1, LoadInvariant, PTL

(* rows_remaining counts exactly the rows the scratchpad has not answered, *)
(* whatever the order of DRAM's and the scratchpad's answers.              *)
THEOREM LoadRowsAccounted == SafeSpec => []RowsAccounted
<1>1. LoadInv => RowsAccounted
  <2> SUFFICES ASSUME LoadInv, NEW id \in Instrs
               PROVE  rows_remaining[id] = RowsUnread(id) + RowsBuffered(id)
    BY DEF RowsAccounted
  <2> DEFINE waiting == {b \in dram_requests \cup Range(ready_bufs) : dram_tag[b][1] = id}
             asking  == {c \in SpadBusy : spad_tag[c].row[1] = id}
             asked   == {b \in BufsOf(SpadBusy) : dram_tag[b][1] = id}
  <2>1. /\ IsFiniteSet(InUse)
        /\ rows_remaining[id] = Unread(id, mvin_instr_queue, mvin)
                                + Cardinality(OfInstr(id, InUse, dram_tag))
    BY DEF LoadInv, LoadAccounted, Accounted
  <2>2. OfInstr(id, InUse, dram_tag) = waiting \cup asked /\ waiting \cap asked = {}
        /\ waiting \subseteq InUse /\ asked \subseteq InUse
    BY DEF LoadInv, BufsPartitioned, OfInstr
  <2>3. ExistsBijection(asking, asked)
    <3> DEFINE f == [c \in asking |-> spad_tag[c].buf]
    <3>1. \A c \in SpadBusy : /\ spad_tag[c].buf \in BufsOf(SpadBusy)
                              /\ spad_tag[c].row = dram_tag[spad_tag[c].buf]
      BY DEF LoadInv, TagsMatch, BufsOf
    <3>2. f \in [asking -> asked]
      BY <3>1
    <3>3. \A c, d \in asking : f[c] = f[d] => c = d
      BY DEF LoadInv, TagsMatch
    <3>4. \A b \in asked : \E c \in asking : f[c] = b
      BY <3>1 DEF BufsOf
    <3> HIDE DEF f, asking, asked
    <3>5. f \in Bijection(asking, asked)
      BY <3>2, <3>3, <3>4 DEF Bijection, Injection, Surjection, IsInjective
    <3>6. QED
      BY <3>5 DEF ExistsBijection
  <2> HIDE DEF waiting, asking, asked
  <2>4. IsFiniteSet(waiting) /\ IsFiniteSet(asked) /\ IsFiniteSet(asking)
        /\ Cardinality(asking) = Cardinality(asked)
    <3>1. waiting \in SUBSET InUse /\ asked \in SUBSET InUse
      BY <2>2
    <3>2. IsFiniteSet(waiting) /\ IsFiniteSet(asked)
      BY <2>1, <3>1, FS_Subset
    <3>3. ExistsBijection(asked, asking)
      BY <2>3, Fun_ExistsBijSymmetric
    <3>4. QED
      BY <3>2, <3>3, FS_Bijection
  <2>5. Cardinality(waiting \cup asked) = Cardinality(waiting) + Cardinality(asked)
    <3>1. Cardinality(waiting \cup asked)
            = Cardinality(waiting) + Cardinality(asked) - Cardinality(waiting \cap asked)
      BY <2>4, FS_Union
    <3>2. Cardinality(waiting \cap asked) = 0
      BY <2>2, FS_EmptySet
    <3>3. Cardinality(waiting) \in Nat /\ Cardinality(asked) \in Nat
      BY <2>4, FS_CardinalityType
    <3>4. QED
      BY <3>1, <3>2, <3>3
  <2>6. RowsBuffered(id) = Cardinality(OfInstr(id, InUse, dram_tag))
    <3>1. RowsBuffered(id) = Cardinality(waiting) + Cardinality(asking)
      BY DEF RowsBuffered, waiting, asking
    <3>2. Cardinality(OfInstr(id, InUse, dram_tag)) = Cardinality(waiting \cup asked)
      BY <2>2, Zenon
    <3>3. QED
      BY <2>4, <2>5, <3>1, <3>2
  <2>7. RowsUnread(id) = Unread(id, mvin_instr_queue, mvin)
    BY DEF RowsUnread, Unread
  <2>8. QED
    BY <2>1, <2>6, <2>7
<1>2. QED
  BY <1>1, LoadInvariant, PTL
-----------------------------------------------------------------------------
(* The load controller copies tiles                                        *)
LEMMA LoadCopiesInitially == Init => CopiesTiles!Init
<1> SUFFICES ASSUME Init PROVE CopiesTiles!Init
  OBVIOUS
<1>1. {id \in Instrs : is_complete(id)} = {}
  BY TileRowIs DEF Init, is_complete
<1>2. QED
  BY <1>1 DEF Init, CopiesTiles!Init, CopiesTiles!TileRows, CopiesTiles!Instrs, TileRows, Instrs

LEMMA LoadCopiesStep ==
  ASSUME LoadInv, LoadInv', [Next]_vars
  PROVE  [CopiesTiles!Next]_CopiesTiles!vars
<1> DEFINE completed == {id \in Instrs : is_complete(id)}
<1>1. /\ rows_remaining \in [Instrs -> Nat] /\ rows_remaining' \in [Instrs -> Nat]
      /\ last_issued_id \in Nat
      /\ \A id \in Instrs : id \in Nat /\ Rows[id] # 0
  BY TileRowIs DEF LoadInv, LoadAccounted, Accounted
<1> /\ CopiesTiles!TileRows = TileRows
    /\ CopiesTiles!Instrs = Instrs
  BY DEF CopiesTiles!TileRows, CopiesTiles!Instrs, TileRows, Instrs
<1>2. CASE UNCHANGED <<rows_remaining, last_issued_id, spad>>
  BY <1>2 DEF CopiesTiles!vars, is_complete
<1>3. CASE Issue
  <2>1. /\ last_issued_id < N_INSTRS /\ last_issued_id' = last_issued_id + 1 /\ spad' = spad
        /\ rows_remaining' = [rows_remaining EXCEPT ![last_issued_id + 1] = Rows[last_issued_id + 1]]
    BY <1>3 DEF Issue, spadVars
  <2>2. last_issued_id + 1 \in Instrs
    BY <1>1, <2>1, InstrAssumption DEF Instrs
  <2>3. ASSUME NEW id \in Instrs PROVE is_complete(id)' <=> is_complete(id)
    <3>1. CASE id = last_issued_id + 1
      <4>1. rows_remaining'[id] # 0 /\ ~ (id <= last_issued_id)
        BY <1>1, <2>1, <3>1
      <4>2. QED
        BY <4>1 DEF is_complete
    <3>2. CASE id # last_issued_id + 1
      <4>1. rows_remaining'[id] = rows_remaining[id]
            /\ (id <= last_issued_id + 1 <=> id <= last_issued_id)
        BY <1>1, <2>1, <3>2
      <4>2. QED
        BY <2>1, <4>1 DEF is_complete
    <3>3. QED
      BY <3>1, <3>2
  <2>4. completed' = completed
    BY <2>3
  <2>5. CopiesTiles!Issue
    BY <2>1, <2>4 DEF CopiesTiles!Issue
  <2>6. QED
    BY <2>5 DEF CopiesTiles!Next
<1>4. ASSUME NEW c \in Credits, SpadAccess(c) PROVE CopiesTiles!Next
  <2>1. PICK b : b = spad_tag[c].buf
    OBVIOUS
  <2>2. /\ c \in spad_requests
        /\ spad' = [spad EXCEPT ![spad_tag[c].row] = row_buffers[b]]
        /\ UNCHANGED <<rows_remaining, last_issued_id>>
    BY <1>4, <2>1 DEF SpadAccess
  <2>3. c \in SpadBusy /\ c \notin spad_served
    BY <2>2 DEF LoadInv, CreditsPartitioned, SpadBusy
  <2>4. /\ b \in InUse /\ b \notin BufsOf(spad_served) /\ dram_tag[b] \in TileRows
        /\ spad_tag[c].row = dram_tag[b] /\ row_buffers[b] = dram_tag[b]
    BY <2>1, <2>3, BusyBuffer
  <2>5. dram_tag[b][1] <= last_issued_id /\ spad[dram_tag[b]] = NULL
    <3>1. /\ Accounted(mvin_instr_queue, rows_remaining, last_issued_id, mvin, InUse, dram_tag)
          /\ Copied(spad, mvin_instr_queue, last_issued_id, mvin, Pending, dram_tag)
      BY DEF LoadInv, LoadAccounted
    <3>2. Pending \in SUBSET InUse /\ b \in Pending
      BY <2>4 DEF Pending
    <3>3. QED
      BY <2>4, <3>1, <3>2 DEF Accounted, Copied, WasRead
  <2>6. completed' = completed
    BY <2>2 DEF is_complete
  <2>7. spad' = [spad EXCEPT ![dram_tag[b]] = dram_tag[b]]
    BY <2>2, <2>4
  <2> PICK t : t = dram_tag[b]
    OBVIOUS
  <2>8. CopiesTiles!CopyRow(t)
    BY <2>2, <2>5, <2>6, <2>7 DEF CopiesTiles!CopyRow
  <2>9. QED
    BY <2>4, <2>8 DEF CopiesTiles!Next
<1>5. ASSUME NEW c \in Credits, SpadResponse(c)
      PROVE  [CopiesTiles!Next]_CopiesTiles!vars
  <2> PICK b : b = spad_tag[c].buf
    OBVIOUS
  <2> PICK id : id = dram_tag[b][1]
    OBVIOUS
  <2>1. /\ c \in spad_served
        /\ rows_remaining' = [rows_remaining EXCEPT ![spad_tag[c].row[1]] = @ - 1]
        /\ UNCHANGED <<last_issued_id, spad>>
    BY <1>5 DEF SpadResponse
  <2>2. c \in SpadBusy
    BY <2>1 DEF SpadBusy
  <2>3. b \in InUse /\ spad_tag[c].row = dram_tag[b]
    BY <2>2, BusyBuffer
  <2>4. id \in Instrs /\ id <= last_issued_id /\ rows_remaining[id] \in Nat \ {0}
    BY <2>3, AnswerAccounted DEF LoadInv, LoadAccounted
  <2>5. rows_remaining' = [rows_remaining EXCEPT ![id] = @ - 1]
    BY <2>1, <2>3
  <2>6. /\ rows_remaining'[id] = rows_remaining[id] - 1
        /\ \A i \in Instrs : i # id => rows_remaining'[i] = rows_remaining[i]
    BY <1>1, <2>4, <2>5
  <2>7. \A i \in Instrs : i # id => (is_complete(i)' <=> is_complete(i))
    BY <2>1, <2>6 DEF is_complete
  <2>8. ~ is_complete(id)
    BY <2>4 DEF is_complete
  <2>9. CASE rows_remaining'[id] = 0
    <3>1. is_complete(id)'
      BY <2>1, <2>4, <2>9 DEF is_complete
    <3>2. completed' = completed \cup {id} /\ id \notin completed
      BY <2>4, <2>7, <2>8, <3>1
    <3>3. \A t \in TileRows : t[1] = id => spad[t] # NULL
      <4>1. /\ Accounted(mvin_instr_queue', rows_remaining', last_issued_id', mvin', InUse', dram_tag')
            /\ Copied(spad', mvin_instr_queue', last_issued_id', mvin', Pending', dram_tag')
        BY DEF LoadInv, LoadAccounted
      <4>2. Pending' \in SUBSET InUse' /\ id <= last_issued_id'
        BY <2>1, <2>4 DEF Pending
      <4>3. \A t \in TileRows : t[1] = id => spad'[t] # NULL
        BY <2>4, <2>9, <4>1, <4>2, CompleteCopied
      <4>4. QED
        BY <2>1, <4>3
    <3>4. id \notin completed /\ completed' = completed \cup {id}
      BY <3>2
    <3>5. CopiesTiles!Complete(id)
      BY <2>1, <2>4, <3>3, <3>4 DEF CopiesTiles!Complete
    <3>6. QED
      BY <2>4, <3>5 DEF CopiesTiles!Next
  <2>10. CASE rows_remaining'[id] # 0
    <3>1. ~ is_complete(id)'
      BY <2>10 DEF is_complete
    <3>2. completed' = completed
      BY <2>7, <2>8, <3>1
    <3>3. QED
      BY <2>1, <3>2 DEF CopiesTiles!vars
  <2>11. QED
    BY <2>9, <2>10
<1>6. CASE Dequeue \/ BufFreed \/ SpadWriteThread
  BY <1>2, <1>6 DEF Dequeue, BufFreed, SpadWriteThread, spadVars
<1>7. ASSUME NEW b \in Bufs, DramResponse(b)
      PROVE  UNCHANGED <<rows_remaining, last_issued_id, spad>>
  BY <1>7 DEF DramResponse, spadVars
<1>8. CASE UNCHANGED vars
  BY <1>2, <1>8 DEF vars, spadVars
<1>9. QED
  BY <1>2, <1>3, <1>4, <1>5, <1>6, <1>7, <1>8 DEF Next

(* The load controller implements the safety part of TileCopy: each row of *)
(* an issued mvin reaches its place in the scratchpad once and uncorrupted *)
(* by the reuse of its buffer, and is_complete holds only when all have.   *)
THEOREM LoadCopiesTiles == SafeSpec => CopiesTiles!SafeSpec
<1>1. LoadInv /\ LoadInv' /\ [Next]_vars => [CopiesTiles!Next]_CopiesTiles!vars
  BY LoadCopiesStep
<1>2. QED
  BY <1>1, LoadCopiesInitially, LoadInvariant, PTL DEF SafeSpec, CopiesTiles!SafeSpec

-----------------------------------------------------------------------------

(* The instance has the instructions and the credits of the system.        *)
LEMMA StoreNames ==
  /\ S!TileRows = TileRows
  /\ S!Instrs = Instrs
  /\ S!Credits = Credits
  /\ S!Bufs = 1 .. STORE_N_DATA_BUF
  BY DEF S!TileRows, S!Instrs, S!Credits, S!Bufs, TileRows, Instrs, Credits

StoreBufsOf(credits) == {store_spad_tag[c].buf : c \in credits}

(* The buffers in use, and those of them whose row is not in DRAM yet      *)
StoreInUse   == S!Bufs \ Range(store_free_data_bufs)
StorePending == StoreInUse \ store_dram_written

StoreTypes ==
  /\ Len(mvout_instr_queue) <= INSTR_QUEUE_SIZE
  /\ store_free_data_bufs \in Seq(S!Bufs) /\ Distinct(store_free_data_bufs)
  /\ store_ready_bufs \in Seq(S!Bufs) /\ Distinct(store_ready_bufs)
  /\ store_free_spad_credits \in Seq(Credits) /\ Distinct(store_free_spad_credits)
  /\ store_dram_tag \in [S!Bufs -> TileRows \cup {NULL}]
  /\ store_row_buffers \in [S!Bufs -> TileRows \cup {NULL}]
  /\ store_spad_tag \in [Credits -> [row : TileRows, buf : S!Bufs] \cup {NULL}]
  /\ <<store_buf_freed, store_buf_ready, store_credit_freed>>
       \in BOOLEAN \X BOOLEAN \X BOOLEAN

(* A buffer in use waits for the scratchpad, is ready, or waits for DRAM.  *)
StoreBufsPartitioned ==
  /\ StoreBufsOf(S!SpadBusy) \cup Range(store_ready_bufs)
       \cup store_dram_requests \cup store_dram_written = StoreInUse
  /\ StoreBufsOf(S!SpadBusy) \cap Range(store_ready_bufs) = {}
  /\ StoreBufsOf(S!SpadBusy) \cap (store_dram_requests \cup store_dram_written) = {}
  /\ Range(store_ready_bufs) \cap (store_dram_requests \cup store_dram_written) = {}
  /\ store_dram_requests \cap store_dram_written = {}

StoreCreditsPartitioned ==
  /\ S!SpadBusy = Credits \ Range(store_free_spad_credits)
  /\ store_spad_requests \cap store_spad_served = {}

(* A request to the scratchpad is for a buffer of its own and reads the    *)
(* row that DRAM will be asked to write from it; the buffer holds that row *)
(* from the scratchpad's access on.                                        *)
StoreTagsMatch ==
  /\ \A c \in S!SpadBusy : /\ store_spad_tag[c] \in [row : TileRows, buf : S!Bufs]
                           /\ store_spad_tag[c].row = store_dram_tag[store_spad_tag[c].buf]
  /\ \A c, d \in S!SpadBusy : store_spad_tag[c].buf = store_spad_tag[d].buf => c = d
  /\ \A b \in StoreInUse :
       b \notin StoreBufsOf(store_spad_requests) => store_row_buffers[b] = store_dram_tag[b]

StoreAccounted ==
  /\ Accounted(mvout_instr_queue, store_rows_remaining, store_last_issued_id, mvout,
               StoreInUse, store_dram_tag)
  /\ Copied(dram, mvout_instr_queue, store_last_issued_id, mvout, StorePending, store_dram_tag)

StoreInv ==
  /\ StoreTypes
  /\ StoreBufsPartitioned
  /\ StoreCreditsPartitioned
  /\ StoreTagsMatch
  /\ StoreAccounted

LEMMA StoreInitially == S!Init => StoreInv
<1> SUFFICES ASSUME S!Init PROVE StoreInv
  OBVIOUS
<1> USE StoreNames
<1>1. /\ store_free_data_bufs \in Seq(S!Bufs) /\ Distinct(store_free_data_bufs)
      /\ Range(store_free_data_bufs) = S!Bufs
  BY StoreSizeAssumption, FullPool DEF S!Init
<1>2. /\ store_free_spad_credits \in Seq(Credits) /\ Distinct(store_free_spad_credits)
      /\ Range(store_free_spad_credits) = Credits
  BY SizeAssumption, FullPool DEF S!Init, Credits
<1>3. /\ store_ready_bufs \in Seq(S!Bufs) /\ Distinct(store_ready_bufs)
      /\ Range(store_ready_bufs) = {}
      /\ Len(mvout_instr_queue) = 0
  BY EmptyPool, EmptySeq DEF S!Init
<1>4. /\ StoreInUse = {} /\ StorePending = {} /\ S!SpadBusy = {}
      /\ StoreBufsOf(S!SpadBusy) = {}
  BY <1>1 DEF StoreInUse, StorePending, S!SpadBusy, StoreBufsOf, S!Init
<1>5. StoreTypes
  <2>1. Len(mvout_instr_queue) <= INSTR_QUEUE_SIZE
    BY <1>3, SizeAssumption
  <2>2. /\ store_dram_tag \in [S!Bufs -> TileRows \cup {NULL}]
        /\ store_row_buffers \in [S!Bufs -> TileRows \cup {NULL}]
        /\ store_spad_tag \in [Credits -> [row : TileRows, buf : S!Bufs] \cup {NULL}]
        /\ <<store_buf_freed, store_buf_ready, store_credit_freed>>
             \in BOOLEAN \X BOOLEAN \X BOOLEAN
    BY DEF S!Init
  <2>3. QED
    BY <1>1, <1>2, <1>3, <2>1, <2>2 DEF StoreTypes
<1>6. StoreBufsPartitioned
  BY <1>3, <1>4 DEF StoreBufsPartitioned, S!Init
<1>7. StoreCreditsPartitioned
  BY <1>2, <1>4 DEF StoreCreditsPartitioned, S!Init
<1>8. StoreTagsMatch
  BY <1>4 DEF StoreTagsMatch
<1>9. StoreAccounted
  <2>1. /\ mvout_instr_queue = << >> /\ store_rows_remaining = [id \in Instrs |-> 0]
        /\ store_last_issued_id = 0 /\ mvout = NULL
        /\ dram = [t \in TileRows |-> NULL]
    BY DEF S!Init
  <2>2. QED
    BY <1>4, <2>1, NothingAccounted DEF StoreAccounted
<1>10. QED
  BY <1>5, <1>6, <1>7, <1>8, <1>9 DEF StoreInv

(* A step that leaves the pools, requests and tags alone; it may take or   *)
(* give notifications.                                                     *)
LEMMA StoreSamePools ==
  ASSUME StoreTypes, StoreBufsPartitioned, StoreCreditsPartitioned, StoreTagsMatch,
         UNCHANGED <<S!poolVars, store_dram_tag, store_row_buffers, store_spad_tag,
                     S!spadVars, store_dram_requests, store_dram_written>>,
         <<store_buf_freed, store_buf_ready, store_credit_freed>>'
           \in BOOLEAN \X BOOLEAN \X BOOLEAN,
         Len(mvout_instr_queue') <= INSTR_QUEUE_SIZE
  PROVE  /\ StoreTypes' /\ StoreBufsPartitioned' /\ StoreCreditsPartitioned'
         /\ StoreTagsMatch'
         /\ StoreInUse' = StoreInUse /\ StorePending' = StorePending
<1>1. /\ StoreInUse' = StoreInUse /\ StorePending' = StorePending
      /\ S!SpadBusy' = S!SpadBusy
      /\ StoreBufsOf(S!SpadBusy)' = StoreBufsOf(S!SpadBusy)
      /\ StoreBufsOf(store_spad_requests)' = StoreBufsOf(store_spad_requests)
  BY DEF S!poolVars, S!spadVars, StoreInUse, StorePending, S!SpadBusy, StoreBufsOf
<1>2. StoreTypes'
  BY DEF StoreTypes, S!poolVars
<1>3. StoreBufsPartitioned' /\ StoreCreditsPartitioned'
  BY <1>1 DEF StoreBufsPartitioned, StoreCreditsPartitioned, S!poolVars, S!spadVars
<1>4. StoreTagsMatch'
  BY <1>1 DEF StoreTagsMatch
<1>5. QED
  BY <1>1, <1>2, <1>3, <1>4

LEMMA StoreIssueKeeps ==
  ASSUME StoreInv, S!Issue
  PROVE  StoreInv'
<1>1. Len(mvout_instr_queue') <= INSTR_QUEUE_SIZE
  <2>1. mvout_instr_queue \in Seq(Instrs)
    BY DEF StoreInv, StoreAccounted, Accounted
  <2>2. /\ Len(mvout_instr_queue) \in Nat
        /\ Len(Append(mvout_instr_queue, store_last_issued_id + 1)) = Len(mvout_instr_queue) + 1
    BY <2>1, AppendProperties, LenProperties
  <2>3. QED
    BY <2>2, SizeAssumption DEF S!Issue, S!has_room
<1>2. /\ StoreTypes' /\ StoreBufsPartitioned' /\ StoreCreditsPartitioned' /\ StoreTagsMatch'
      /\ StoreInUse' = StoreInUse /\ StorePending' = StorePending
  <2>1. /\ UNCHANGED <<S!poolVars, store_dram_tag, store_row_buffers, store_spad_tag,
                       S!spadVars, store_dram_requests, store_dram_written>>
        /\ <<store_buf_freed, store_buf_ready, store_credit_freed>>'
             \in BOOLEAN \X BOOLEAN \X BOOLEAN
    BY DEF StoreInv, StoreTypes, S!Issue, S!eventVars, S!dramVars
  <2>2. QED
    BY <1>1, <2>1, StoreSamePools DEF StoreInv
<1>3. /\ Accounted(mvout_instr_queue', store_rows_remaining', store_last_issued_id', mvout,
                   StoreInUse, store_dram_tag)
      /\ Copied(dram, mvout_instr_queue', store_last_issued_id', mvout, StorePending,
                store_dram_tag)
  <2>1. /\ Accounted(mvout_instr_queue, store_rows_remaining, store_last_issued_id, mvout,
                     StoreInUse, store_dram_tag)
        /\ Copied(dram, mvout_instr_queue, store_last_issued_id, mvout, StorePending,
                  store_dram_tag)
        /\ store_last_issued_id < N_INSTRS
    BY DEF StoreInv, StoreAccounted, S!Issue
  <2>2. /\ mvout_instr_queue' = Append(mvout_instr_queue, store_last_issued_id + 1)
        /\ store_rows_remaining' = [store_rows_remaining EXCEPT
                                      ![store_last_issued_id + 1] = Rows[store_last_issued_id + 1]]
        /\ store_last_issued_id' = store_last_issued_id + 1
    BY DEF S!Issue
  <2>3. QED
    BY <2>1, <2>2, IssueAccounted
<1>4. mvout' = mvout /\ store_dram_tag' = store_dram_tag /\ dram' = dram
  BY DEF S!Issue, S!dramVars
<1>5. StoreAccounted'
  BY <1>2, <1>3, <1>4 DEF StoreAccounted
<1>6. QED
  BY <1>2, <1>5 DEF StoreInv

(* What the row loop of spad_read_thread does: it takes n buffers and as   *)
(* many credits.                                                           *)
Reads(tag, row, b) ==
  tag \in [row : TileRows, buf : S!Bufs] /\ tag.row = row /\ tag.buf = b

StoreTakesRows(id, first, n) ==
  /\ first + n <= Rows[id]
  /\ n <= Len(store_free_data_bufs) /\ n <= Len(store_free_spad_credits)
  /\ store_free_data_bufs' = Rest(store_free_data_bufs, n)
  /\ store_free_spad_credits' = Rest(store_free_spad_credits, n)
  /\ store_spad_requests' = store_spad_requests \cup Front(store_free_spad_credits, n)
  /\ mvout' = RowAfter(id, first + n)
  /\ store_dram_tag' \in [S!Bufs -> TileRows \cup {NULL}]
  /\ \A b \in S!Bufs \ Front(store_free_data_bufs, n) : store_dram_tag'[b] = store_dram_tag[b]
  /\ \A k \in 1 .. n : store_dram_tag'[store_free_data_bufs[k]] = <<id, first + k - 1>>
  /\ store_spad_tag' \in [Credits -> [row : TileRows, buf : S!Bufs] \cup {NULL}]
  /\ \A c \in Credits \ Front(store_free_spad_credits, n) : store_spad_tag'[c] = store_spad_tag[c]
  /\ \A k \in 1 .. n : Reads(store_spad_tag'[store_free_spad_credits[k]],
                             <<id, first + k - 1>>, store_free_data_bufs[k])

LEMMA StoreReadRowsEffect ==
  ASSUME StoreTypes, NEW id, NEW first, <<id, first>> \in TileRows, S!ReadRows(id, first)
  PROVE  \E n \in Nat : StoreTakesRows(id, first, n)
<1> DEFINE n == S!Least(Rows[id] - first,
                        S!Least(Len(store_free_data_bufs), Len(store_free_spad_credits)))
           claimed(k) == <<id, first + k - 1>>
           read(k) == [row |-> claimed(k), buf |-> store_free_data_bufs[k]]
<1>1. /\ id \in Instrs /\ first \in Nat /\ Rows[id] \in Nat /\ Rows[id] - first \in Nat
      /\ \A k \in 0 .. Rows[id] - 1 : <<id, k>> \in TileRows
  <2>1. <<id, first>>[1] = id /\ <<id, first>>[2] = first
    OBVIOUS
  <2>2. id \in Instrs /\ first \in 0 .. Rows[id] - 1
    BY <2>1, TileRowIs
  <2>3. QED
    BY <2>2, TileRowIs
<1>2. /\ store_free_data_bufs \in Seq(S!Bufs) /\ Distinct(store_free_data_bufs)
      /\ store_free_spad_credits \in Seq(Credits) /\ Distinct(store_free_spad_credits)
      /\ store_dram_tag \in [S!Bufs -> TileRows \cup {NULL}]
      /\ store_spad_tag \in [Credits -> [row : TileRows, buf : S!Bufs] \cup {NULL}]
  BY DEF StoreTypes
<1>3. /\ Len(store_free_data_bufs) \in Nat /\ Len(store_free_spad_credits) \in Nat
      /\ \A k \in 1 .. Len(store_free_data_bufs) : store_free_data_bufs[k] \in S!Bufs
      /\ \A k \in 1 .. Len(store_free_spad_credits) : store_free_spad_credits[k] \in Credits
  BY <1>2, RangeElements
<1>4. /\ n \in Nat /\ n <= Rows[id] - first /\ n <= Len(store_free_data_bufs)
      /\ n <= Len(store_free_spad_credits)
  <2> DEFINE least == S!Least(Len(store_free_data_bufs), Len(store_free_spad_credits))
  <2>1. /\ least \in Nat /\ least <= Len(store_free_data_bufs)
        /\ least <= Len(store_free_spad_credits)
    BY <1>3 DEF S!Least
  <2> HIDE DEF least
  <2>2. S!Least(Rows[id] - first, least) \in Nat /\ S!Least(Rows[id] - first, least) <= least
        /\ S!Least(Rows[id] - first, least) <= Rows[id] - first
    BY <1>1, <2>1 DEF S!Least
  <2>3. n = S!Least(Rows[id] - first, least)
    BY DEF least
  <2> HIDE DEF n
  <2>4. QED
    BY <1>1, <1>3, <2>1, <2>2, <2>3
<1>5. /\ store_spad_tag' =
           [c \in Credits |->
              IF \E k \in 1 .. n : store_free_spad_credits[k] = c
              THEN read(CHOOSE k \in 1 .. n : store_free_spad_credits[k] = c)
              ELSE store_spad_tag[c]]
      /\ store_dram_tag' =
           [b \in S!Bufs |->
              IF \E k \in 1 .. n : store_free_data_bufs[k] = b
              THEN claimed(CHOOSE k \in 1 .. n : store_free_data_bufs[k] = b)
              ELSE store_dram_tag[b]]
      /\ store_spad_requests' = store_spad_requests \cup Front(store_free_spad_credits, n)
      /\ store_free_data_bufs' = Rest(store_free_data_bufs, n)
      /\ store_free_spad_credits' = Rest(store_free_spad_credits, n)
      /\ mvout' = RowAfter(id, first + n)
  BY StoreNames DEF S!ReadRows, Front, Rest, RowAfter
<1> HIDE DEF n
<1>6. \A k \in 1 .. n : claimed(k) \in TileRows
  <2> SUFFICES ASSUME NEW k \in 1 .. n PROVE claimed(k) \in TileRows
    OBVIOUS
  <2>1. first + k - 1 \in 0 .. Rows[id] - 1
    BY <1>1, <1>4
  <2>2. QED
    BY <1>1, <2>1
<1> HIDE DEF claimed
<1>7. ASSUME NEW k \in 1 .. n
      PROVE  store_dram_tag'[store_free_data_bufs[k]] = claimed(k)
  <2>1. store_free_data_bufs[k] \in S!Bufs
    BY <1>3, <1>4
  <2>2. (CHOOSE j \in 1 .. n : store_free_data_bufs[j] = store_free_data_bufs[k]) = k
    BY <1>2, <1>4, PlaceInFront
  <2>3. QED
    BY <1>5, <2>1, <2>2
<1>8. ASSUME NEW k \in 1 .. n
      PROVE  Reads(store_spad_tag'[store_free_spad_credits[k]], claimed(k),
                   store_free_data_bufs[k])
  <2>1. store_free_spad_credits[k] \in Credits /\ store_free_data_bufs[k] \in S!Bufs
    BY <1>3, <1>4
  <2>2. (CHOOSE j \in 1 .. n : store_free_spad_credits[j] = store_free_spad_credits[k]) = k
    BY <1>2, <1>4, PlaceInFront
  <2>3. Reads(read(k), claimed(k), store_free_data_bufs[k])
    BY <1>6, <2>1 DEF Reads
  <2> HIDE DEF read
  <2>4. store_spad_tag'[store_free_spad_credits[k]] = read(k)
    BY <1>5, <2>1, <2>2
  <2>5. QED
    BY <2>3, <2>4
<1>9. \A b \in S!Bufs \ Front(store_free_data_bufs, n) : store_dram_tag'[b] = store_dram_tag[b]
  BY <1>5 DEF Front
<1>10. \A c \in Credits \ Front(store_free_spad_credits, n) :
         store_spad_tag'[c] = store_spad_tag[c]
  BY <1>5 DEF Front
<1>11. store_dram_tag' \in [S!Bufs -> TileRows \cup {NULL}]
  <2>1. ASSUME NEW b \in S!Bufs PROVE store_dram_tag'[b] \in TileRows \cup {NULL}
    <3>1. CASE b \in Front(store_free_data_bufs, n)
      <4>1. PICK k \in 1 .. n : store_free_data_bufs[k] = b
        BY <3>1 DEF Front
      <4>2. QED
        BY <1>6, <1>7, <4>1
    <3>2. CASE b \notin Front(store_free_data_bufs, n)
      BY <1>2, <1>9, <3>2
    <3>3. QED
      BY <3>1, <3>2
  <2>2. QED
    BY <1>5, <2>1
<1>12. store_spad_tag' \in [Credits -> [row : TileRows, buf : S!Bufs] \cup {NULL}]
  <2>1. ASSUME NEW c \in Credits
        PROVE  store_spad_tag'[c] \in [row : TileRows, buf : S!Bufs] \cup {NULL}
    <3>1. CASE c \in Front(store_free_spad_credits, n)
      <4>1. PICK k \in 1 .. n : store_free_spad_credits[k] = c
        BY <3>1 DEF Front
      <4>2. QED
        BY <1>8, <4>1 DEF Reads
    <3>2. CASE c \notin Front(store_free_spad_credits, n)
      BY <1>2, <1>10, <3>2
    <3>3. QED
      BY <3>1, <3>2
  <2>2. QED
    BY <1>5, <2>1
<1>13. first + n <= Rows[id]
  BY <1>1, <1>4
<1>14. StoreTakesRows(id, first, n)
  <2>1. \A k \in 1 .. n : store_dram_tag'[store_free_data_bufs[k]] = <<id, first + k - 1>>
    BY <1>7 DEF claimed
  <2>2. \A k \in 1 .. n : Reads(store_spad_tag'[store_free_spad_credits[k]],
                                <<id, first + k - 1>>, store_free_data_bufs[k])
    BY <1>8 DEF claimed
  <2>3. QED
    BY <1>4, <1>5, <1>9, <1>10, <1>11, <1>12, <1>13, <2>1, <2>2 DEF StoreTakesRows
<1>15. QED
  BY <1>4, <1>14

(* The row loop keeps the invariant, entered with the instructions of      *)
(* queue still to be taken.                                                *)
LEMMA StoreReadRowsKeeps ==
  ASSUME StoreTypes, StoreBufsPartitioned, StoreCreditsPartitioned, StoreTagsMatch,
         NEW queue, NEW id, NEW first, <<id, first>> \in TileRows,
         Accounted(queue, store_rows_remaining, store_last_issued_id, <<id, first>>,
                   StoreInUse, store_dram_tag),
         Copied(dram, queue, store_last_issued_id, <<id, first>>, StorePending,
                store_dram_tag),
         S!ReadRows(id, first),
         UNCHANGED <<store_rows_remaining, store_last_issued_id, store_ready_bufs,
                     store_row_buffers, store_buf_ready, store_spad_served, S!dramVars>>,
         store_buf_freed' \in BOOLEAN, store_credit_freed' \in BOOLEAN,
         Len(mvout_instr_queue') <= INSTR_QUEUE_SIZE
  PROVE  /\ StoreTypes' /\ StoreBufsPartitioned' /\ StoreCreditsPartitioned'
         /\ StoreTagsMatch'
         /\ Accounted(queue, store_rows_remaining, store_last_issued_id, mvout',
                      StoreInUse', store_dram_tag')
         /\ Copied(dram, queue, store_last_issued_id, mvout', StorePending',
                   store_dram_tag')
<1>1. PICK n \in Nat : StoreTakesRows(id, first, n)
  BY StoreReadRowsEffect
<1> DEFINE F == Front(store_free_data_bufs, n)
           C == Front(store_free_spad_credits, n)
<1>2. /\ store_free_data_bufs \in Seq(S!Bufs) /\ Distinct(store_free_data_bufs)
      /\ Range(store_free_data_bufs) \subseteq S!Bufs
      /\ store_free_spad_credits \in Seq(Credits) /\ Distinct(store_free_spad_credits)
      /\ Range(store_free_spad_credits) \subseteq Credits
  BY RangeElements DEF StoreTypes
<1>3. /\ store_free_data_bufs' \in Seq(S!Bufs) /\ Distinct(store_free_data_bufs')
      /\ F \subseteq Range(store_free_data_bufs)
      /\ Range(store_free_data_bufs') = Range(store_free_data_bufs) \ F
  BY <1>1, <1>2, TakeFront DEF StoreTakesRows
<1>4. /\ store_free_spad_credits' \in Seq(Credits) /\ Distinct(store_free_spad_credits')
      /\ C \subseteq Range(store_free_spad_credits)
      /\ Range(store_free_spad_credits') = Range(store_free_spad_credits) \ C
  BY <1>1, <1>2, TakeFront DEF StoreTakesRows
<1>5. /\ store_spad_requests' = store_spad_requests \cup C
      /\ \A b \in S!Bufs \ F : store_dram_tag'[b] = store_dram_tag[b]
      /\ \A c \in Credits \ C : store_spad_tag'[c] = store_spad_tag[c]
  BY <1>1 DEF StoreTakesRows
<1>6. \A c \in C : \E k \in 1 .. n :
        /\ c = store_free_spad_credits[k] /\ store_free_data_bufs[k] \in F
        /\ Reads(store_spad_tag'[c], store_dram_tag'[store_free_data_bufs[k]],
                 store_free_data_bufs[k])
  BY <1>1 DEF StoreTakesRows, Front
<1>7. \A b \in F : \E c \in C : store_spad_tag'[c].buf = b
  <2> SUFFICES ASSUME NEW b \in F PROVE \E c \in C : store_spad_tag'[c].buf = b
    OBVIOUS
  <2>1. PICK k \in 1 .. n : b = store_free_data_bufs[k]
    BY DEF Front
  <2>2. /\ store_free_spad_credits[k] \in C
        /\ store_spad_tag'[store_free_spad_credits[k]].buf = b
    BY <1>1, <2>1 DEF StoreTakesRows, Front, Reads
  <2>3. QED
    BY <2>2
<1>8. \A c, d \in C : store_spad_tag'[c].buf = store_spad_tag'[d].buf => c = d
  <2> SUFFICES ASSUME NEW c \in C, NEW d \in C,
                      store_spad_tag'[c].buf = store_spad_tag'[d].buf
               PROVE  c = d
    OBVIOUS
  <2>1. PICK j \in 1 .. n : /\ c = store_free_spad_credits[j]
                            /\ store_spad_tag'[c].buf = store_free_data_bufs[j]
    BY <1>6 DEF Reads
  <2>2. PICK k \in 1 .. n : /\ d = store_free_spad_credits[k]
                            /\ store_spad_tag'[d].buf = store_free_data_bufs[k]
    BY <1>6 DEF Reads
  <2>3. j \in 1 .. Len(store_free_data_bufs) /\ k \in 1 .. Len(store_free_data_bufs)
    BY <1>1, <1>2, RangeElements DEF StoreTakesRows
  <2>4. j = k
    BY <1>2, <2>1, <2>2, <2>3 DEF Distinct
  <2>5. QED
    BY <2>1, <2>2, <2>4
<1>9. F \cap StoreInUse = {} /\ F \subseteq S!Bufs /\ StoreInUse \subseteq S!Bufs
      /\ StoreInUse' = StoreInUse \cup F
  BY <1>2, <1>3 DEF StoreInUse
<1> HIDE DEF F, C
<1>10. /\ C \cap S!SpadBusy = {} /\ C \subseteq Credits /\ S!SpadBusy \subseteq Credits
       /\ S!SpadBusy' = S!SpadBusy \cup C
  BY <1>2, <1>4, <1>5 DEF StoreCreditsPartitioned, S!SpadBusy
<1>11. \A c \in S!SpadBusy : store_spad_tag'[c] = store_spad_tag[c]
  BY <1>5, <1>10
<1>12. \A c \in C : store_spad_tag'[c].buf \in F
  BY <1>6 DEF Reads
<1>13. /\ StoreBufsOf(S!SpadBusy)' = StoreBufsOf(S!SpadBusy) \cup F
       /\ StoreBufsOf(store_spad_requests)' = StoreBufsOf(store_spad_requests) \cup F
  BY <1>5, <1>7, <1>10, <1>11, <1>12 DEF StoreBufsOf, S!SpadBusy
<1>14. \A c \in S!SpadBusy : store_spad_tag[c].buf \in StoreInUse
  BY DEF StoreBufsPartitioned, StoreBufsOf
<1>15. StoreTypes'
  BY <1>1, <1>3, <1>4 DEF StoreTypes, StoreTakesRows
<1>16. StoreBufsPartitioned'
  <2>1. /\ Range(store_ready_bufs)' = Range(store_ready_bufs)
        /\ store_dram_requests' = store_dram_requests
        /\ store_dram_written' = store_dram_written
    BY DEF S!dramVars
  <2>2. QED
    BY <1>9, <1>13, <2>1 DEF StoreBufsPartitioned
<1>17. StoreCreditsPartitioned'
  BY <1>4, <1>5, <1>10 DEF StoreCreditsPartitioned, S!SpadBusy
<1>18. StoreTagsMatch'
  <2>1. ASSUME NEW c \in S!SpadBusy'
        PROVE  /\ store_spad_tag'[c] \in [row : TileRows, buf : S!Bufs]
               /\ store_spad_tag'[c].row = store_dram_tag'[store_spad_tag'[c].buf]
    <3>1. CASE c \in S!SpadBusy
      <4>1. store_spad_tag[c].buf \in S!Bufs \ F
        BY <1>9, <1>14, <3>1
      <4>2. QED
        BY <1>5, <1>11, <3>1, <4>1 DEF StoreTagsMatch
    <3>2. CASE c \in C
      BY <1>6, <3>2 DEF Reads
    <3>3. QED
      BY <1>10, <3>1, <3>2
  <2>2. ASSUME NEW c \in S!SpadBusy', NEW d \in S!SpadBusy',
               store_spad_tag'[c].buf = store_spad_tag'[d].buf
        PROVE  c = d
    <3>1. \A e \in S!SpadBusy : store_spad_tag'[e].buf \in StoreInUse
      BY <1>11, <1>14
    <3>2. \A e, f \in S!SpadBusy : store_spad_tag'[e].buf = store_spad_tag'[f].buf => e = f
      BY <1>11 DEF StoreTagsMatch
    <3>3. QED
      BY <1>8, <1>9, <1>10, <1>12, <2>2, <3>1, <3>2
  <2>3. ASSUME NEW b \in StoreInUse', b \notin StoreBufsOf(store_spad_requests)'
        PROVE  store_row_buffers'[b] = store_dram_tag'[b]
    <3>1. b \in StoreInUse /\ b \notin F /\ b \notin StoreBufsOf(store_spad_requests)
      BY <1>9, <1>13, <2>3
    <3>2. store_row_buffers' = store_row_buffers
      OBVIOUS
    <3>3. QED
      BY <1>5, <1>9, <3>1, <3>2 DEF StoreTagsMatch
  <2>4. QED
    BY <2>1, <2>2, <2>3 DEF StoreTagsMatch
<1>19. StorePending \subseteq StoreInUse /\ StorePending' = StorePending \cup F
  <2>1. store_dram_written \subseteq StoreInUse /\ store_dram_written' = store_dram_written
    BY DEF StoreBufsPartitioned, S!dramVars
  <2>2. QED
    BY <1>9, <2>1 DEF StorePending
<1>20. \A b \in StoreInUse : store_dram_tag'[b] = store_dram_tag[b]
  BY <1>5, <1>9
<1>21. Tagged(StoreInUse, store_dram_tag, id, first, n, store_free_data_bufs, store_dram_tag')
  <2>1. \A j, k \in 1 .. n : store_free_data_bufs[j] = store_free_data_bufs[k] => j = k
    BY <1>1, <1>2, RangeElements, SMTT(30) DEF StoreTakesRows, Distinct
  <2>2. QED
    BY <1>1, <1>9, <1>20, <2>1 DEF Tagged, StoreTakesRows, F
<1>22. /\ Accounted(queue, store_rows_remaining, store_last_issued_id, mvout',
                    StoreInUse \cup F, store_dram_tag')
       /\ Copied(dram, queue, store_last_issued_id, mvout', StorePending \cup F,
                 store_dram_tag')
  <2>1. mvout' = RowAfter(id, first + n)
    BY <1>1 DEF StoreTakesRows
  <2>2. QED
    BY <1>19, <1>21, <2>1, ReadAccounted DEF F
<1>23. QED
  BY <1>9, <1>15, <1>16, <1>17, <1>18, <1>19, <1>22

LEMMA StoreDequeueKeeps ==
  ASSUME StoreInv, S!Dequeue
  PROVE  StoreInv'
<1> DEFINE id == Head(mvout_instr_queue)
<1>1. /\ Accounted(mvout_instr_queue, store_rows_remaining, store_last_issued_id, NULL,
                   StoreInUse, store_dram_tag)
      /\ Copied(dram, mvout_instr_queue, store_last_issued_id, NULL, StorePending,
                store_dram_tag)
      /\ mvout_instr_queue # << >> /\ mvout_instr_queue' = Tail(mvout_instr_queue)
  BY DEF StoreInv, StoreAccounted, S!Dequeue
<1>2. /\ <<id, 0>> \in TileRows
      /\ Accounted(mvout_instr_queue', store_rows_remaining, store_last_issued_id,
                   <<id, 0>>, StoreInUse, store_dram_tag)
      /\ Copied(dram, mvout_instr_queue', store_last_issued_id, <<id, 0>>, StorePending,
                store_dram_tag)
  BY <1>1, DequeueAccounted
<1>3. Len(mvout_instr_queue') <= INSTR_QUEUE_SIZE
  <2>1. mvout_instr_queue \in Seq(Instrs)
    BY DEF StoreInv, StoreAccounted, Accounted
  <2>2. /\ Len(mvout_instr_queue) \in Nat
        /\ Len(Tail(mvout_instr_queue)) = Len(mvout_instr_queue) - 1
    BY <1>1, <2>1, HeadTailProperties, LenProperties
  <2>3. QED
    BY <1>1, <2>2, SizeAssumption DEF StoreInv, StoreTypes
<1>4. /\ S!ReadRows(id, 0)
      /\ UNCHANGED <<store_rows_remaining, store_last_issued_id, store_ready_bufs,
                     store_row_buffers, store_buf_ready, store_spad_served, S!dramVars>>
      /\ store_buf_freed' \in BOOLEAN /\ store_credit_freed' \in BOOLEAN
  BY DEF S!Dequeue, S!eventVars, StoreInv, StoreTypes
<1> HIDE DEF id
<1>5. /\ StoreTypes' /\ StoreBufsPartitioned' /\ StoreCreditsPartitioned' /\ StoreTagsMatch'
      /\ Accounted(mvout_instr_queue', store_rows_remaining, store_last_issued_id, mvout',
                   StoreInUse', store_dram_tag')
      /\ Copied(dram, mvout_instr_queue', store_last_issued_id, mvout', StorePending',
                store_dram_tag')
  BY <1>2, <1>3, <1>4, StoreReadRowsKeeps DEF StoreInv
<1>6. StoreAccounted'
  BY <1>4, <1>5 DEF StoreAccounted, S!dramVars
<1>7. QED
  BY <1>5, <1>6 DEF StoreInv

LEMMA StoreSpadReadThreadKeeps ==
  ASSUME StoreInv, S!SpadReadThread
  PROVE  StoreInv'
<1>1. CASE mvout # NULL
  <2>1. mvout \in TileRows /\ mvout = <<mvout[1], mvout[2]>>
    BY <1>1, TileRowIs DEF StoreInv, StoreAccounted, Accounted
  <2>2. /\ <<mvout[1], mvout[2]>> \in TileRows
        /\ Accounted(mvout_instr_queue, store_rows_remaining, store_last_issued_id,
                     <<mvout[1], mvout[2]>>, StoreInUse, store_dram_tag)
        /\ Copied(dram, mvout_instr_queue, store_last_issued_id, <<mvout[1], mvout[2]>>,
                  StorePending, store_dram_tag)
    BY <2>1, Zenon DEF StoreInv, StoreAccounted
  <2>3. /\ S!ReadRows(mvout[1], mvout[2])
        /\ UNCHANGED <<store_rows_remaining, store_last_issued_id, store_ready_bufs,
                       store_row_buffers, store_buf_ready, store_spad_served, S!dramVars>>
        /\ store_buf_freed' \in BOOLEAN /\ store_credit_freed' \in BOOLEAN
        /\ mvout_instr_queue' = mvout_instr_queue
        /\ Len(mvout_instr_queue') <= INSTR_QUEUE_SIZE
    BY <1>1 DEF S!SpadReadThread, StoreInv, StoreTypes
  <2>4. /\ StoreTypes' /\ StoreBufsPartitioned' /\ StoreCreditsPartitioned' /\ StoreTagsMatch'
        /\ Accounted(mvout_instr_queue, store_rows_remaining, store_last_issued_id, mvout',
                     StoreInUse', store_dram_tag')
        /\ Copied(dram, mvout_instr_queue, store_last_issued_id, mvout', StorePending',
                  store_dram_tag')
    BY <2>2, <2>3, StoreReadRowsKeeps DEF StoreInv
  <2>5. StoreAccounted'
    BY <2>3, <2>4 DEF StoreAccounted, S!dramVars
  <2>6. QED
    BY <2>4, <2>5 DEF StoreInv
<1>2. CASE mvout = NULL
  <2>1. /\ UNCHANGED <<S!poolVars, store_dram_tag, store_row_buffers, store_spad_tag,
                       S!spadVars, store_dram_requests, store_dram_written>>
        /\ UNCHANGED <<mvout_instr_queue, store_rows_remaining, store_last_issued_id, mvout,
                       dram>>
        /\ <<store_buf_freed, store_buf_ready, store_credit_freed>>'
             \in BOOLEAN \X BOOLEAN \X BOOLEAN
    BY <1>2 DEF S!SpadReadThread, S!poolVars, S!spadVars, S!dramVars, StoreInv, StoreTypes
  <2>2. Len(mvout_instr_queue') <= INSTR_QUEUE_SIZE
    BY <2>1 DEF StoreInv, StoreTypes
  <2>3. /\ StoreTypes' /\ StoreBufsPartitioned' /\ StoreCreditsPartitioned' /\ StoreTagsMatch'
        /\ StoreInUse' = StoreInUse /\ StorePending' = StorePending
    BY <2>1, <2>2, StoreSamePools DEF StoreInv
  <2>4. StoreAccounted'
    BY <2>1, <2>3 DEF StoreInv, StoreAccounted
  <2>5. QED
    BY <2>3, <2>4 DEF StoreInv
<1>3. QED
  BY <1>1, <1>2

(* A request the scratchpad has is for a buffer of its own, in use, with   *)
(* its row.                                                                *)
LEMMA StoreBusyBuffer ==
  ASSUME StoreInv, NEW c \in S!SpadBusy, NEW b, b = store_spad_tag[c].buf
  PROVE  /\ b \in StoreInUse /\ b \in S!Bufs /\ b \in StoreBufsOf(S!SpadBusy)
         /\ b \notin Range(store_ready_bufs)
         /\ b \notin store_dram_requests /\ b \notin store_dram_written
         /\ store_spad_tag[c].row = store_dram_tag[b] /\ store_dram_tag[b] \in TileRows
         /\ c \in Credits /\ c \notin Range(store_free_spad_credits)
         /\ StoreBufsOf(S!SpadBusy \ {c}) = StoreBufsOf(S!SpadBusy) \ {b}
         /\ c \notin store_spad_requests => b \notin StoreBufsOf(store_spad_requests)
         /\ c \in store_spad_requests =>
              StoreBufsOf(store_spad_requests \ {c}) = StoreBufsOf(store_spad_requests) \ {b}
<1>1. /\ b \in StoreBufsOf(S!SpadBusy)
      /\ \A d \in S!SpadBusy : store_spad_tag[d].buf = b => d = c
      /\ store_spad_requests \subseteq S!SpadBusy
  BY DEF StoreInv, StoreTagsMatch, StoreBufsOf, S!SpadBusy
<1>2. /\ b \in StoreInUse /\ b \notin Range(store_ready_bufs)
      /\ b \notin store_dram_requests /\ b \notin store_dram_written
  BY <1>1 DEF StoreInv, StoreBufsPartitioned
<1>3. b \in S!Bufs
  BY <1>2 DEF StoreInUse
<1>4. store_dram_tag[b] \in TileRows
  BY <1>2 DEF StoreInv, StoreAccounted, Accounted
<1>5. store_spad_tag[c].row = store_dram_tag[b]
  BY DEF StoreInv, StoreTagsMatch
<1>6. c \in Credits /\ c \notin Range(store_free_spad_credits)
  BY DEF StoreInv, StoreCreditsPartitioned
<1>7. /\ StoreBufsOf(S!SpadBusy \ {c}) = StoreBufsOf(S!SpadBusy) \ {b}
      /\ c \notin store_spad_requests => b \notin StoreBufsOf(store_spad_requests)
      /\ c \in store_spad_requests =>
           StoreBufsOf(store_spad_requests \ {c}) = StoreBufsOf(store_spad_requests) \ {b}
  BY <1>1 DEF StoreBufsOf
<1>8. QED
  BY <1>1, <1>2, <1>3, <1>4, <1>5, <1>6, <1>7

LEMMA StoreSpadAccessKeeps ==
  ASSUME StoreInv, NEW c \in Credits, S!SpadAccess(c)
  PROVE  StoreInv'
<1> PICK b : b = store_spad_tag[c].buf
  OBVIOUS
<1>1. /\ c \in store_spad_requests /\ store_spad_requests' = store_spad_requests \ {c}
      /\ store_spad_served' = store_spad_served \cup {c}
      /\ store_row_buffers' = [store_row_buffers EXCEPT ![b] = store_spad_tag[c].row]
      /\ UNCHANGED <<mvout_instr_queue, store_rows_remaining, store_last_issued_id, mvout,
                     S!poolVars, store_spad_tag, store_dram_tag, S!eventVars, S!dramVars>>
  BY DEF S!SpadAccess
<1>2. c \in S!SpadBusy
  BY <1>1 DEF S!SpadBusy
<1>3. /\ b \in StoreInUse /\ b \in S!Bufs /\ store_spad_tag[c].row = store_dram_tag[b]
      /\ store_dram_tag[b] \in TileRows
      /\ StoreBufsOf(store_spad_requests \ {c}) = StoreBufsOf(store_spad_requests) \ {b}
  BY <1>1, <1>2, StoreBusyBuffer
<1>4. /\ S!SpadBusy' = S!SpadBusy /\ StoreInUse' = StoreInUse /\ StorePending' = StorePending
      /\ StoreBufsOf(S!SpadBusy)' = StoreBufsOf(S!SpadBusy)
      /\ StoreBufsOf(store_spad_requests)' = StoreBufsOf(store_spad_requests \ {c})
  BY <1>1 DEF S!SpadBusy, StoreInUse, StorePending, S!poolVars, S!dramVars, StoreBufsOf
<1>5. /\ store_row_buffers' \in [S!Bufs -> TileRows \cup {NULL}]
      /\ store_row_buffers'[b] = store_dram_tag[b]
      /\ \A a \in S!Bufs : a # b => store_row_buffers'[a] = store_row_buffers[a]
  BY <1>1, <1>3 DEF StoreInv, StoreTypes
<1>6. StoreTypes'
  BY <1>1, <1>5 DEF StoreInv, StoreTypes, S!poolVars, S!eventVars
<1>7. StoreBufsPartitioned'
  BY <1>1, <1>4 DEF StoreInv, StoreBufsPartitioned, S!poolVars, S!dramVars
<1>8. StoreCreditsPartitioned'
  BY <1>1, <1>4 DEF StoreInv, StoreCreditsPartitioned, S!poolVars
<1>9. StoreTagsMatch'
  <2>1. \A a \in StoreInUse : a \notin StoreBufsOf(store_spad_requests)' =>
          store_row_buffers'[a] = store_dram_tag[a]
    BY <1>3, <1>4, <1>5 DEF StoreInv, StoreTagsMatch, StoreInUse
  <2>2. QED
    BY <1>1, <1>4, <2>1 DEF StoreInv, StoreTagsMatch
<1>10. StoreAccounted'
  BY <1>1, <1>4 DEF StoreInv, StoreAccounted, S!dramVars
<1>11. QED
  BY <1>6, <1>7, <1>8, <1>9, <1>10 DEF StoreInv

LEMMA StoreSpadResponseKeeps ==
  ASSUME StoreInv, NEW c \in Credits, S!SpadResponse(c)
  PROVE  StoreInv'
<1> PICK b : b = store_spad_tag[c].buf
  OBVIOUS
<1>1. /\ c \in store_spad_served /\ store_spad_served' = store_spad_served \ {c}
      /\ store_free_spad_credits' = Append(store_free_spad_credits, c)
      /\ store_ready_bufs' = Append(store_ready_bufs, b)
      /\ store_credit_freed' = TRUE /\ store_buf_ready' = TRUE
      /\ UNCHANGED <<mvout_instr_queue, store_rows_remaining, store_last_issued_id, mvout,
                     store_free_data_bufs, store_spad_tag, store_dram_tag, store_row_buffers,
                     store_buf_freed, store_spad_requests, S!dramVars>>
  BY DEF S!SpadResponse
<1>2. c \in S!SpadBusy /\ c \notin store_spad_requests
  BY <1>1 DEF StoreInv, StoreCreditsPartitioned, S!SpadBusy
<1>3. /\ b \in StoreInUse /\ b \in S!Bufs /\ b \in StoreBufsOf(S!SpadBusy)
      /\ b \notin Range(store_ready_bufs)
      /\ b \notin store_dram_requests /\ b \notin store_dram_written
      /\ c \notin Range(store_free_spad_credits)
      /\ StoreBufsOf(S!SpadBusy \ {c}) = StoreBufsOf(S!SpadBusy) \ {b}
  BY <1>2, StoreBusyBuffer
<1>4. /\ store_ready_bufs' \in Seq(S!Bufs) /\ Distinct(store_ready_bufs')
      /\ Range(store_ready_bufs') = Range(store_ready_bufs) \cup {b}
  BY <1>1, <1>3, GiveBack DEF StoreInv, StoreTypes
<1>5. /\ store_free_spad_credits' \in Seq(Credits) /\ Distinct(store_free_spad_credits')
      /\ Range(store_free_spad_credits') = Range(store_free_spad_credits) \cup {c}
  BY <1>1, <1>3, GiveBack DEF StoreInv, StoreTypes
<1>6. /\ S!SpadBusy' = S!SpadBusy \ {c}
      /\ StoreBufsOf(S!SpadBusy)' = StoreBufsOf(S!SpadBusy) \ {b}
      /\ StoreBufsOf(store_spad_requests)' = StoreBufsOf(store_spad_requests)
      /\ StoreInUse' = StoreInUse /\ StorePending' = StorePending
  <2>1. S!SpadBusy' = S!SpadBusy \ {c}
    BY <1>1, <1>2 DEF S!SpadBusy
  <2>2. StoreBufsOf(S!SpadBusy)' = StoreBufsOf(S!SpadBusy \ {c})
    BY <1>1, <2>1 DEF StoreBufsOf
  <2>3. StoreBufsOf(store_spad_requests)' = StoreBufsOf(store_spad_requests)
    BY <1>1 DEF StoreBufsOf
  <2>4. StoreInUse' = StoreInUse /\ StorePending' = StorePending
    BY <1>1 DEF StoreInUse, StorePending, S!dramVars
  <2>5. QED
    BY <1>3, <2>1, <2>2, <2>3, <2>4
<1>7. StoreTypes'
  BY <1>1, <1>4, <1>5 DEF StoreInv, StoreTypes
<1>8. StoreBufsPartitioned'
  <2>1. /\ UNCHANGED <<store_dram_requests, store_dram_written>>
        /\ StoreInUse' = StoreInUse
    BY <1>1, <1>6 DEF S!dramVars
  <2>2. /\ StoreBufsOf(S!SpadBusy)' = StoreBufsOf(S!SpadBusy) \ {b}
        /\ Range(store_ready_bufs)' = Range(store_ready_bufs) \cup {b}
    BY <1>4, <1>6
  <2>3. StoreBufsOf(S!SpadBusy)' \cup Range(store_ready_bufs)'
          = StoreBufsOf(S!SpadBusy) \cup Range(store_ready_bufs)
    BY <1>3, <2>2
  <2>4. (StoreBufsOf(S!SpadBusy) \cup Range(store_ready_bufs)
           \cup store_dram_requests \cup store_dram_written)' = StoreInUse'
    BY <2>1, <2>3 DEF StoreInv, StoreBufsPartitioned
  <2>5. /\ (StoreBufsOf(S!SpadBusy) \cap Range(store_ready_bufs))' = {}
        /\ (StoreBufsOf(S!SpadBusy) \cap (store_dram_requests \cup store_dram_written))' = {}
    BY <2>1, <2>2 DEF StoreInv, StoreBufsPartitioned
  <2>6. /\ (Range(store_ready_bufs) \cap (store_dram_requests \cup store_dram_written))' = {}
        /\ (store_dram_requests \cap store_dram_written)' = {}
    BY <1>3, <2>1, <2>2 DEF StoreInv, StoreBufsPartitioned
  <2>7. QED
    BY <2>4, <2>5, <2>6 DEF StoreBufsPartitioned
<1>9. StoreCreditsPartitioned'
  <2>1. store_spad_requests' \cap store_spad_served' = {}
    BY <1>1 DEF StoreInv, StoreCreditsPartitioned
  <2>2. QED
    BY <1>5, <1>6, <2>1 DEF StoreInv, StoreCreditsPartitioned
<1>10. StoreTagsMatch'
  BY <1>1, <1>6 DEF StoreInv, StoreTagsMatch
<1>11. StoreAccounted'
  BY <1>1, <1>6 DEF StoreInv, StoreAccounted, S!dramVars
<1>12. QED
  BY <1>7, <1>8, <1>9, <1>10, <1>11 DEF StoreInv

LEMMA StoreDramWriteThreadKeeps ==
  ASSUME StoreInv, S!DramWriteThread
  PROVE  StoreInv'
<1>1. /\ store_buf_ready' = FALSE
      /\ store_dram_requests' = store_dram_requests \cup Range(store_ready_bufs)
      /\ store_ready_bufs' = << >>
      /\ UNCHANGED <<mvout_instr_queue, store_rows_remaining, store_last_issued_id, mvout,
                     store_free_data_bufs, store_free_spad_credits, store_spad_tag,
                     store_dram_tag, store_row_buffers, store_buf_freed, store_credit_freed,
                     S!spadVars, store_dram_written, dram>>
  BY DEF S!DramWriteThread, S!Range, Range
<1>2. /\ store_ready_bufs' \in Seq(S!Bufs) /\ Distinct(store_ready_bufs')
      /\ Range(store_ready_bufs') = {}
  BY <1>1, EmptyPool
<1>3. /\ S!SpadBusy' = S!SpadBusy /\ StoreInUse' = StoreInUse /\ StorePending' = StorePending
      /\ StoreBufsOf(S!SpadBusy)' = StoreBufsOf(S!SpadBusy)
      /\ StoreBufsOf(store_spad_requests)' = StoreBufsOf(store_spad_requests)
  BY <1>1 DEF S!SpadBusy, StoreInUse, StorePending, S!spadVars, StoreBufsOf
<1>4. StoreTypes'
  BY <1>1, <1>2 DEF StoreInv, StoreTypes
<1>5. StoreBufsPartitioned'
  BY <1>1, <1>2, <1>3 DEF StoreInv, StoreBufsPartitioned
<1>6. StoreCreditsPartitioned'
  BY <1>1, <1>3 DEF StoreInv, StoreCreditsPartitioned, S!spadVars
<1>7. StoreTagsMatch'
  BY <1>1, <1>3 DEF StoreInv, StoreTagsMatch
<1>8. StoreAccounted'
  BY <1>1, <1>3 DEF StoreInv, StoreAccounted
<1>9. QED
  BY <1>4, <1>5, <1>6, <1>7, <1>8 DEF StoreInv

(* A buffer that DRAM has was filled with its row.                         *)
LEMMA StoreDramBuffer ==
  ASSUME StoreInv, NEW b, b \in store_dram_requests \/ b \in store_dram_written
  PROVE  /\ b \in StoreInUse /\ b \in S!Bufs /\ b \notin Range(store_free_data_bufs)
         /\ b \notin Range(store_ready_bufs) /\ b \notin StoreBufsOf(S!SpadBusy)
         /\ store_row_buffers[b] = store_dram_tag[b] /\ store_dram_tag[b] \in TileRows
<1>1. /\ b \in StoreInUse /\ b \notin Range(store_ready_bufs)
      /\ b \notin StoreBufsOf(S!SpadBusy)
  BY DEF StoreInv, StoreBufsPartitioned
<1>2. b \notin StoreBufsOf(store_spad_requests)
  BY <1>1 DEF StoreBufsOf, S!SpadBusy
<1>3. store_row_buffers[b] = store_dram_tag[b]
  BY <1>1, <1>2 DEF StoreInv, StoreTagsMatch
<1>4. store_dram_tag[b] \in TileRows
  BY <1>1 DEF StoreInv, StoreAccounted, Accounted
<1>5. QED
  BY <1>1, <1>3, <1>4 DEF StoreInUse

LEMMA StoreDramAccessKeeps ==
  ASSUME StoreInv, NEW b \in S!Bufs, S!DramAccess(b)
  PROVE  StoreInv'
<1>1. /\ b \in store_dram_requests /\ store_dram_requests' = store_dram_requests \ {b}
      /\ store_dram_written' = store_dram_written \cup {b}
      /\ dram' = [dram EXCEPT ![store_dram_tag[b]] = store_row_buffers[b]]
      /\ UNCHANGED <<mvout_instr_queue, store_rows_remaining, store_last_issued_id, mvout,
                     S!poolVars, store_spad_tag, store_dram_tag, store_row_buffers,
                     S!eventVars, S!spadVars>>
  BY DEF S!DramAccess
<1>2. b \in StoreInUse /\ store_row_buffers[b] = store_dram_tag[b]
  BY <1>1, StoreDramBuffer
<1>3. /\ S!SpadBusy' = S!SpadBusy /\ StoreInUse' = StoreInUse
      /\ StoreBufsOf(S!SpadBusy)' = StoreBufsOf(S!SpadBusy)
      /\ StoreBufsOf(store_spad_requests)' = StoreBufsOf(store_spad_requests)
  BY <1>1 DEF S!SpadBusy, StoreInUse, S!spadVars, S!poolVars, StoreBufsOf
<1>4. StorePending \subseteq StoreInUse /\ b \in StorePending /\ StorePending' = StorePending \ {b}
  BY <1>1, <1>2, <1>3 DEF StorePending, StoreInv, StoreBufsPartitioned
<1>5. StoreTypes'
  BY <1>1 DEF StoreInv, StoreTypes, S!poolVars, S!eventVars
<1>6. StoreBufsPartitioned'
  BY <1>1, <1>3 DEF StoreInv, StoreBufsPartitioned, S!poolVars
<1>7. StoreCreditsPartitioned'
  BY <1>1, <1>3 DEF StoreInv, StoreCreditsPartitioned, S!poolVars, S!spadVars
<1>8. StoreTagsMatch'
  BY <1>1, <1>3 DEF StoreInv, StoreTagsMatch
<1>9. dram' = [dram EXCEPT ![store_dram_tag[b]] = store_dram_tag[b]]
  BY <1>1, <1>2
<1>10. Copied(dram', mvout_instr_queue, store_last_issued_id, mvout, StorePending',
              store_dram_tag)
  BY <1>4, <1>9, CopyAccounted DEF StoreInv, StoreAccounted
<1>11. StoreAccounted'
  BY <1>1, <1>3, <1>10 DEF StoreInv, StoreAccounted
<1>12. QED
  BY <1>5, <1>6, <1>7, <1>8, <1>11 DEF StoreInv

LEMMA StoreDramResponseKeeps ==
  ASSUME StoreInv, NEW b \in S!Bufs, S!DramResponse(b)
  PROVE  StoreInv'
<1>1. /\ b \in store_dram_written /\ store_dram_written' = store_dram_written \ {b}
      /\ store_free_data_bufs' = Append(store_free_data_bufs, b)
      /\ store_buf_freed' = TRUE
      /\ store_rows_remaining' =
           [store_rows_remaining EXCEPT ![store_dram_tag[b][1]] = @ - 1]
      /\ UNCHANGED <<mvout_instr_queue, store_last_issued_id, mvout, store_free_spad_credits,
                     store_ready_bufs, store_spad_tag, store_dram_tag, store_row_buffers,
                     store_buf_ready, store_credit_freed, S!spadVars, store_dram_requests,
                     dram>>
  BY DEF S!DramResponse
<1>2. /\ b \in StoreInUse /\ b \notin Range(store_free_data_bufs)
      /\ b \notin Range(store_ready_bufs) /\ b \notin StoreBufsOf(S!SpadBusy)
      /\ b \notin store_dram_requests
  BY <1>1, StoreDramBuffer DEF StoreInv, StoreBufsPartitioned
<1>3. /\ store_free_data_bufs' \in Seq(S!Bufs) /\ Distinct(store_free_data_bufs')
      /\ Range(store_free_data_bufs') = Range(store_free_data_bufs) \cup {b}
  BY <1>1, <1>2, GiveBack DEF StoreInv, StoreTypes
<1>4. /\ S!SpadBusy' = S!SpadBusy /\ StoreInUse' = StoreInUse \ {b}
      /\ StoreBufsOf(S!SpadBusy)' = StoreBufsOf(S!SpadBusy)
      /\ StoreBufsOf(store_spad_requests)' = StoreBufsOf(store_spad_requests)
  BY <1>1, <1>3 DEF S!SpadBusy, StoreInUse, S!spadVars, StoreBufsOf
<1>5. StorePending' = StorePending
  BY <1>1, <1>4 DEF StorePending
<1>6. StoreTypes'
  BY <1>1, <1>3 DEF StoreInv, StoreTypes
<1>7. StoreBufsPartitioned'
  BY <1>1, <1>2, <1>4 DEF StoreInv, StoreBufsPartitioned
<1>8. StoreCreditsPartitioned'
  BY <1>1, <1>4 DEF StoreInv, StoreCreditsPartitioned, S!spadVars
<1>9. StoreTagsMatch'
  BY <1>1, <1>4 DEF StoreInv, StoreTagsMatch
<1>10. Accounted(mvout_instr_queue, store_rows_remaining', store_last_issued_id, mvout,
                 StoreInUse', store_dram_tag)
  BY <1>1, <1>2, <1>4, AnswerAccounted DEF StoreInv, StoreAccounted
<1>11. StoreAccounted'
  BY <1>1, <1>5, <1>10 DEF StoreInv, StoreAccounted
<1>12. QED
  BY <1>6, <1>7, <1>8, <1>9, <1>11 DEF StoreInv

(* Every step keeps the invariant.                                         *)
LEMMA StoreStep == StoreInv /\ [S!Next]_S!vars => StoreInv'
<1> SUFFICES ASSUME StoreInv, [S!Next]_S!vars PROVE StoreInv'
  OBVIOUS
<1>1. CASE UNCHANGED S!vars
  <2>1. /\ UNCHANGED <<S!poolVars, store_dram_tag, store_row_buffers, store_spad_tag,
                       S!spadVars, store_dram_requests, store_dram_written>>
        /\ UNCHANGED <<mvout_instr_queue, store_rows_remaining, store_last_issued_id, mvout,
                       dram>>
        /\ <<store_buf_freed, store_buf_ready, store_credit_freed>>'
             \in BOOLEAN \X BOOLEAN \X BOOLEAN
    BY <1>1 DEF S!vars, S!eventVars, S!dramVars, StoreInv, StoreTypes
  <2>2. Len(mvout_instr_queue') <= INSTR_QUEUE_SIZE
    BY <2>1 DEF StoreInv, StoreTypes
  <2>3. /\ StoreTypes' /\ StoreBufsPartitioned' /\ StoreCreditsPartitioned' /\ StoreTagsMatch'
        /\ StoreInUse' = StoreInUse /\ StorePending' = StorePending
    BY <2>1, <2>2, StoreSamePools DEF StoreInv
  <2>4. StoreAccounted'
    BY <2>1, <2>3 DEF StoreInv, StoreAccounted
  <2>5. QED
    BY <2>3, <2>4 DEF StoreInv
<1>2. CASE S!Issue
  BY <1>2, StoreIssueKeeps
<1>3. CASE S!Dequeue
  BY <1>3, StoreDequeueKeeps
<1>4. CASE S!SpadReadThread
  BY <1>4, StoreSpadReadThreadKeeps
<1>5. CASE S!DramWriteThread
  BY <1>5, StoreDramWriteThreadKeeps
<1>6. ASSUME NEW c \in Credits, S!SpadAccess(c) PROVE StoreInv'
  BY <1>6, StoreSpadAccessKeeps
<1>7. ASSUME NEW c \in Credits, S!SpadResponse(c) PROVE StoreInv'
  BY <1>7, StoreSpadResponseKeeps
<1>8. ASSUME NEW b \in S!Bufs, S!DramAccess(b) PROVE StoreInv'
  BY <1>8, StoreDramAccessKeeps
<1>9. ASSUME NEW b \in S!Bufs, S!DramResponse(b) PROVE StoreInv'
  BY <1>9, StoreDramResponseKeeps
<1>10. QED
  BY <1>1, <1>2, <1>3, <1>4, <1>5, <1>6, <1>7, <1>8, <1>9, StoreNames DEF S!Next

THEOREM StoreInvariant == S!SafeSpec => []StoreInv
<1>1. StoreInv /\ [S!Next]_S!vars => StoreInv'
  BY StoreStep
<1>2. QED
  BY <1>1, StoreInitially, PTL DEF S!SafeSpec
-----------------------------------------------------------------------------
(* What the invariant says of the store controller's pools and rows        *)

(* The instance's copies of the library's operators                        *)
LEMMA StoreRange == \A f : S!Range(f) = Range(f)
  BY DEF S!Range, Range

LEMMA StoreCardinality == \A set : S!Cardinality(set) = Cardinality(set)
  BY DEF S!Cardinality, Cardinality

(* How many requests to the scratchpad a buffer serves                     *)
LEMMA StoreCountBusy ==
  ASSUME StoreInv, NEW b
  PROVE  Cardinality({c \in S!SpadBusy : store_spad_tag[c].buf = b})
           = IF b \in StoreBufsOf(S!SpadBusy) THEN 1 ELSE 0
<1>1. CASE b \in StoreBufsOf(S!SpadBusy)
  <2>1. PICK c \in S!SpadBusy : store_spad_tag[c].buf = b
    BY <1>1 DEF StoreBufsOf
  <2>2. {d \in S!SpadBusy : store_spad_tag[d].buf = b} = {c}
    BY <2>1 DEF StoreInv, StoreTagsMatch
  <2>3. QED
    BY <1>1, <2>2, FS_Singleton
<1>2. CASE b \notin StoreBufsOf(S!SpadBusy)
  <2>1. {d \in S!SpadBusy : store_spad_tag[d].buf = b} = {}
    BY <1>2 DEF StoreBufsOf
  <2>2. QED
    BY <1>2, <2>1, FS_EmptySet
<1>3. QED
  BY <1>1, <1>2

LEMMA StorePoolsConserved == StoreInv => S!PoolsConserved
<1> SUFFICES ASSUME StoreInv PROVE S!PoolsConserved
  OBVIOUS
<1>1. ASSUME NEW b \in S!Bufs
      PROVE  Cardinality({k \in DOMAIN store_free_data_bufs : store_free_data_bufs[k] = b})
             + Cardinality({k \in DOMAIN store_ready_bufs : store_ready_bufs[k] = b})
             + Cardinality({c \in S!SpadBusy : store_spad_tag[c].buf = b})
             + (IF b \in store_dram_requests THEN 1 ELSE 0)
             + (IF b \in store_dram_written THEN 1 ELSE 0) = 1
  <2>1. Cardinality({k \in DOMAIN store_free_data_bufs : store_free_data_bufs[k] = b})
          = IF b \in Range(store_free_data_bufs) THEN 1 ELSE 0
    BY CountInDistinct DEF StoreInv, StoreTypes
  <2>2. Cardinality({k \in DOMAIN store_ready_bufs : store_ready_bufs[k] = b})
          = IF b \in Range(store_ready_bufs) THEN 1 ELSE 0
    BY CountInDistinct DEF StoreInv, StoreTypes
  <2>3. Cardinality({c \in S!SpadBusy : store_spad_tag[c].buf = b})
          = IF b \in StoreBufsOf(S!SpadBusy) THEN 1 ELSE 0
    BY StoreCountBusy
  <2>4. CASE b \in Range(store_free_data_bufs)
    <3>1. /\ b \notin Range(store_ready_bufs) /\ b \notin StoreBufsOf(S!SpadBusy)
          /\ b \notin store_dram_requests /\ b \notin store_dram_written
      BY <2>4 DEF StoreInv, StoreBufsPartitioned, StoreInUse
    <3>2. QED
      BY <2>1, <2>2, <2>3, <2>4, <3>1
  <2>5. CASE b \notin Range(store_free_data_bufs)
    <3>1. \/ b \in Range(store_ready_bufs) \/ b \in StoreBufsOf(S!SpadBusy)
          \/ b \in store_dram_requests \/ b \in store_dram_written
      BY <2>5 DEF StoreInv, StoreBufsPartitioned, StoreInUse
    <3>2. /\ b \in Range(store_ready_bufs) =>
               /\ b \notin StoreBufsOf(S!SpadBusy)
               /\ b \notin store_dram_requests /\ b \notin store_dram_written
          /\ b \in StoreBufsOf(S!SpadBusy) =>
               b \notin store_dram_requests /\ b \notin store_dram_written
          /\ b \in store_dram_requests => b \notin store_dram_written
      BY DEF StoreInv, StoreBufsPartitioned
    <3>3. QED
      BY <2>1, <2>2, <2>3, <2>5, <3>1, <3>2
  <2>6. QED
    BY <2>4, <2>5
<1>2. ASSUME NEW c \in Credits
      PROVE  Cardinality({k \in DOMAIN store_free_spad_credits :
                            store_free_spad_credits[k] = c})
             + (IF c \in store_spad_requests THEN 1 ELSE 0)
             + (IF c \in store_spad_served THEN 1 ELSE 0) = 1
  <2>1. Cardinality({k \in DOMAIN store_free_spad_credits : store_free_spad_credits[k] = c})
          = IF c \in Range(store_free_spad_credits) THEN 1 ELSE 0
    BY CountInDistinct DEF StoreInv, StoreTypes
  <2>2. \/ /\ c \in Range(store_free_spad_credits)
           /\ c \notin store_spad_requests /\ c \notin store_spad_served
        \/ /\ c \notin Range(store_free_spad_credits)
           /\ c \in store_spad_requests /\ c \notin store_spad_served
        \/ /\ c \notin Range(store_free_spad_credits)
           /\ c \notin store_spad_requests /\ c \in store_spad_served
    BY DEF StoreInv, StoreCreditsPartitioned, S!SpadBusy
  <2>3. QED
    BY <2>1, <2>2
<1>3. QED
  BY <1>1, <1>2, StoreNames, StoreCardinality DEF S!PoolsConserved

LEMMA StoreRowsAccounted == StoreInv => S!RowsAccounted
<1> SUFFICES ASSUME StoreInv, NEW id \in Instrs
             PROVE  store_rows_remaining[id] = S!RowsUnread(id) + S!RowsBuffered(id)
  BY StoreNames DEF S!RowsAccounted
<1>1. store_rows_remaining[id] = Unread(id, mvout_instr_queue, mvout)
                                 + Cardinality(OfInstr(id, StoreInUse, store_dram_tag))
  BY DEF StoreInv, StoreAccounted, Accounted
<1>2. S!RowsUnread(id) = Unread(id, mvout_instr_queue, mvout)
  BY StoreRange DEF S!RowsUnread, Unread
<1>3. S!RowsBuffered(id) = Cardinality(OfInstr(id, StoreInUse, store_dram_tag))
  BY StoreRange, StoreCardinality DEF S!RowsBuffered, OfInstr, StoreInUse
<1>4. QED
  BY <1>1, <1>2, <1>3

(* No buffer and no credit of the store controller is lost or handed out   *)
(* twice, although a buffer's credit serves another row before the buffer  *)
(* is free, and it counts exactly the rows DRAM has not answered.          *)
THEOREM StoreAlwaysConserved == S!SafeSpec => []StoreConserved
<1>1. StoreInv => StoreConserved
  BY StorePoolsConserved, StoreRowsAccounted DEF StoreConserved
<1>2. QED
  BY <1>1, StoreInvariant, PTL
-----------------------------------------------------------------------------
(* The store controller copies tiles                                       *)
LEMMA StoreCopiesNames ==
  S!CopiesTiles!TileRows = TileRows /\ S!CopiesTiles!Instrs = Instrs
  BY DEF S!CopiesTiles!TileRows, S!CopiesTiles!Instrs, TileRows, Instrs

LEMMA StoreCopiesInitially == S!Init => S!CopiesTiles!Init
<1> SUFFICES ASSUME S!Init PROVE S!CopiesTiles!Init
  OBVIOUS
<1>1. {id \in Instrs : S!is_complete(id)} = {}
  BY TileRowIs DEF S!Init, S!is_complete
<1>2. QED
  BY <1>1, StoreNames, StoreCopiesNames DEF S!Init, S!CopiesTiles!Init

LEMMA StoreCopiesStep ==
  ASSUME StoreInv, StoreInv', [S!Next]_S!vars
  PROVE  [S!CopiesTiles!Next]_S!CopiesTiles!vars
<1> DEFINE completed == {id \in Instrs : S!is_complete(id)}
<1> USE StoreNames, StoreCopiesNames
<1>1. /\ store_rows_remaining \in [Instrs -> Nat] /\ store_rows_remaining' \in [Instrs -> Nat]
      /\ store_last_issued_id \in Nat
      /\ \A id \in Instrs : id \in Nat /\ Rows[id] # 0
  BY TileRowIs DEF StoreInv, StoreAccounted, Accounted
<1>2. CASE UNCHANGED <<store_rows_remaining, store_last_issued_id, dram>>
  BY <1>2 DEF S!CopiesTiles!vars, S!is_complete
<1>3. CASE S!Issue
  <2>1. /\ store_last_issued_id < N_INSTRS
        /\ store_last_issued_id' = store_last_issued_id + 1 /\ dram' = dram
        /\ store_rows_remaining' =
             [store_rows_remaining EXCEPT ![store_last_issued_id + 1] =
                Rows[store_last_issued_id + 1]]
    BY <1>3 DEF S!Issue, S!dramVars
  <2>2. store_last_issued_id + 1 \in Instrs
    BY <1>1, <2>1, InstrAssumption DEF Instrs
  <2>3. ASSUME NEW id \in Instrs PROVE S!is_complete(id)' <=> S!is_complete(id)
    <3>1. CASE id = store_last_issued_id + 1
      <4>1. store_rows_remaining'[id] # 0 /\ ~ (id <= store_last_issued_id)
        BY <1>1, <2>1, <3>1
      <4>2. QED
        BY <4>1 DEF S!is_complete
    <3>2. CASE id # store_last_issued_id + 1
      <4>1. store_rows_remaining'[id] = store_rows_remaining[id]
            /\ (id <= store_last_issued_id + 1 <=> id <= store_last_issued_id)
        BY <1>1, <2>1, <3>2
      <4>2. QED
        BY <2>1, <4>1 DEF S!is_complete
    <3>3. QED
      BY <3>1, <3>2
  <2>4. completed' = completed
    BY <2>3
  <2>5. S!CopiesTiles!Issue
    BY <2>1, <2>4 DEF S!CopiesTiles!Issue
  <2>6. QED
    BY <2>5 DEF S!CopiesTiles!Next
<1>4. ASSUME NEW b \in S!Bufs, S!DramAccess(b) PROVE S!CopiesTiles!Next
  <2>1. /\ b \in store_dram_requests
        /\ dram' = [dram EXCEPT ![store_dram_tag[b]] = store_row_buffers[b]]
        /\ UNCHANGED <<store_rows_remaining, store_last_issued_id>>
    BY <1>4 DEF S!DramAccess
  <2>2. /\ b \in StoreInUse /\ store_dram_tag[b] \in TileRows
        /\ store_row_buffers[b] = store_dram_tag[b]
    BY <2>1, StoreDramBuffer
  <2>3. b \notin store_dram_written
    BY <2>1 DEF StoreInv, StoreBufsPartitioned
  <2>4. store_dram_tag[b][1] <= store_last_issued_id /\ dram[store_dram_tag[b]] = NULL
    <3>1. /\ Accounted(mvout_instr_queue, store_rows_remaining, store_last_issued_id, mvout,
                       StoreInUse, store_dram_tag)
          /\ Copied(dram, mvout_instr_queue, store_last_issued_id, mvout, StorePending,
                    store_dram_tag)
      BY DEF StoreInv, StoreAccounted
    <3>2. StorePending \in SUBSET StoreInUse /\ b \in StorePending
      BY <2>2, <2>3 DEF StorePending
    <3>3. QED
      BY <2>2, <3>1, <3>2 DEF Accounted, Copied, WasRead
  <2>5. completed' = completed
    BY <2>1 DEF S!is_complete
  <2>6. dram' = [dram EXCEPT ![store_dram_tag[b]] = store_dram_tag[b]]
    BY <2>1, <2>2
  <2> PICK t : t = store_dram_tag[b]
    OBVIOUS
  <2>7. S!CopiesTiles!CopyRow(t)
    BY <2>1, <2>4, <2>5, <2>6 DEF S!CopiesTiles!CopyRow
  <2>8. QED
    BY <2>2, <2>7 DEF S!CopiesTiles!Next
<1>5. ASSUME NEW b \in S!Bufs, S!DramResponse(b)
      PROVE  [S!CopiesTiles!Next]_S!CopiesTiles!vars
  <2> PICK id : id = store_dram_tag[b][1]
    OBVIOUS
  <2>1. /\ b \in store_dram_written
        /\ store_rows_remaining' =
             [store_rows_remaining EXCEPT ![store_dram_tag[b][1]] = @ - 1]
        /\ UNCHANGED <<store_last_issued_id, dram>>
    BY <1>5 DEF S!DramResponse
  <2>2. b \in StoreInUse
    BY <2>1, StoreDramBuffer
  <2>3. id \in Instrs /\ id <= store_last_issued_id /\ store_rows_remaining[id] \in Nat \ {0}
    BY <2>2, AnswerAccounted DEF StoreInv, StoreAccounted
  <2>4. /\ store_rows_remaining'[id] = store_rows_remaining[id] - 1
        /\ \A i \in Instrs : i # id => store_rows_remaining'[i] = store_rows_remaining[i]
    BY <1>1, <2>1, <2>3
  <2>5. \A i \in Instrs : i # id => (S!is_complete(i)' <=> S!is_complete(i))
    BY <2>1, <2>4 DEF S!is_complete
  <2>6. ~ S!is_complete(id)
    BY <2>3 DEF S!is_complete
  <2>7. CASE store_rows_remaining'[id] = 0
    <3>1. S!is_complete(id)'
      BY <2>1, <2>3, <2>7 DEF S!is_complete
    <3>2. completed' = completed \cup {id} /\ id \notin completed
      BY <2>3, <2>5, <2>6, <3>1
    <3>3. \A t \in TileRows : t[1] = id => dram[t] # NULL
      <4>1. /\ Accounted(mvout_instr_queue', store_rows_remaining', store_last_issued_id',
                         mvout', StoreInUse', store_dram_tag')
            /\ Copied(dram', mvout_instr_queue', store_last_issued_id', mvout', StorePending',
                      store_dram_tag')
        BY DEF StoreInv, StoreAccounted
      <4>2. StorePending' \in SUBSET StoreInUse' /\ id <= store_last_issued_id'
        BY <2>1, <2>3 DEF StorePending
      <4>3. \A t \in TileRows : t[1] = id => dram'[t] # NULL
        BY <2>3, <2>7, <4>1, <4>2, CompleteCopied
      <4>4. QED
        BY <2>1, <4>3
    <3>4. id \notin completed /\ completed' = completed \cup {id}
      BY <3>2
    <3>5. S!CopiesTiles!Complete(id)
      BY <2>1, <2>3, <3>3, <3>4 DEF S!CopiesTiles!Complete
    <3>6. QED
      BY <2>3, <3>5 DEF S!CopiesTiles!Next
  <2>8. CASE store_rows_remaining'[id] # 0
    <3>1. ~ S!is_complete(id)'
      BY <2>8 DEF S!is_complete
    <3>2. completed' = completed
      BY <2>5, <2>6, <3>1
    <3>3. QED
      BY <2>1, <3>2 DEF S!CopiesTiles!vars
  <2>9. QED
    BY <2>7, <2>8
<1>6. CASE S!Dequeue \/ S!SpadReadThread \/ S!DramWriteThread
  BY <1>2, <1>6 DEF S!Dequeue, S!SpadReadThread, S!DramWriteThread, S!dramVars
<1>7. ASSUME NEW c \in Credits, S!SpadAccess(c) \/ S!SpadResponse(c)
      PROVE  UNCHANGED <<store_rows_remaining, store_last_issued_id, dram>>
  BY <1>7 DEF S!SpadAccess, S!SpadResponse, S!dramVars
<1>8. CASE UNCHANGED S!vars
  BY <1>2, <1>8 DEF S!vars, S!dramVars
<1>9. QED
  BY <1>2, <1>3, <1>4, <1>5, <1>6, <1>7, <1>8 DEF S!Next

(* The store controller implements the safety part of TileCopy: each row   *)
(* of an issued mvout reaches its place in DRAM once and uncorrupted by    *)
(* the reuse of its buffer, and is_complete holds only when all have.      *)
THEOREM StoreCopiesTiles == S!SafeSpec => S!CopiesTiles!SafeSpec
<1>1. StoreInv /\ StoreInv' /\ [S!Next]_S!vars => [S!CopiesTiles!Next]_S!CopiesTiles!vars
  BY StoreCopiesStep
<1>2. QED
  BY <1>1, StoreCopiesInitially, StoreInvariant, PTL DEF S!SafeSpec, S!CopiesTiles!SafeSpec
-----------------------------------------------------------------------------
(* The composed system                                                     *)

(* Whatever shares the scratchpad with it, a controller takes only its own *)
(* steps: every step of the system is one of it or leaves it alone.        *)
LEMMA SystemLoadStep ==
  ASSUME LoadInv, [SystemNext]_systemVars
  PROVE  [Next]_vars
<1> USE DEF loadVars
<1>1. spad_requests \subseteq Credits /\ spad_served \subseteq Credits
  BY DEF LoadInv, CreditsPartitioned, SpadBusy
<1>2. CASE IssueMvin \/ OfLoad(Dequeue) \/ OfLoad(BufFreed) \/ OfLoad(SpadWriteThread)
  BY <1>2 DEF IssueMvin, OfLoad, Next
<1>3. ASSUME NEW buf \in Bufs, OfLoad(DramResponse(buf)) PROVE Next
  BY <1>3 DEF OfLoad, Next
<1>4. ASSUME NEW b \in Banks, BankAccess(b) PROVE [Next]_vars
  <2>1. PICK c : SpadAccess(c) \/ UNCHANGED vars
    BY <1>4 DEF BankAccess
  <2>2. ASSUME SpadAccess(c) PROVE c \in Credits
    BY <1>1, <2>2 DEF SpadAccess
  <2>3. QED
    BY <2>1, <2>2 DEF Next
<1>5. ASSUME NEW b \in Banks, BankDone(b) PROVE [Next]_vars
  <2>1. PICK c : SpadResponse(c) \/ UNCHANGED vars
    BY <1>5 DEF BankDone
  <2>2. ASSUME SpadResponse(c) PROVE c \in Credits
    BY <1>1, <2>2 DEF SpadResponse
  <2>3. QED
    BY <2>1, <2>2 DEF Next
<1>6. ASSUME NEW b \in Banks, ForwardPending(b) PROVE UNCHANGED vars
  BY <1>6 DEF ForwardPending
<1>7. CASE Send
  BY <1>7 DEF Send
<1>8. CASE IssueMvout \/ OfStore(S!Dequeue) \/ OfStore(S!SpadReadThread)
             \/ OfStore(S!DramWriteThread)
  BY <1>8 DEF IssueMvout, OfStore
<1>9. ASSUME NEW buf \in S!Bufs, OfStore(S!DramAccess(buf)) \/ OfStore(S!DramResponse(buf))
      PROVE  UNCHANGED vars
  BY <1>9 DEF OfStore
<1>10. CASE UNCHANGED systemVars
  BY <1>10 DEF systemVars
<1>11. QED
  BY <1>2, <1>3, <1>4, <1>5, <1>6, <1>7, <1>8, <1>9, <1>10 DEF SystemNext

LEMMA StoreVars == UNCHANGED storeVars <=> UNCHANGED S!vars
  BY DEF storeVars, S!vars, S!poolVars, S!eventVars, S!spadVars, S!dramVars

LEMMA SystemStoreStep ==
  ASSUME StoreInv, [SystemNext]_systemVars
  PROVE  [S!Next]_S!vars
<1> USE StoreNames
<1>1. store_spad_requests \subseteq Credits /\ store_spad_served \subseteq Credits
  BY DEF StoreInv, StoreCreditsPartitioned, S!SpadBusy
<1>2. CASE IssueMvout \/ OfStore(S!Dequeue) \/ OfStore(S!SpadReadThread)
             \/ OfStore(S!DramWriteThread)
  BY <1>2 DEF IssueMvout, OfStore, S!Next
<1>3. ASSUME NEW buf \in S!Bufs, OfStore(S!DramAccess(buf)) \/ OfStore(S!DramResponse(buf))
      PROVE  S!Next
  BY <1>3 DEF OfStore, S!Next
<1>4. ASSUME NEW b \in Banks, BankAccess(b) PROVE [S!Next]_S!vars
  <2>1. PICK c : S!SpadAccess(c) \/ UNCHANGED storeVars
    BY <1>4 DEF BankAccess
  <2>2. ASSUME S!SpadAccess(c) PROVE c \in Credits
    BY <1>1, <2>2 DEF S!SpadAccess
  <2>3. QED
    BY <2>1, <2>2, StoreVars DEF S!Next
<1>5. ASSUME NEW b \in Banks, BankDone(b) PROVE [S!Next]_S!vars
  <2>1. PICK c : S!SpadResponse(c) \/ UNCHANGED storeVars
    BY <1>5 DEF BankDone
  <2>2. ASSUME S!SpadResponse(c) PROVE c \in Credits
    BY <1>1, <2>2 DEF S!SpadResponse
  <2>3. QED
    BY <2>1, <2>2, StoreVars DEF S!Next
<1>6. ASSUME NEW b \in Banks, ForwardPending(b) PROVE UNCHANGED storeVars
  BY <1>6 DEF ForwardPending
<1>7. CASE Send
  BY <1>7, StoreVars DEF Send
<1>8. CASE IssueMvin \/ OfLoad(Dequeue) \/ OfLoad(BufFreed) \/ OfLoad(SpadWriteThread)
  BY <1>8, StoreVars DEF IssueMvin, OfLoad
<1>9. ASSUME NEW buf \in Bufs, OfLoad(DramResponse(buf)) PROVE UNCHANGED storeVars
  BY <1>9 DEF OfLoad
<1>10. CASE UNCHANGED systemVars
  BY <1>10, StoreVars DEF systemVars
<1>11. QED
  BY <1>2, <1>3, <1>4, <1>5, <1>6, <1>7, <1>8, <1>9, <1>10, StoreVars DEF SystemNext

THEOREM SystemInvariant == SystemSpec => [](LoadInv /\ StoreInv)
<1>1. SystemInit => LoadInv /\ StoreInv
  BY LoadInitially, StoreInitially DEF SystemInit
<1>2. LoadInv /\ StoreInv /\ [SystemNext]_systemVars => LoadInv' /\ StoreInv'
  BY SystemLoadStep, SystemStoreStep, LoadStep, StoreStep
<1>3. QED
  BY <1>1, <1>2, PTL DEF SystemSpec

(* On one scratchpad each controller behaves as it does alone, with the    *)
(* banks' answers among those it allows.                                   *)
THEOREM SystemControllers == SystemSpec => SafeSpec /\ S!SafeSpec
<1>1. SystemInit => Init /\ S!Init
  BY DEF SystemInit
<1>2. LoadInv /\ StoreInv /\ [SystemNext]_systemVars => [Next]_vars /\ [S!Next]_S!vars
  BY SystemLoadStep, SystemStoreStep
<1>3. QED
  BY <1>1, <1>2, SystemInvariant, PTL DEF SystemSpec, SafeSpec, S!SafeSpec

(* On one scratchpad, too, no buffer and no credit of the load controller  *)
(* is lost or handed out twice, ...                                        *)
THEOREM SystemPoolsConserved == SystemSpec => []PoolsConserved
  BY SystemControllers, LoadPoolsConserved, PTL

(* ... its rows_remaining counts exactly the rows without an answer, ...   *)
THEOREM SystemRowsAccounted == SystemSpec => []RowsAccounted
  BY SystemControllers, LoadRowsAccounted, PTL

(* ... both hold of the store controller, ...                              *)
THEOREM SystemStoreConserved == SystemSpec => []StoreConserved
  BY SystemControllers, StoreAlwaysConserved, PTL

(* ... and both copy tiles as TileCopy says, but for its liveness.         *)
THEOREM SystemCopiesTiles == SystemSpec => CopiesTiles!SafeSpec /\ S!CopiesTiles!SafeSpec
  BY SystemControllers, LoadCopiesTiles, StoreCopiesTiles, PTL
-----------------------------------------------------------------------------
(* The places of the rows                                                  *)

(* A flat address is its two fields. *)
LEMMA FieldsOfFlat ==
  ASSUME NEW x \in FlatAddrs
  PROVE  /\ BankOf(x) \in Banks /\ RowOffsetOf(x) \in RowOffsets
         /\ ToFlat(RowOffsetOf(x), BankOf(x)) = x
<1> DEFINE q == x \div N_BANKS
           r == x % N_BANKS
<1>1. /\ x \in Nat /\ N_BANKS \in Nat \ {0} /\ N_ROWS_PER_BANK \in Nat \ {0}
      /\ N_BANKS * N_ROWS_PER_BANK \in Nat /\ x < N_BANKS * N_ROWS_PER_BANK
  BY BankCountAssumption, RowCountAssumption, Z3 DEF FlatAddrs
<1>2. q \in Nat /\ r \in 0 .. N_BANKS - 1 /\ x = q * N_BANKS + r
  BY <1>1, Z3
<1> HIDE DEF q, r
<1>3. q < N_ROWS_PER_BANK
  <2> SUFFICES ASSUME N_ROWS_PER_BANK <= q PROVE FALSE
    BY <1>1, <1>2
  <2>1. PICK k \in Nat : q = N_ROWS_PER_BANK + k
    <3>1. q - N_ROWS_PER_BANK \in Nat /\ q = N_ROWS_PER_BANK + (q - N_ROWS_PER_BANK)
      BY <1>1, <1>2
    <3>2. QED
      BY <3>1
  <2>2. q * N_BANKS = N_BANKS * N_ROWS_PER_BANK + k * N_BANKS /\ k * N_BANKS \in Nat
    BY <1>1, <2>1, Z3
  <2>3. QED
    BY <1>1, <1>2, <2>2
<1>4. q % N_ROWS_PER_BANK = q
  BY <1>1, <1>2, <1>3
<1>5. BankOf(x) = r /\ RowOffsetOf(x) = q
  BY <1>4 DEF BankOf, RowOffsetOf, q, r
<1>6. QED
  BY <1>1, <1>2, <1>3, <1>5 DEF Banks, RowOffsets, ToFlat

(* The rows of a tile lie in the scratchpad, each at an address of its own. *)
LEMMA RowAddress ==
  ASSUME NEW t \in TileRows
  PROVE  /\ AddrOf(t) \in FlatAddrs /\ AddrOf(t) \in Places(t[1])
         /\ AddrOf(t) = spad_addr[t[1]] + t[2] * spad_stride[t[1]]
<1> DEFINE first == spad_addr[t[1]]
           stride == spad_stride[t[1]]
           rows == Rows[t[1]]
           place == first + t[2] * stride
<1>1. /\ t[1] \in Instrs /\ t[2] \in 0 .. rows - 1 /\ t = <<t[1], t[2]>>
      /\ rows \in Nat \ {0}
  BY TileRowIs
<1>2. first \in Nat /\ stride \in Nat \ {0} /\ first + (rows - 1) * stride \in FlatAddrs
  BY <1>1, AddrAssumption, StrideAssumption, TileAssumption DEF FlatAddrs
<1>3. /\ t[2] * stride \in Nat /\ (rows - 1) * stride \in Nat
      /\ t[2] * stride <= (rows - 1) * stride
  <2> PICK k, n, s : k = t[2] /\ n = rows - 1 - t[2] /\ s = stride
    OBVIOUS
  <2>1. k \in Nat /\ n \in Nat /\ s \in Nat /\ rows - 1 = k + n
    BY <1>1, <1>2
  <2>2. k * s \in Nat /\ n * s \in Nat /\ (k + n) * s = k * s + n * s
    BY <2>1, Z3
  <2>3. t[2] * stride = k * s /\ (rows - 1) * stride = (k + n) * s
    BY <2>1
  <2>4. QED
    BY <2>2, <2>3
<1>4. place \in FlatAddrs
  <2>1. N_BANKS * N_ROWS_PER_BANK \in Nat
    BY BankCountAssumption, RowCountAssumption, Z3
  <2> PICK p, q, n : p = t[2] * stride /\ q = (rows - 1) * stride
                     /\ n = N_BANKS * N_ROWS_PER_BANK
    OBVIOUS
  <2>2. /\ first \in Nat /\ p \in Nat /\ q \in Nat /\ n \in Nat /\ p <= q
        /\ first + q \in 0 .. n - 1
    BY <1>2, <1>3, <2>1 DEF FlatAddrs
  <2>3. first + p \in 0 .. n - 1
    BY <2>2
  <2>4. QED
    BY <2>3 DEF FlatAddrs
<1>5. AddrOf(t) = place
  BY <1>4, FieldsOfFlat DEF AddrOf, FlatPlus
<1>6. AddrOf(t) \in Places(t[1])
  BY <1>1 DEF Places
<1>7. QED
  BY <1>4, <1>5, <1>6

LEMMA RowsApart ==
  ASSUME NEW t \in TileRows, NEW u \in TileRows, t[1] = u[1], AddrOf(t) = AddrOf(u)
  PROVE  t = u
<1> DEFINE first == spad_addr[t[1]]
           stride == spad_stride[t[1]]
<1>1. /\ t[1] \in Instrs /\ t = <<t[1], t[2]>> /\ u = <<u[1], u[2]>>
      /\ t[2] \in Nat /\ u[2] \in Nat
  BY TileRowIs
<1>2. first \in Nat /\ stride \in Nat \ {0}
  BY <1>1, AddrAssumption, StrideAssumption DEF FlatAddrs
<1>3. first + t[2] * stride = first + u[2] * stride
  BY RowAddress
<1>4. t[2] = u[2]
  <2> PICK k, n, s, f : k = t[2] /\ n = u[2] /\ s = stride /\ f = first
    OBVIOUS
  <2>1. k \in Nat /\ n \in Nat /\ s \in Nat \ {0} /\ f \in Nat /\ f + k * s = f + n * s
    BY <1>1, <1>2, <1>3
  <2>2. \A i, j \in Nat : i < j => i * s < j * s /\ i * s \in Nat /\ j * s \in Nat
    <3> SUFFICES ASSUME NEW i \in Nat, NEW j \in Nat, i < j
                 PROVE  i * s < j * s /\ i * s \in Nat /\ j * s \in Nat
      OBVIOUS
    <3>1. PICK d \in Nat : j = i + 1 + d
      <4>1. j - i - 1 \in Nat /\ j = i + 1 + (j - i - 1)
        OBVIOUS
      <4>2. QED
        BY <4>1
    <3>2. j * s = i * s + s + d * s /\ i * s \in Nat /\ d * s \in Nat /\ j * s \in Nat
      BY <2>1, <3>1, Z3
    <3>3. QED
      BY <2>1, <3>2
  <2>3. ~ (k < n) /\ ~ (n < k)
    BY <2>1, <2>2
  <2>4. QED
    BY <2>1, <2>3
<1>5. QED
  BY <1>1, <1>4
-----------------------------------------------------------------------------
(* The arbiter in the system                                               *)

(* Arbiter, with what was proved of it *)
Proved == INSTANCE MemoryArbiter_proofs WITH
  N_INITIATORS <- 2,
  Payloads <- {load, store} \X Credits,
  Owner    <- [p \in {load, store} \X Credits |-> p[1]],
  Command  <- [p \in {load, store} \X Credits |-> IF p[1] = load THEN "write" ELSE "read"],
  Values   <- TileRows \cup {ZeroRow},
  spad     <- mem

Sockets == {load, store} \X Credits

(* What its proofs assume of its initiators holds of the two controllers.  *)
LEMMA ArbiterAssumptions ==
  /\ Proved!BankCountAssumption /\ Proved!RowCountAssumption
  /\ Proved!InitiatorAssumption /\ Proved!OwnerAssumption /\ Proved!CommandAssumption
  /\ Proved!ValuesAssumption /\ Proved!NullAssumption
<1>1. Proved!BankCountAssumption /\ Proved!RowCountAssumption
  BY BankCountAssumption, RowCountAssumption
     DEF Proved!BankCountAssumption, Proved!RowCountAssumption
<1>2. Proved!InitiatorAssumption
  BY DEF Proved!InitiatorAssumption
<1>3. Proved!OwnerAssumption
  <2>1. \A p \in {load, store} \X Credits : p[1] \in 0 .. 1
    BY DEF load, store
  <2>2. QED
    BY <2>1 DEF Proved!OwnerAssumption, Proved!Initiators
<1>4. Proved!CommandAssumption /\ Proved!ValuesAssumption
  BY DEF Proved!CommandAssumption, Proved!ValuesAssumption
<1>5. Proved!NullAssumption
  BY PayloadAssumption DEF Proved!NullAssumption
<1>6. QED
  BY <1>1, <1>2, <1>3, <1>4, <1>5

ArbiterInv == Proved!HandshakeInv /\ Proved!HeldInv

(* The request of credit c is at the arbiter as spad_tag[c] has it.        *)
LoadRequest(c) ==
  /\ payload[<<load, c>>].address = AddrOf(spad_tag[c].row)
  /\ payload[<<load, c>>].data = spad_tag[c].row

StoreRequest(c) == payload[<<store, c>>].address = AddrOf(store_spad_tag[c].row)

(* A thread's requests are at the arbiter, but for those it is sending.    *)
SentInv ==
  /\ sending \in Seq(Sockets)
  /\ \A p \in Range(sending) : /\ p[1] = load => p[2] \in spad_requests
                               /\ p[1] = store => p[2] \in store_spad_requests
  /\ \A c \in spad_requests : <<load, c>> \in Range(sending) \/ LoadRequest(c)
  /\ \A c \in store_spad_requests : <<store, c>> \in Range(sending) \/ StoreRequest(c)

LEMMA ArbiterTypes ==
  ASSUME Proved!HandshakeInv
  PROVE  /\ payload \in [Sockets -> [address : FlatAddrs, data : TileRows \cup {ZeroRow}]]
         /\ mem \in [Banks -> [RowOffsets -> TileRows \cup {ZeroRow}]]
  BY DEF Proved!HandshakeInv, Proved!TypeOK, Proved!FlatAddrs, Proved!Banks,
         Proved!RowOffsets, Sockets, FlatAddrs, Banks, RowOffsets

(* What sending the next request does *)
LEMMA SendEffect ==
  ASSUME LoadInv, StoreInv, ArbiterInv, SentInv, Send
  PROVE  \E c \in Credits, v \in TileRows \cup {ZeroRow} :
           /\ \/ /\ Head(sending) = <<load, c>> /\ c \in spad_requests
                 /\ v = spad_tag[c].row
                 /\ Arbiter!Request(load, <<load, c>>, AddrOf(spad_tag[c].row), v)
                 /\ spad_tag[c].row \in TileRows
              \/ /\ Head(sending) = <<store, c>> /\ c \in store_spad_requests
                 /\ v = payload[<<store, c>>].data
                 /\ Arbiter!Request(store, <<store, c>>, AddrOf(store_spad_tag[c].row), v)
                 /\ store_spad_tag[c].row \in TileRows
<1>1. /\ sending # << >> /\ sending \in Seq(Sockets) /\ Head(sending) \in Sockets
      /\ Head(sending) \in Range(sending)
  <2>1. sending # << >> /\ sending \in Seq(Sockets)
    BY DEF Send, SentInv
  <2>2. Head(sending) = sending[1] /\ Head(sending) \in Sockets /\ 1 \in 1 .. Len(sending)
    BY <2>1, HeadTailProperties, EmptySeq
  <2>3. QED
    BY <2>1, <2>2, RangeElements
<1>2. PICK p \in Sockets : p = Head(sending)
  BY <1>1
<1>3. PICK c \in Credits : p = <<load, c>> \/ p = <<store, c>>
  BY DEF Sockets
<1>4. p[2] = c /\ (p[1] = load <=> p = <<load, c>>) /\ (p[1] = store <=> p = <<store, c>>)
      /\ load # store
  BY <1>3 DEF load, store
<1>5. CASE p = <<load, c>>
  <2>1. c \in spad_requests
    BY <1>1, <1>2, <1>4, <1>5 DEF SentInv
  <2>2. /\ spad_tag[c].row \in TileRows
        /\ row_buffers[spad_tag[c].buf] = spad_tag[c].row
    BY <2>1, BusyBuffer, ZenonT(40) DEF SpadBusy
  <2>3. Arbiter!Request(load, p, AddrOf(spad_tag[c].row), row_buffers[spad_tag[c].buf])
    BY <1>2, <1>4, <1>5 DEF Send
  <2>4. QED
    BY <1>2, <1>5, <2>1, <2>2, <2>3
<1>6. CASE p = <<store, c>>
  <2>1. c \in store_spad_requests
    BY <1>1, <1>2, <1>4, <1>6 DEF SentInv
  <2>2. store_spad_tag[c].row \in TileRows
    BY <2>1, StoreBusyBuffer DEF S!SpadBusy
  <2>3. Arbiter!Request(store, p, AddrOf(store_spad_tag[c].row), payload[p].data)
    BY <1>2, <1>4, <1>6 DEF Send
  <2>4. payload[p].data \in TileRows \cup {ZeroRow}
    BY ArbiterTypes DEF ArbiterInv
  <2>5. QED
    BY <1>2, <1>6, <2>1, <2>2, <2>3, <2>4
<1>7. QED
  BY <1>3, <1>5, <1>6

LEMMA ArbiterSame ==
  /\ \A i, p, a, v : Arbiter!Request(i, p, a, v) <=> Proved!Request(i, p, a, v)
  /\ \A b : /\ Arbiter!BankAccess(b) <=> Proved!BankAccess(b)
            /\ Arbiter!BankDone(b) <=> Proved!BankDone(b)
            /\ Arbiter!ForwardPending(b) <=> Proved!ForwardPending(b)
  /\ UNCHANGED arbiterVars <=> UNCHANGED Proved!vars
  /\ Arbiter!Init <=> Proved!Init
<1>1. \A i, p, a, v : Arbiter!Request(i, p, a, v) <=> Proved!Request(i, p, a, v)
  BY DEF Arbiter!Request, Proved!Request, Arbiter!RequestQueued, Proved!RequestQueued,
         Arbiter!RequestForwarded, Proved!RequestForwarded, Arbiter!MustQueue,
         Proved!MustQueue, Arbiter!Forward, Proved!Forward, Arbiter!BankBeginReq,
         Proved!BankBeginReq, Arbiter!BankOf, Proved!BankOf
<1>2. \A b : Arbiter!BankAccess(b) <=> Proved!BankAccess(b)
  BY DEF Arbiter!BankAccess, Proved!BankAccess, Arbiter!arbiterVars, Proved!arbiterVars,
         Arbiter!RowOffsetOf, Proved!RowOffsetOf
<1>3. \A b : Arbiter!BankDone(b) <=> Proved!BankDone(b)
  BY DEF Arbiter!BankDone, Proved!BankDone, Arbiter!BankResponse, Proved!BankResponse
<1>4. \A b : Arbiter!ForwardPending(b) <=> Proved!ForwardPending(b)
  BY DEF Arbiter!ForwardPending, Proved!ForwardPending, Arbiter!Forward, Proved!Forward,
         Arbiter!BankBeginReq, Proved!BankBeginReq
<1>5. UNCHANGED arbiterVars <=> UNCHANGED Proved!vars
  BY DEF arbiterVars, Proved!vars, Proved!arbiterVars, Proved!bankVars
<1>6. Arbiter!Init <=> Proved!Init
  BY DEF Arbiter!Init, Proved!Init, Arbiter!Banks, Proved!Banks,
         Arbiter!RowOffsets, Proved!RowOffsets
<1>7. QED
  BY <1>1, <1>2, <1>3, <1>4, <1>5, <1>6

(* The controllers are initiators as MemoryArbiter has them.               *)
LEMMA SystemArbiterStep ==
  ASSUME LoadInv, StoreInv, ArbiterInv, SentInv, [SystemNext]_systemVars
  PROVE  [Proved!Next]_Proved!vars
<1> USE ArbiterSame
<1>1. CASE Send
  <2>1. PICK c \in Credits, v \in TileRows \cup {ZeroRow} :
           \/ /\ Arbiter!Request(load, <<load, c>>, AddrOf(spad_tag[c].row), v)
              /\ spad_tag[c].row \in TileRows
           \/ /\ Arbiter!Request(store, <<store, c>>, AddrOf(store_spad_tag[c].row), v)
              /\ store_spad_tag[c].row \in TileRows
    BY <1>1, SendEffect
  <2>2. PICK i \in {load, store}, a \in FlatAddrs : Arbiter!Request(i, <<i, c>>, a, v)
    BY <2>1, RowAddress
  <2>3. /\ i \in Proved!Initiators /\ <<i, c>> \in {load, store} \X Credits
        /\ a \in Proved!FlatAddrs
    BY DEF Proved!Initiators, load, store, Proved!FlatAddrs, FlatAddrs
  <2>4. Proved!Request(i, <<i, c>>, a, v)
    BY <2>2
  <2>5. QED
    BY <2>3, <2>4 DEF Proved!Next
<1>2. ASSUME NEW b \in Banks, BankAccess(b) \/ BankDone(b) \/ ForwardPending(b)
      PROVE  Proved!Next
  <2>1. Proved!BankStep(b)
    BY <1>2 DEF BankAccess, BankDone, ForwardPending, Proved!BankStep
  <2>2. b \in Proved!Banks
    BY DEF Banks, Proved!Banks
  <2>3. QED
    BY <2>1, <2>2 DEF Proved!Next
<1>3. CASE IssueMvin \/ OfLoad(Dequeue) \/ OfLoad(BufFreed) \/ OfLoad(SpadWriteThread)
  BY <1>3 DEF IssueMvin, OfLoad
<1>4. ASSUME NEW buf \in Bufs, OfLoad(DramResponse(buf)) PROVE UNCHANGED arbiterVars
  BY <1>4 DEF OfLoad
<1>5. CASE IssueMvout \/ OfStore(S!Dequeue) \/ OfStore(S!SpadReadThread)
             \/ OfStore(S!DramWriteThread)
  BY <1>5 DEF IssueMvout, OfStore
<1>6. ASSUME NEW buf \in S!Bufs, OfStore(S!DramAccess(buf)) \/ OfStore(S!DramResponse(buf))
      PROVE  UNCHANGED arbiterVars
  BY <1>6 DEF OfStore
<1>7. CASE UNCHANGED systemVars
  BY <1>7 DEF systemVars
<1>8. QED
  BY <1>1, <1>2, <1>3, <1>4, <1>5, <1>6, <1>7 DEF SystemNext

LEMMA ArbiterInitially == SystemInit => ArbiterInv
<1>1. SystemInit => Proved!Init
  BY ArbiterSame DEF SystemInit
<1>2. Proved!Init => Proved!HandshakeInv /\ Proved!HeldInv
  BY ArbiterAssumptions, Proved!InitHandshake, Proved!InitHeld
<1>3. QED
  BY <1>1, <1>2 DEF ArbiterInv

LEMMA ArbiterKeeps ==
  ASSUME LoadInv, StoreInv, ArbiterInv, SentInv, [SystemNext]_systemVars
  PROVE  ArbiterInv'
<1>1. [Proved!Next]_Proved!vars
  BY SystemArbiterStep
<1>2. Proved!HandshakeInv'
  BY <1>1, ArbiterAssumptions, Proved!HandshakeInductive DEF ArbiterInv
<1>3. Proved!HeldInv'
  BY <1>1, <1>2, ArbiterAssumptions, Proved!HeldInductive DEF ArbiterInv
<1>4. QED
  BY <1>2, <1>3 DEF ArbiterInv
-----------------------------------------------------------------------------
(* The requests of the running thread                                      *)

(* The requests for the n credits that a thread took                       *)
LEMMA TakenCredits ==
  ASSUME NEW i \in {load, store}, NEW s \in Seq(Credits), NEW n \in Nat, n <= Len(s),
         NEW t, Len(t) = Len(s) - n,
         NEW r, r = [k \in 1 .. Len(s) - Len(t) |-> <<i, s[k]>>]
  PROVE  r \in Seq(Sockets) /\ Range(r) = {<<i, c>> : c \in Front(s, n)}
<1>1. Len(s) \in Nat /\ \A k \in 1 .. Len(s) : s[k] \in Credits
  BY RangeElements
<1>2. Len(s) - Len(t) = n
  BY <1>1
<1>3. r = [k \in 1 .. n |-> <<i, s[k]>>] /\ \A k \in 1 .. n : <<i, s[k]>> \in Sockets
  BY <1>1, <1>2 DEF Sockets
<1>4. r \in Seq(Sockets)
  BY <1>3, SeqDef
<1>5. Range(r) = {<<i, c>> : c \in Front(s, n)}
  <2>1. Range(r) = {<<i, s[k]>> : k \in 1 .. n}
    BY <1>3 DEF Range
  <2>2. {<<i, s[k]>> : k \in 1 .. n} = {<<i, c>> : c \in Front(s, n)}
    BY Zenon DEF Front
  <2>3. QED
    BY <2>1, <2>2
<1>6. QED
  BY <1>4, <1>5

LEMMA RestLength ==
  ASSUME NEW set, NEW s \in Seq(set), NEW n \in Nat, n <= Len(s)
  PROVE  Len(Rest(s, n)) = Len(s) - n
<1>1. Len(s) \in Nat /\ \A k \in n + 1 .. Len(s) : s[k] \in set
  BY RangeElements
<1>2. Len(Rest(s, n)) = IF n + 1 <= Len(s) THEN Len(s) - (n + 1) + 1 ELSE 0
  BY <1>1, SubSeqProperties DEF Rest
<1>3. QED
  BY <1>1, <1>2

LEMMA NothingSent == sending = << >> => Range(sending) = {}
  BY EmptyPool

LEMMA LoadTakes ==
  ASSUME SentInv, sending = << >>, NEW new,
         sending' \in Seq(Sockets), Range(sending') = {<<load, c>> : c \in new},
         spad_requests' = spad_requests \cup new,
         \A c \in spad_requests \ new : spad_tag'[c] = spad_tag[c],
         UNCHANGED <<payload, store_spad_requests, store_spad_tag>>
  PROVE  SentInv'
<1>1. \A p \in Range(sending') : /\ p[1] = load => p[2] \in spad_requests'
                                 /\ p[1] = store => p[2] \in store_spad_requests'
  BY DEF load, store
<1>2. ASSUME NEW c \in spad_requests' PROVE <<load, c>> \in Range(sending') \/ LoadRequest(c)'
  BY <1>2, NothingSent DEF SentInv, LoadRequest
<1>3. ASSUME NEW c \in store_spad_requests' PROVE StoreRequest(c)'
  BY <1>3, NothingSent DEF SentInv, StoreRequest
<1>4. QED
  BY <1>1, <1>2, <1>3 DEF SentInv

LEMMA StoreTakes ==
  ASSUME SentInv, sending = << >>, NEW new,
         sending' \in Seq(Sockets), Range(sending') = {<<store, c>> : c \in new},
         store_spad_requests' = store_spad_requests \cup new,
         \A c \in store_spad_requests \ new : store_spad_tag'[c] = store_spad_tag[c],
         UNCHANGED <<payload, spad_requests, spad_tag>>
  PROVE  SentInv'
<1>1. \A p \in Range(sending') : /\ p[1] = load => p[2] \in spad_requests'
                                 /\ p[1] = store => p[2] \in store_spad_requests'
  BY DEF load, store
<1>2. ASSUME NEW c \in store_spad_requests'
      PROVE  <<store, c>> \in Range(sending') \/ StoreRequest(c)'
  BY <1>2, NothingSent DEF SentInv, StoreRequest
<1>3. ASSUME NEW c \in spad_requests' PROVE LoadRequest(c)'
  BY <1>3, NothingSent DEF SentInv, LoadRequest
<1>4. QED
  BY <1>1, <1>2, <1>3 DEF SentInv

(* A step of a controller that sends nothing *)
LEMMA LoadTakesNothing ==
  ASSUME LoadInv, SentInv, sending = << >>, sending' = Taken(load, free_spad_credits),
         UNCHANGED <<free_spad_credits, spad_requests, spad_tag,
                     payload, store_spad_requests, store_spad_tag>>
  PROVE  SentInv'
<1>1. free_spad_credits \in Seq(Credits) /\ Len(free_spad_credits) \in Nat
  BY RangeElements DEF LoadInv, LoadTypes
<1>2. sending' \in Seq(Sockets) /\ Range(sending') = {<<load, c>> : c \in Front(free_spad_credits, 0)}
  <2>1. Len(free_spad_credits') = Len(free_spad_credits) - 0 /\ 0 <= Len(free_spad_credits)
    BY <1>1
  <2>2. QED
    BY <1>1, <2>1, TakenCredits DEF Taken
<1>3. Front(free_spad_credits, 0) = {}
  BY DEF Front
<1>4. QED
  BY <1>2, <1>3, LoadTakes

LEMMA StoreTakesNothing ==
  ASSUME StoreInv, SentInv, sending = << >>, sending' = Taken(store, store_free_spad_credits),
         UNCHANGED <<store_free_spad_credits, store_spad_requests, store_spad_tag,
                     payload, spad_requests, spad_tag>>
  PROVE  SentInv'
<1>1. store_free_spad_credits \in Seq(Credits) /\ Len(store_free_spad_credits) \in Nat
  BY RangeElements DEF StoreInv, StoreTypes
<1>2. /\ sending' \in Seq(Sockets)
      /\ Range(sending') = {<<store, c>> : c \in Front(store_free_spad_credits, 0)}
  <2>1. /\ Len(store_free_spad_credits') = Len(store_free_spad_credits) - 0
        /\ 0 <= Len(store_free_spad_credits)
    BY <1>1
  <2>2. QED
    BY <1>1, <2>1, TakenCredits DEF Taken
<1>3. Front(store_free_spad_credits, 0) = {}
  BY DEF Front
<1>4. QED
  BY <1>2, <1>3, StoreTakes

(* The thread that takes credits takes the front n of its pool.            *)
LoadSends(n) ==
  /\ n \in Nat /\ n <= Len(free_spad_credits)
  /\ Len(free_spad_credits') = Len(free_spad_credits) - n
  /\ spad_requests' = spad_requests \cup Front(free_spad_credits, n)
  /\ \A c \in Credits \ Front(free_spad_credits, n) : spad_tag'[c] = spad_tag[c]

StoreSends(n) ==
  /\ n \in Nat /\ n <= Len(store_free_spad_credits)
  /\ Len(store_free_spad_credits') = Len(store_free_spad_credits) - n
  /\ store_spad_requests' = store_spad_requests \cup Front(store_free_spad_credits, n)
  /\ \A c \in Credits \ Front(store_free_spad_credits, n) :
       store_spad_tag'[c] = store_spad_tag[c]

LEMMA SpadWriteThreadSends ==
  ASSUME LoadInv, SpadWriteThread
  PROVE  \E n : LoadSends(n)
<1>1. free_spad_credits \in Seq(Credits)
  BY DEF LoadInv, LoadTypes
<1>2. PICK n \in Nat : WritesRows(n)
  BY WriteRowsEffect DEF SpadWriteThread
<1>3. Len(free_spad_credits') = Len(free_spad_credits) - n
  BY <1>1, <1>2, RestLength DEF WritesRows
<1>4. LoadSends(n)
  BY <1>2, <1>3 DEF WritesRows, LoadSends
<1>5. QED
  BY <1>4

LEMMA StoreReadRowsSends ==
  ASSUME StoreInv, NEW id, NEW first, <<id, first>> \in TileRows, S!ReadRows(id, first)
  PROVE  \E n : StoreSends(n)
<1>1. store_free_spad_credits \in Seq(Credits)
  BY DEF StoreInv, StoreTypes
<1>2. PICK n \in Nat : StoreTakesRows(id, first, n)
  BY StoreReadRowsEffect DEF StoreInv
<1>3. Len(store_free_spad_credits') = Len(store_free_spad_credits) - n
  BY <1>1, <1>2, RestLength DEF StoreTakesRows
<1>4. StoreSends(n)
  BY <1>2, <1>3 DEF StoreTakesRows, StoreSends
<1>5. QED
  BY <1>4

LEMMA SpadReadThreadSends ==
  ASSUME StoreInv, S!Dequeue \/ S!SpadReadThread
  PROVE  \E n : StoreSends(n)
<1>1. CASE S!Dequeue
  <2> PICK id : id = Head(mvout_instr_queue)
    OBVIOUS
  <2>1. /\ mvout_instr_queue \in Seq(Instrs) /\ mvout_instr_queue # << >>
        /\ S!ReadRows(id, 0)
    BY <1>1 DEF S!Dequeue, StoreInv, StoreAccounted, Accounted
  <2>2. id \in Instrs
    BY <2>1, HeadTailProperties
  <2>3. 0 \in 0 .. Rows[id] - 1
    BY <2>2, TileRowIs
  <2>4. <<id, 0>> \in TileRows
    BY <2>2, <2>3, TileRowIs
  <2>5. QED
    BY <2>1, <2>4, StoreReadRowsSends
<1>2. CASE S!SpadReadThread /\ mvout # NULL
  <2>1. <<mvout[1], mvout[2]>> \in TileRows
    BY <1>2, TileRowIs DEF StoreInv, StoreAccounted, Accounted
  <2>2. S!ReadRows(mvout[1], mvout[2])
    BY <1>2 DEF S!SpadReadThread
  <2>3. QED
    BY <2>1, <2>2, StoreReadRowsSends
<1>3. CASE S!SpadReadThread /\ mvout = NULL
  <2>1. UNCHANGED <<store_free_spad_credits, store_spad_tag, store_spad_requests>>
    BY <1>3 DEF S!SpadReadThread
  <2>2. Len(store_free_spad_credits) \in Nat
    BY RangeElements DEF StoreInv, StoreTypes
  <2>3. StoreSends(0)
    BY <2>1, <2>2 DEF StoreSends, Front
  <2>4. QED
    BY <2>3
<1>4. QED
  BY <1>1, <1>2, <1>3

LEMMA SendKeepsSent ==
  ASSUME LoadInv, StoreInv, ArbiterInv, SentInv, Send
  PROVE  SentInv'
<1>1. /\ sending # << >> /\ sending \in Seq(Sockets) /\ sending' = Tail(sending)
      /\ UNCHANGED <<spad_requests, spad_tag, store_spad_requests, store_spad_tag>>
  BY DEF Send, SentInv, loadVars, vars, spadVars, storeVars
<1>2. /\ sending' \in Seq(Sockets)
      /\ \A p \in Range(sending') : p \in Range(sending)
      /\ \A p \in Range(sending) : p = Head(sending) \/ p \in Range(sending')
  <2>1. /\ Len(sending) \in Nat /\ Tail(sending) \in Seq(Sockets)
        /\ Len(Tail(sending)) = Len(sending) - 1 /\ Head(sending) = sending[1]
        /\ \A k \in 1 .. Len(Tail(sending)) : Tail(sending)[k] = sending[k + 1]
    BY <1>1, HeadTailProperties, RangeElements
  <2>2. /\ Range(sending) = {sending[k] : k \in 1 .. Len(sending)}
        /\ Range(Tail(sending)) = {Tail(sending)[k] : k \in 1 .. Len(Tail(sending))}
    BY <1>1, <2>1, RangeElements
  <2>3. ASSUME NEW p \in Range(Tail(sending)) PROVE p \in Range(sending)
    <3>1. PICK k \in 1 .. Len(Tail(sending)) : p = Tail(sending)[k]
      BY <2>2
    <3>2. k + 1 \in 1 .. Len(sending) /\ p = sending[k + 1]
      BY <2>1, <3>1
    <3>3. QED
      BY <2>2, <3>2
  <2>4. ASSUME NEW p \in Range(sending), p # Head(sending) PROVE p \in Range(Tail(sending))
    <3>1. PICK k \in 1 .. Len(sending) : p = sending[k]
      BY <2>2
    <3>2. k # 1
      BY <2>1, <2>4, <3>1
    <3>3. k - 1 \in 1 .. Len(Tail(sending)) /\ (k - 1) + 1 = k
      BY <2>1, <3>2
    <3>4. Tail(sending)[k - 1] = p
      BY <2>1, <3>1, <3>3
    <3>5. QED
      BY <2>2, <3>3, <3>4
  <2>5. QED
    BY <1>1, <2>1, <2>3, <2>4
<1>3. payload \in [Sockets -> [address : FlatAddrs, data : TileRows \cup {ZeroRow}]]
  BY ArbiterTypes DEF ArbiterInv
<1>4. PICK c \in Credits, v \in TileRows \cup {ZeroRow} :
        \/ /\ Head(sending) = <<load, c>> /\ v = spad_tag[c].row
           /\ Arbiter!Request(load, <<load, c>>, AddrOf(spad_tag[c].row), v)
        \/ /\ Head(sending) = <<store, c>>
           /\ Arbiter!Request(store, <<store, c>>, AddrOf(store_spad_tag[c].row), v)
  BY SendEffect
<1>5. /\ \A p \in Sockets : p # Head(sending) => payload'[p] = payload[p]
      /\ Head(sending) = <<load, c>> =>
           /\ payload'[Head(sending)].address = AddrOf(spad_tag[c].row)
           /\ payload'[Head(sending)].data = spad_tag[c].row
      /\ Head(sending) = <<store, c>> =>
           payload'[Head(sending)].address = AddrOf(store_spad_tag[c].row)
  <2> <<load, c>> \in Sockets /\ <<store, c>> \in Sockets /\ load # store
    BY DEF Sockets, load, store
  <2>1. CASE Head(sending) = <<load, c>>
    <3>1. payload' = [payload EXCEPT ![<<load, c>>] =
                        [address |-> AddrOf(spad_tag[c].row), data |-> spad_tag[c].row]]
      BY <1>4, <2>1 DEF Arbiter!Request
    <3>2. QED
      BY <1>3, <2>1, <3>1
  <2>2. CASE Head(sending) = <<store, c>>
    <3>1. payload' = [payload EXCEPT ![<<store, c>>] =
                        [address |-> AddrOf(store_spad_tag[c].row), data |-> v]]
      BY <1>4, <2>2 DEF Arbiter!Request
    <3>2. /\ \A p \in Sockets : p # <<store, c>> => payload'[p] = payload[p]
          /\ payload'[<<store, c>>].address = AddrOf(store_spad_tag[c].row)
      BY <1>3, <3>1
    <3>3. Head(sending) # <<load, c>>
      BY <2>2
    <3>4. QED
      BY <2>2, <3>2, <3>3
  <2>3. QED
    BY <1>4, <2>1, <2>2
<1>6. spad_requests \subseteq Credits /\ store_spad_requests \subseteq Credits
  BY StoreNames DEF LoadInv, CreditsPartitioned, SpadBusy, StoreInv,
                    StoreCreditsPartitioned, S!SpadBusy
<1>7. ASSUME NEW d \in spad_requests', <<load, d>> \notin Range(sending') PROVE LoadRequest(d)'
  <2>1. d \in spad_requests /\ <<load, d>> \in Sockets
    BY <1>1, <1>6, <1>7 DEF Sockets
  <2>2. CASE <<load, d>> = Head(sending)
    <3>1. d = c /\ Head(sending) = <<load, c>>
      BY <1>4, <2>2 DEF load, store
    <3>2. QED
      BY <1>1, <1>5, <3>1 DEF LoadRequest, AddrOf
  <2>3. CASE <<load, d>> # Head(sending)
    <3>1. LoadRequest(d) /\ payload'[<<load, d>>] = payload[<<load, d>>]
      BY <1>2, <1>5, <1>7, <2>1, <2>3 DEF SentInv
    <3>2. QED
      BY <1>1, <3>1 DEF LoadRequest, AddrOf
  <2>4. QED
    BY <2>2, <2>3
<1>8. ASSUME NEW d \in store_spad_requests', <<store, d>> \notin Range(sending')
      PROVE  StoreRequest(d)'
  <2>1. d \in store_spad_requests /\ <<store, d>> \in Sockets
    BY <1>1, <1>6, <1>8 DEF Sockets
  <2>2. CASE <<store, d>> = Head(sending)
    <3>1. d = c /\ Head(sending) = <<store, c>>
      BY <1>4, <2>2 DEF load, store
    <3>2. QED
      BY <1>1, <1>5, <3>1 DEF StoreRequest, AddrOf
  <2>3. CASE <<store, d>> # Head(sending)
    <3>1. StoreRequest(d) /\ payload'[<<store, d>>] = payload[<<store, d>>]
      BY <1>2, <1>5, <1>8, <2>1, <2>3 DEF SentInv
    <3>2. QED
      BY <1>1, <3>1 DEF StoreRequest, AddrOf
  <2>4. QED
    BY <2>2, <2>3
<1>9. \A p \in Range(sending') : /\ p[1] = load => p[2] \in spad_requests'
                                 /\ p[1] = store => p[2] \in store_spad_requests'
  BY <1>1, <1>2 DEF SentInv
<1>10. QED
  BY <1>2, <1>7, <1>8, <1>9 DEF SentInv
-----------------------------------------------------------------------------
(* What the banks do                                                       *)

(* A bank writes the row of its request to the row's place, ...            *)
LoadAccess(b, c) ==
  /\ c \in spad_requests /\ SpadAccess(c) /\ UNCHANGED <<storeVars, payload, sending>>
  /\ b = BankOf(AddrOf(spad_tag[c].row))
  /\ mem' = [mem EXCEPT ![b][RowOffsetOf(AddrOf(spad_tag[c].row))] = spad_tag[c].row]

(* ... or reads what is there.                                             *)
StoreAccess(b, c) ==
  /\ c \in store_spad_requests /\ S!SpadAccess(c) /\ UNCHANGED <<loadVars, mem, sending>>
  /\ b = BankOf(AddrOf(store_spad_tag[c].row))
  /\ payload' = [payload EXCEPT ![<<store, c>>].data =
                   mem[b][RowOffsetOf(AddrOf(store_spad_tag[c].row))]]

LEMMA BankAccessEffect ==
  ASSUME ArbiterInv, SentInv, NEW b \in Banks, BankAccess(b)
  PROVE  \E c \in Credits : LoadAccess(b, c) \/ StoreAccess(b, c)
<1>1. Proved!BankAccess(b) /\ b \in Proved!Banks /\ bank_events[b]
  BY ArbiterSame DEF BankAccess, Banks, Proved!Banks, Proved!BankAccess
<1>2. PICK p : p = bank_to_payload[b]
  OBVIOUS
<1>3. /\ p \in Sockets /\ bank_thread[b] = NULL
      /\ BankOf(payload[p].address) = b
  <2>1. /\ bank_to_payload[b] \in {load, store} \X Credits /\ bank_thread[b] = NULL
        /\ Proved!BankOf(payload[bank_to_payload[b]].address) = b
    BY <1>1, ArbiterAssumptions, Proved!AccessedPayload DEF ArbiterInv
  <2>2. QED
    BY <1>2, <2>1 DEF Proved!BankOf, BankOf, Sockets
<1>4. PICK i \in {load, store}, c \in Credits : p = <<i, c>>
  BY <1>3 DEF Sockets
<1>5. p[1] = i /\ p[2] = c /\ load # store
  BY <1>4 DEF load, store
<1>6. /\ sending = << >> /\ UNCHANGED sending
      /\ i = load => SpadAccess(c) /\ UNCHANGED storeVars
      /\ i = store => S!SpadAccess(c) /\ UNCHANGED loadVars
  BY <1>2, <1>5 DEF BankAccess
<1>7. /\ i = load => /\ mem' = [mem EXCEPT ![b][RowOffsetOf(payload[p].address)] = payload[p].data]
                     /\ payload' = payload
      /\ i = store => /\ payload' = [payload EXCEPT ![p].data =
                                       mem[b][RowOffsetOf(payload[p].address)]]
                      /\ mem' = mem
  <2> DEFINE command == [q \in {load, store} \X Credits |->
                           IF q[1] = load THEN "write" ELSE "read"]
             row == Proved!RowOffsetOf(payload[p].address)
  <2>1. \/ command[p] = "read" /\ payload' = [payload EXCEPT ![p].data = mem[b][row]]
           /\ UNCHANGED mem
        \/ command[p] = "write" /\ mem' = [mem EXCEPT ![b][row] = payload[p].data]
           /\ UNCHANGED payload
    BY <1>1, <1>2, <1>3 DEF Proved!BankAccess
  <2>2. /\ i = load => command[p] = "write"
        /\ i = store => command[p] = "read"
    BY <1>3, <1>5 DEF Sockets
  <2>3. row = RowOffsetOf(payload[p].address)
    BY DEF Proved!RowOffsetOf, RowOffsetOf
  <2> HIDE DEF command, row
  <2>4. QED
    BY <2>1, <2>2, <2>3
<1>8. CASE i = load
  <2>1. c \in spad_requests
    BY <1>6, <1>8 DEF SpadAccess
  <2>2. /\ payload[p].address = AddrOf(spad_tag[c].row)
        /\ payload[p].data = spad_tag[c].row
    BY <1>4, <1>6, <1>8, <2>1, NothingSent DEF SentInv, LoadRequest
  <2>3. LoadAccess(b, c)
    BY <1>3, <1>6, <1>7, <1>8, <2>1, <2>2 DEF LoadAccess
  <2>4. QED
    BY <2>3
<1>9. CASE i = store
  <2>1. c \in store_spad_requests
    BY <1>6, <1>9 DEF S!SpadAccess
  <2>2. payload[p].address = AddrOf(store_spad_tag[c].row)
    BY <1>4, <1>6, <1>9, <2>1, NothingSent DEF SentInv, StoreRequest
  <2>3. StoreAccess(b, c)
    BY <1>3, <1>4, <1>6, <1>7, <1>9, <2>1, <2>2 DEF StoreAccess
  <2>4. QED
    BY <2>3
<1>10. QED
  BY <1>8, <1>9

LEMMA BankAccessKeepsSent ==
  ASSUME LoadInv, StoreInv, ArbiterInv, SentInv, NEW b \in Banks, BankAccess(b)
  PROVE  SentInv'
<1>1. PICK c \in Credits : LoadAccess(b, c) \/ StoreAccess(b, c)
  BY BankAccessEffect
<1>2. sending = << >>
  BY DEF BankAccess
<1>3. payload \in [Sockets -> [address : FlatAddrs, data : TileRows \cup {ZeroRow}]]
  BY ArbiterTypes DEF ArbiterInv
<1>4. spad_requests \subseteq Credits /\ store_spad_requests \subseteq Credits
  BY StoreNames DEF LoadInv, CreditsPartitioned, SpadBusy, StoreInv,
                    StoreCreditsPartitioned, S!SpadBusy
<1>5. CASE LoadAccess(b, c)
  <2>1. /\ UNCHANGED <<payload, sending, spad_tag, store_spad_requests, store_spad_tag>>
        /\ spad_requests' \subseteq spad_requests
    BY <1>5 DEF LoadAccess, SpadAccess, storeVars
  <2>2. /\ \A d \in spad_requests' : LoadRequest(d)'
        /\ \A d \in store_spad_requests' : StoreRequest(d)'
    BY <1>2, <2>1, NothingSent DEF SentInv, LoadRequest, StoreRequest
  <2>3. QED
    BY <1>2, <2>1, <2>2, NothingSent DEF SentInv
<1>6. CASE StoreAccess(b, c)
  <2>1. /\ UNCHANGED <<sending, spad_tag, spad_requests, store_spad_tag>>
        /\ store_spad_requests' \subseteq store_spad_requests
    BY <1>6 DEF StoreAccess, S!SpadAccess, loadVars, vars, spadVars
  <2>2. ASSUME NEW d \in Credits
        PROVE  /\ payload'[<<load, d>>] = payload[<<load, d>>]
               /\ payload'[<<store, d>>].address = payload[<<store, d>>].address
    <3>1. <<load, d>> \in Sockets /\ <<store, d>> \in Sockets /\ <<load, d>> # <<store, c>>
      BY DEF Sockets, load, store
    <3>2. payload' = [payload EXCEPT ![<<store, c>>].data =
                        mem[b][RowOffsetOf(AddrOf(store_spad_tag[c].row))]]
      BY <1>6 DEF StoreAccess
    <3>3. QED
      BY <1>3, <3>1, <3>2
  <2>3. \A d \in spad_requests' : LoadRequest(d)'
    BY <1>2, <1>4, <2>1, <2>2, NothingSent DEF SentInv, LoadRequest, AddrOf
  <2>4. \A d \in store_spad_requests' : StoreRequest(d)'
    BY <1>2, <1>4, <2>1, <2>2, NothingSent DEF SentInv, StoreRequest, AddrOf
  <2>5. QED
    BY <1>2, <2>1, <2>3, <2>4, NothingSent DEF SentInv
<1>7. QED
  BY <1>1, <1>5, <1>6

LEMMA SentInitially == SystemInit => SentInv
<1> SUFFICES ASSUME SystemInit PROVE SentInv
  OBVIOUS
<1>1. sending = << >> /\ spad_requests = {} /\ store_spad_requests = {}
  BY DEF SystemInit, Init, S!Init
<1>2. sending \in Seq(Sockets)
  BY <1>1, EmptySeq
<1>3. QED
  BY <1>1, <1>2, NothingSent DEF SentInv

LEMMA SentKeeps ==
  ASSUME LoadInv, StoreInv, ArbiterInv, SentInv, [SystemNext]_systemVars
  PROVE  SentInv'
<1>1. CASE IssueMvin \/ OfLoad(Dequeue) \/ OfLoad(BufFreed)
             \/ \E buf \in Bufs : OfLoad(DramResponse(buf))
  <2>1. /\ sending = << >> /\ sending' = Taken(load, free_spad_credits)
        /\ UNCHANGED <<storeVars, arbiterVars>>
    BY <1>1 DEF IssueMvin, OfLoad
  <2>2. UNCHANGED <<free_spad_credits, spad_requests, spad_tag>>
    BY <1>1 DEF IssueMvin, OfLoad, Issue, Dequeue, BufFreed, DramResponse, poolVars, spadVars
  <2>3. UNCHANGED <<payload, store_spad_requests, store_spad_tag>>
    BY <2>1 DEF storeVars, arbiterVars
  <2>4. QED
    BY <2>1, <2>2, <2>3, LoadTakesNothing
<1>2. CASE OfLoad(SpadWriteThread)
  <2>1. /\ sending = << >> /\ sending' = Taken(load, free_spad_credits)
        /\ UNCHANGED <<payload, store_spad_requests, store_spad_tag>>
        /\ SpadWriteThread
    BY <1>2 DEF OfLoad, storeVars, arbiterVars
  <2>2. PICK n : LoadSends(n)
    BY <2>1, SpadWriteThreadSends
  <2>3. free_spad_credits \in Seq(Credits) /\ spad_requests \subseteq Credits
    BY DEF LoadInv, LoadTypes, CreditsPartitioned, SpadBusy
  <2>4. /\ sending' \in Seq(Sockets)
        /\ Range(sending') = {<<load, c>> : c \in Front(free_spad_credits, n)}
    BY <2>1, <2>2, <2>3, TakenCredits DEF Taken, LoadSends
  <2>5. QED
    BY <2>1, <2>2, <2>3, <2>4, LoadTakes DEF LoadSends
<1>3. CASE IssueMvout \/ OfStore(S!DramWriteThread)
             \/ \E buf \in S!Bufs : OfStore(S!DramAccess(buf)) \/ OfStore(S!DramResponse(buf))
  <2>1. /\ sending = << >> /\ sending' = Taken(store, store_free_spad_credits)
        /\ UNCHANGED <<loadVars, arbiterVars>>
    BY <1>3 DEF IssueMvout, OfStore
  <2>2. UNCHANGED <<store_free_spad_credits, store_spad_requests, store_spad_tag>>
    BY <1>3 DEF IssueMvout, OfStore, S!Issue, S!DramWriteThread, S!DramAccess,
                S!DramResponse, S!poolVars, S!spadVars
  <2>3. UNCHANGED <<payload, spad_requests, spad_tag>>
    BY <2>1 DEF loadVars, vars, spadVars, arbiterVars
  <2>4. QED
    BY <2>1, <2>2, <2>3, StoreTakesNothing
<1>4. CASE OfStore(S!Dequeue) \/ OfStore(S!SpadReadThread)
  <2>1. /\ sending = << >> /\ sending' = Taken(store, store_free_spad_credits)
        /\ UNCHANGED <<payload, spad_requests, spad_tag>>
        /\ S!Dequeue \/ S!SpadReadThread
    BY <1>4 DEF OfStore, loadVars, vars, spadVars, arbiterVars
  <2>2. PICK n : StoreSends(n)
    BY <2>1, SpadReadThreadSends
  <2>3. store_free_spad_credits \in Seq(Credits) /\ store_spad_requests \subseteq Credits
    BY StoreNames DEF StoreInv, StoreTypes, StoreCreditsPartitioned, S!SpadBusy
  <2>4. /\ sending' \in Seq(Sockets)
        /\ Range(sending') = {<<store, c>> : c \in Front(store_free_spad_credits, n)}
    BY <2>1, <2>2, <2>3, TakenCredits DEF Taken, StoreSends
  <2> PICK new : new = Front(store_free_spad_credits, n)
    OBVIOUS
  <2>5. /\ store_spad_requests' = store_spad_requests \cup new
        /\ \A c \in store_spad_requests \ new : store_spad_tag'[c] = store_spad_tag[c]
    BY <2>2, <2>3 DEF StoreSends
  <2>6. Range(sending') = {<<store, c>> : c \in new}
    BY <2>4
  <2>7. QED
    BY <2>1, <2>4, <2>5, <2>6, StoreTakes
<1>5. CASE Send
  BY <1>5, SendKeepsSent
<1>6. ASSUME NEW b \in Banks, BankAccess(b) PROVE SentInv'
  BY <1>6, BankAccessKeepsSent
<1>7. CASE UNCHANGED <<sending, payload, spad_requests, spad_tag,
                       store_spad_requests, store_spad_tag>>
  BY <1>7 DEF SentInv, LoadRequest, StoreRequest
<1>8. ASSUME NEW b \in Banks, BankDone(b) \/ ForwardPending(b) PROVE SentInv'
  <2>1. UNCHANGED <<sending, payload>>
    BY <1>8 DEF BankDone, ForwardPending, Arbiter!BankDone, Arbiter!ForwardPending
  <2>2. UNCHANGED <<spad_requests, spad_tag, store_spad_requests, store_spad_tag>>
    BY <1>8 DEF BankDone, ForwardPending, SpadResponse, S!SpadResponse, loadVars, vars,
                spadVars, storeVars
  <2>3. QED
    BY <1>7, <2>1, <2>2
<1>9. CASE UNCHANGED systemVars
  BY <1>7, <1>9 DEF systemVars, loadVars, vars, spadVars, storeVars, arbiterVars
<1>10. QED
  BY <1>1, <1>2, <1>3, <1>4, <1>5, <1>6, <1>8, <1>9 DEF SystemNext

RequestsInv == LoadInv /\ StoreInv /\ ArbiterInv /\ SentInv

(* The controllers' requests at the arbiter *)
THEOREM SystemRequests == SystemSpec => []RequestsInv
<1>1. SystemInit => RequestsInv
  BY LoadInitially, StoreInitially, ArbiterInitially, SentInitially
     DEF SystemInit, RequestsInv
<1>2. RequestsInv /\ [SystemNext]_systemVars => RequestsInv'
  BY SystemLoadStep, SystemStoreStep, LoadStep, StoreStep, ArbiterKeeps, SentKeeps
     DEF RequestsInv
<1>3. QED
  BY <1>1, <1>2, PTL DEF SystemSpec

(* With the two controllers as initiators, too, no bank is given a request *)
(* while it holds one, a bank serves its requests in arrival order, and    *)
(* what waits in its queue is outstanding and has an address in it.        *)
THEOREM SystemArbiter ==
  SystemSpec => /\ []Arbiter!NoBankConflict
                /\ Proved!ServesInOrder!SafeSpec
                /\ []Proved!PayloadsHeldOnce
<1>1. SystemSpec => Proved!SafeSpec
  <2>1. SystemInit => Proved!Init
    BY ArbiterSame DEF SystemInit
  <2>2. RequestsInv /\ [SystemNext]_systemVars => [Proved!Next]_Proved!vars
    BY SystemArbiterStep DEF RequestsInv
  <2>3. QED
    BY <2>1, <2>2, SystemRequests, PTL DEF SystemSpec, Proved!SafeSpec
<1>2. Proved!SafeSpec => Proved!ServesInOrder!SafeSpec
  BY ArbiterAssumptions, Proved!ArbiterServesInOrder
<1>3. RequestsInv => Arbiter!NoBankConflict /\ Proved!PayloadsHeldOnce
  BY ArbiterAssumptions, Proved!HeldSuffices
     DEF RequestsInv, ArbiterInv, Proved!HandshakeInv, Proved!NoBankConflict,
         Arbiter!NoBankConflict
<1>4. QED
  BY <1>1, <1>2, <1>3, SystemRequests, PTL
-----------------------------------------------------------------------------
(* What the scratchpad holds                                               *)

(* What mem has in the place of row t *)
HeldAt(t) == mem[BankOf(AddrOf(t))][RowOffsetOf(AddrOf(t))]

(* The issuer has mvout id wait for mvin id, and an mvin wait for the      *)
(* mvouts of the tiles whose places it takes; so a row that was loaded is  *)
(* in its place until its tile is stored.                                  *)
LoadedFirst == \A id \in 1 .. store_last_issued_id : is_complete(id)

StoredFirst ==
  \A d, e \in 1 .. last_issued_id :
    d < e /\ Places(d) \cap Places(e) # {} => S!is_complete(d)

RowsInPlace ==
  \A t \in TileRows : spad[t] = t /\ ~ S!is_complete(t[1]) => HeldAt(t) = t

DataInv == LoadedFirst /\ StoredFirst /\ RowsInPlace

(* A completed instruction stays complete. *)
LEMMA CompleteStays ==
  ASSUME RequestsInv, RequestsInv', [SystemNext]_systemVars, NEW id \in Instrs
  PROVE  /\ is_complete(id) => is_complete(id)'
         /\ S!is_complete(id) => S!is_complete(id)'
<1>1. [CopiesTiles!Next]_CopiesTiles!vars /\ [S!CopiesTiles!Next]_S!CopiesTiles!vars
  BY SystemLoadStep, SystemStoreStep, LoadCopiesStep, StoreCopiesStep DEF RequestsInv
<1>2. {i \in Instrs : is_complete(i)} \subseteq {i \in Instrs : is_complete(i)}'
  BY <1>1 DEF CopiesTiles!Next, CopiesTiles!vars, CopiesTiles!Issue, CopiesTiles!CopyRow,
              CopiesTiles!Complete
<1>3. {i \in Instrs : S!is_complete(i)} \subseteq {i \in Instrs : S!is_complete(i)}'
  BY <1>1, StoreNames
     DEF S!CopiesTiles!Next, S!CopiesTiles!vars, S!CopiesTiles!Issue, S!CopiesTiles!CopyRow,
         S!CopiesTiles!Complete
<1>4. QED
  BY <1>2, <1>3

(* The row of a request to the scratchpad: its mvin is issued and not      *)
(* complete, ...                                                           *)
LEMMA LoadingRow ==
  ASSUME LoadInv, NEW c \in SpadBusy, NEW u, u = spad_tag[c].row
  PROVE  /\ u \in TileRows /\ u[1] \in Instrs /\ u[1] <= last_issued_id
         /\ ~ is_complete(u[1])
         /\ row_buffers[spad_tag[c].buf] = u
<1> PICK b : b = spad_tag[c].buf
  OBVIOUS
<1>1. /\ b \in InUse /\ dram_tag[b] \in TileRows
      /\ u = dram_tag[b] /\ row_buffers[b] = u
  BY BusyBuffer
<1>2. /\ dram_tag[b][1] \in Instrs /\ dram_tag[b][1] <= last_issued_id
      /\ rows_remaining[dram_tag[b][1]] \in Nat \ {0}
  BY <1>1, AnswerAccounted DEF LoadInv, LoadAccounted
<1>3. QED
  BY <1>1, <1>2 DEF is_complete

(* ... and so is its mvout.                                                *)
LEMMA StoringRow ==
  ASSUME StoreInv, NEW c \in S!SpadBusy, NEW u, u = store_spad_tag[c].row
  PROVE  /\ u \in TileRows /\ u[1] \in Instrs /\ u[1] <= store_last_issued_id
         /\ ~ S!is_complete(u[1])
<1> PICK b : b = store_spad_tag[c].buf
  OBVIOUS
<1>1. b \in StoreInUse /\ store_dram_tag[b] \in TileRows /\ u = store_dram_tag[b]
  BY StoreBusyBuffer
<1>2. /\ store_dram_tag[b][1] \in Instrs /\ store_dram_tag[b][1] <= store_last_issued_id
      /\ store_rows_remaining[store_dram_tag[b][1]] \in Nat \ {0}
  BY <1>1, AnswerAccounted DEF StoreInv, StoreAccounted
<1>3. QED
  BY <1>1, <1>2 DEF S!is_complete

(* What the scratchpad has got of the tiles *)
LEMMA LoadedRow ==
  ASSUME LoadInv, NEW t \in TileRows
  PROVE  /\ spad[t] = t => t[1] <= last_issued_id
         /\ is_complete(t[1]) => spad[t] = t
<1>1. /\ Accounted(mvin_instr_queue, rows_remaining, last_issued_id, mvin, InUse, dram_tag)
      /\ Copied(spad, mvin_instr_queue, last_issued_id, mvin, Pending, dram_tag)
  BY DEF LoadInv, LoadAccounted
<1>2. t[1] \in Instrs /\ Pending \in SUBSET InUse /\ t # NULL
  BY TileRowIs, NullAssumption DEF Pending
<1>3. spad[t] = t => t[1] <= last_issued_id
  BY <1>1, <1>2 DEF Copied, WasRead
<1>4. ASSUME is_complete(t[1]) PROVE spad[t] = t
  <2>1. t[1] <= last_issued_id /\ rows_remaining[t[1]] = 0
    BY <1>4 DEF is_complete
  <2>2. \A u \in TileRows : u[1] = t[1] => spad[u] # NULL
    BY <1>1, <1>2, <2>1, CompleteCopied
  <2>3. QED
    BY <1>1, <2>2 DEF Copied
<1>5. QED
  BY <1>3, <1>4

(* Two rows have their place in common only if the tile of the one is      *)
(* stored before that of the other is loaded.                              *)
LEMMA PlacesApart ==
  ASSUME LoadInv, StoreInv, LoadedFirst, StoredFirst,
         NEW u \in TileRows, u[1] <= last_issued_id, ~ is_complete(u[1]),
         NEW t \in TileRows, t[1] <= last_issued_id, ~ S!is_complete(t[1]), t # u
  PROVE  AddrOf(t) # AddrOf(u)
<1> SUFFICES ASSUME AddrOf(t) = AddrOf(u) PROVE FALSE
  OBVIOUS
<1>1. t[1] \in Nat \ {0} /\ u[1] \in Nat \ {0}
  <2>1. t[1] \in Instrs /\ u[1] \in Instrs /\ \A id \in Instrs : id \in Nat \ {0}
    BY TileRowIs
  <2>2. QED
    BY <2>1
<1>2. last_issued_id \in Nat /\ store_last_issued_id \in Nat
  BY DEF LoadInv, LoadAccounted, StoreInv, StoreAccounted, Accounted
<1>3. t[1] \in 1 .. last_issued_id /\ u[1] \in 1 .. last_issued_id
  BY <1>1, <1>2
<1>4. Places(t[1]) \cap Places(u[1]) # {} /\ Places(u[1]) \cap Places(t[1]) # {}
  BY RowAddress
<1>5. CASE t[1] = u[1]
  BY <1>5, RowsApart
<1>6. CASE t[1] < u[1]
  BY <1>3, <1>4, <1>6 DEF StoredFirst
<1>7. CASE u[1] < t[1]
  <2>1. S!is_complete(u[1])
    BY <1>3, <1>4, <1>7 DEF StoredFirst
  <2>2. u[1] \in 1 .. store_last_issued_id
    BY <1>1, <1>2, <2>1 DEF S!is_complete
  <2>3. QED
    BY <2>2 DEF LoadedFirst
<1>8. QED
  BY <1>1, <1>5, <1>6, <1>7

(* Only the issuer issues, and only a bank's access moves a row.           *)
LEMMA WhoChangesWhat ==
  ASSUME [SystemNext]_systemVars
  PROVE  /\ IssueMvin \/ last_issued_id' = last_issued_id
         /\ IssueMvout \/ store_last_issued_id' = store_last_issued_id
         /\ (\E b \in Banks : BankAccess(b)) \/ UNCHANGED <<spad, mem>>
<1>1. CASE IssueMvin \/ OfLoad(Dequeue) \/ OfLoad(BufFreed) \/ OfLoad(SpadWriteThread)
             \/ \E buf \in Bufs : OfLoad(DramResponse(buf))
  <2>1. UNCHANGED <<store_last_issued_id, mem>>
    BY <1>1 DEF IssueMvin, OfLoad, storeVars, arbiterVars
  <2>2. UNCHANGED spad
    BY <1>1 DEF IssueMvin, OfLoad, Issue, Dequeue, BufFreed, SpadWriteThread, DramResponse,
                spadVars
  <2>3. IssueMvin \/ UNCHANGED last_issued_id
    BY <1>1 DEF OfLoad, Dequeue, BufFreed, SpadWriteThread, DramResponse
  <2>4. QED
    BY <2>1, <2>2, <2>3
<1>2. CASE IssueMvout \/ OfStore(S!Dequeue) \/ OfStore(S!SpadReadThread)
             \/ OfStore(S!DramWriteThread)
             \/ \E buf \in S!Bufs : OfStore(S!DramAccess(buf)) \/ OfStore(S!DramResponse(buf))
  <2>1. UNCHANGED <<last_issued_id, spad, mem>>
    BY <1>2 DEF IssueMvout, OfStore, loadVars, vars, spadVars, arbiterVars
  <2>2. IssueMvout \/ UNCHANGED store_last_issued_id
    BY <1>2 DEF OfStore, S!Dequeue, S!SpadReadThread, S!DramWriteThread, S!DramAccess,
                S!DramResponse
  <2>3. QED
    BY <2>1, <2>2
<1>3. CASE Send
  BY <1>3 DEF Send, Arbiter!Request, loadVars, vars, spadVars, storeVars
<1>4. ASSUME NEW b \in Banks, BankAccess(b)
      PROVE  UNCHANGED <<last_issued_id, store_last_issued_id>>
  BY <1>4 DEF BankAccess, SpadAccess, S!SpadAccess, loadVars, vars, storeVars
<1>5. ASSUME NEW b \in Banks, BankDone(b)
      PROVE  UNCHANGED <<last_issued_id, store_last_issued_id, spad, mem>>
  BY <1>5 DEF BankDone, Arbiter!BankDone, SpadResponse, S!SpadResponse, loadVars, vars,
              spadVars, storeVars
<1>6. ASSUME NEW b \in Banks, ForwardPending(b)
      PROVE  UNCHANGED <<last_issued_id, store_last_issued_id, spad, mem>>
  BY <1>6 DEF ForwardPending, Arbiter!ForwardPending, loadVars, vars, spadVars, storeVars
<1>7. CASE UNCHANGED systemVars
  BY <1>7 DEF systemVars, loadVars, vars, spadVars, storeVars, arbiterVars
<1>8. QED
  BY <1>1, <1>2, <1>3, <1>4, <1>5, <1>6, <1>7 DEF SystemNext

LEMMA IssuerKeepsOrder ==
  ASSUME RequestsInv, RequestsInv', DataInv, [SystemNext]_systemVars
  PROVE  LoadedFirst' /\ StoredFirst'
<1>1. /\ store_last_issued_id \in 0 .. N_INSTRS /\ last_issued_id \in 0 .. N_INSTRS
      /\ N_INSTRS \in Nat
  BY InstrAssumption DEF RequestsInv, LoadInv, LoadAccounted, StoreInv, StoreAccounted,
                         Accounted
<1>2. LoadedFirst'
  <2>1. \A id \in 1 .. store_last_issued_id : is_complete(id)'
    <3>1. \A id \in 1 .. store_last_issued_id : id \in Instrs
      BY <1>1 DEF Instrs
    <3>2. QED
      BY <3>1, CompleteStays DEF DataInv, LoadedFirst
  <2>2. CASE IssueMvout
    <3>1. /\ is_complete(store_last_issued_id')
          /\ store_last_issued_id' = store_last_issued_id + 1
          /\ UNCHANGED <<rows_remaining, last_issued_id>>
      BY <2>2 DEF IssueMvout, OfStore, S!Issue, loadVars, vars
    <3>2. \A id \in 1 .. store_last_issued_id' :
            id \in 1 .. store_last_issued_id \/ id = store_last_issued_id'
      BY <1>1, <3>1
    <3>3. ASSUME NEW id \in 1 .. store_last_issued_id' PROVE is_complete(id)'
      <4>1. CASE id = store_last_issued_id'
        BY <3>1, <4>1 DEF is_complete
      <4>2. QED
        BY <2>1, <3>2, <4>1
    <3>4. QED
      BY <3>3 DEF LoadedFirst
  <2>3. CASE store_last_issued_id' = store_last_issued_id
    BY <2>1, <2>3 DEF LoadedFirst
  <2>4. QED
    BY <2>2, <2>3, WhoChangesWhat
<1>3. StoredFirst'
  <2>1. \A d, e \in 1 .. last_issued_id :
          d < e /\ Places(d) \cap Places(e) # {} => S!is_complete(d)'
    <3>1. \A id \in 1 .. last_issued_id : id \in Instrs
      BY <1>1 DEF Instrs
    <3>2. QED
      BY <3>1, CompleteStays DEF DataInv, StoredFirst
  <2>2. CASE IssueMvin
    <3>1. /\ last_issued_id' = last_issued_id + 1
          /\ PlaceFree(last_issued_id')
          /\ UNCHANGED <<store_rows_remaining, store_last_issued_id>>
      BY <2>2 DEF IssueMvin, OfLoad, Issue, storeVars
    <3>2. \A d \in 1 .. last_issued_id :
            Places(d) \cap Places(last_issued_id') # {} => S!is_complete(d)
      BY <1>1, <3>1 DEF PlaceFree
    <3>3. ASSUME NEW d \in 1 .. last_issued_id', NEW e \in 1 .. last_issued_id',
                 d < e, Places(d) \cap Places(e) # {}
          PROVE  S!is_complete(d)'
      <4>1. d \in 1 .. last_issued_id
        BY <1>1, <3>1, <3>3
      <4>2. CASE e = last_issued_id'
        BY <3>1, <3>2, <3>3, <4>1, <4>2 DEF S!is_complete
      <4>3. CASE e # last_issued_id'
        <5>1. e \in 1 .. last_issued_id
          BY <1>1, <3>1, <4>3
        <5>2. QED
          BY <2>1, <3>3, <4>1, <5>1
      <4>4. QED
        BY <4>2, <4>3
    <3>4. QED
      BY <3>3 DEF StoredFirst, Places, AddrOf
  <2>3. CASE last_issued_id' = last_issued_id
    BY <2>1, <2>3 DEF StoredFirst, Places, AddrOf
  <2>4. QED
    BY <2>2, <2>3, WhoChangesWhat
<1>4. QED
  BY <1>2, <1>3

LEMMA RowsStayInPlace ==
  ASSUME RequestsInv, RequestsInv', DataInv, [SystemNext]_systemVars
  PROVE  RowsInPlace'
<1>1. \A t \in TileRows : ~ S!is_complete(t[1])' => ~ S!is_complete(t[1])
  <2> TAKE t \in TileRows
  <2> PICK id \in Instrs : id = t[1]
    BY TileRowIs
  <2>1. S!is_complete(id) => S!is_complete(id)'
    BY CompleteStays
  <2>2. QED
    BY <2>1 DEF S!is_complete
<1>2. CASE UNCHANGED <<spad, mem>>
  BY <1>1, <1>2 DEF DataInv, RowsInPlace, HeldAt, AddrOf, S!is_complete
<1>3. ASSUME NEW b \in Banks, BankAccess(b) PROVE RowsInPlace'
  <2>1. PICK c \in Credits : LoadAccess(b, c) \/ StoreAccess(b, c)
    BY <1>3, BankAccessEffect DEF RequestsInv
  <2>2. CASE StoreAccess(b, c)
    BY <1>2, <2>2 DEF StoreAccess, loadVars, vars, spadVars
  <2>3. CASE LoadAccess(b, c)
    <3> PICK u : u = spad_tag[c].row
      OBVIOUS
    <3>1. /\ u \in TileRows /\ u[1] <= last_issued_id /\ ~ is_complete(u[1])
          /\ row_buffers[spad_tag[c].buf] = u
      BY <2>3, LoadingRow DEF LoadAccess, SpadBusy, RequestsInv
    <3>2. /\ spad' = [spad EXCEPT ![u] = u] /\ UNCHANGED storeVars
          /\ b = BankOf(AddrOf(u))
          /\ mem' = [mem EXCEPT ![b][RowOffsetOf(AddrOf(u))] = u]
      BY <2>3, <3>1 DEF LoadAccess, SpadAccess
    <3>3. /\ mem \in [Banks -> [RowOffsets -> TileRows \cup {ZeroRow}]]
          /\ spad \in [TileRows -> TileRows \cup {NULL}]
      BY ArbiterTypes DEF RequestsInv, ArbiterInv, LoadInv, LoadAccounted, Copied
    <3>4. \A t \in TileRows : BankOf(AddrOf(t)) \in Banks /\ RowOffsetOf(AddrOf(t)) \in RowOffsets
      BY RowAddress, FieldsOfFlat
    <3>5. ASSUME NEW t \in TileRows, spad'[t] = t, ~ S!is_complete(t[1])'
          PROVE  mem'[BankOf(AddrOf(t))][RowOffsetOf(AddrOf(t))] = t
      <4>1. CASE t = u
        BY <3>2, <3>3, <3>4, <4>1
      <4>2. CASE t # u
        <5>1. spad[t] = t /\ ~ S!is_complete(t[1])
          BY <1>1, <3>2, <3>3, <3>5, <4>2
        <5>2. HeldAt(t) = t
          BY <5>1 DEF DataInv, RowsInPlace
        <5>3. t[1] <= last_issued_id
          BY <5>1, LoadedRow DEF RequestsInv
        <5>4. AddrOf(t) # AddrOf(u)
          BY <3>1, <4>2, <5>1, <5>3, PlacesApart DEF RequestsInv, DataInv
        <5>5. BankOf(AddrOf(t)) # b \/ RowOffsetOf(AddrOf(t)) # RowOffsetOf(AddrOf(u))
          <6>1. /\ ToFlat(RowOffsetOf(AddrOf(t)), BankOf(AddrOf(t))) = AddrOf(t)
                /\ ToFlat(RowOffsetOf(AddrOf(u)), BankOf(AddrOf(u))) = AddrOf(u)
            BY <3>1, RowAddress, FieldsOfFlat
          <6>2. QED
            BY <3>2, <5>4, <6>1
        <5>6. mem'[BankOf(AddrOf(t))][RowOffsetOf(AddrOf(t))] = HeldAt(t)
          BY <3>1, <3>2, <3>3, <3>4, <5>5 DEF HeldAt
        <5>7. QED
          BY <5>2, <5>6
      <4>3. QED
        BY <4>1, <4>2
    <3>6. QED
      BY <3>5 DEF RowsInPlace, HeldAt, AddrOf, S!is_complete
  <2>4. QED
    BY <2>1, <2>2, <2>3
<1>4. QED
  BY <1>2, <1>3, WhoChangesWhat

(* The credit of an answered request is not in the pool. *)
LEMMA ServedCredit ==
  ASSUME StoreInv, NEW c \in store_spad_served
  PROVE  c \in Credits /\ c \notin Range(store_free_spad_credits) /\ c \notin store_spad_requests
  BY StoreNames DEF StoreInv, StoreCreditsPartitioned, S!SpadBusy

LEMMA SameReads ==
  ASSUME ReadsItsTile,
         \A c \in store_spad_served' :
           /\ c \in store_spad_served
           /\ payload'[<<store, c>>].data = payload[<<store, c>>].data
           /\ store_spad_tag'[c].row = store_spad_tag[c].row
  PROVE  ReadsItsTile'
  BY DEF ReadsItsTile

LEMMA ReadsKeeps ==
  ASSUME RequestsInv, DataInv, ReadsItsTile, [SystemNext]_systemVars
  PROVE  ReadsItsTile'
<1>1. CASE UNCHANGED <<store_spad_served, payload, store_spad_tag>>
  BY <1>1, SameReads
<1>2. CASE OfStore(S!Dequeue) \/ OfStore(S!SpadReadThread)
  <2>1. /\ UNCHANGED <<payload, store_spad_served>>
        /\ S!Dequeue \/ S!SpadReadThread
    BY <1>2 DEF OfStore, arbiterVars, S!Dequeue, S!SpadReadThread
  <2>2. PICK n : StoreSends(n)
    BY <2>1, SpadReadThreadSends DEF RequestsInv
  <2>3. /\ store_free_spad_credits \in Seq(Credits) /\ Distinct(store_free_spad_credits)
        /\ n \in Nat /\ n <= Len(store_free_spad_credits)
    BY <2>2 DEF RequestsInv, StoreInv, StoreTypes, StoreSends
  <2>4. Front(store_free_spad_credits, n) \subseteq Range(store_free_spad_credits)
    BY <2>3, TakeFront
  <2>5. \A c \in store_spad_served : store_spad_tag'[c] = store_spad_tag[c]
    BY <2>2, <2>4, ServedCredit DEF StoreSends, RequestsInv
  <2>6. QED
    BY <2>1, <2>5, SameReads
<1>3. CASE Send
  <2>1. UNCHANGED <<store_spad_served, store_spad_tag>>
    BY <1>3 DEF Send, storeVars
  <2>2. PICK d \in Credits, v \in TileRows \cup {ZeroRow} :
          \/ Arbiter!Request(load, <<load, d>>, AddrOf(spad_tag[d].row), v)
          \/ /\ d \in store_spad_requests
             /\ Arbiter!Request(store, <<store, d>>, AddrOf(store_spad_tag[d].row), v)
    BY <1>3, SendEffect DEF RequestsInv
  <2>3. payload \in [Sockets -> [address : FlatAddrs, data : TileRows \cup {ZeroRow}]]
    BY ArbiterTypes DEF RequestsInv, ArbiterInv
  <2>4. ASSUME NEW c \in store_spad_served PROVE payload'[<<store, c>>] = payload[<<store, c>>]
    <3>1. c \in Credits /\ c \notin store_spad_requests
      BY ServedCredit DEF RequestsInv
    <3>2. <<store, c>> \in Sockets /\ <<store, c>> # <<load, d>>
      BY <3>1 DEF Sockets, load, store
    <3>3. CASE Arbiter!Request(load, <<load, d>>, AddrOf(spad_tag[d].row), v)
      BY <2>3, <3>2, <3>3 DEF Arbiter!Request
    <3>4. CASE /\ d \in store_spad_requests
               /\ Arbiter!Request(store, <<store, d>>, AddrOf(store_spad_tag[d].row), v)
      <4>1. <<store, c>> # <<store, d>>
        BY <3>1, <3>4
      <4>2. QED
        BY <2>3, <3>2, <3>4, <4>1 DEF Arbiter!Request
    <3>5. QED
      BY <2>2, <3>3, <3>4
  <2>5. QED
    BY <2>1, <2>4, SameReads
<1>4. ASSUME NEW b \in Banks, BankAccess(b) PROVE ReadsItsTile'
  <2>1. PICK c \in Credits : LoadAccess(b, c) \/ StoreAccess(b, c)
    BY <1>4, BankAccessEffect DEF RequestsInv
  <2>2. CASE LoadAccess(b, c)
    BY <1>1, <2>2 DEF LoadAccess, storeVars
  <2>3. CASE StoreAccess(b, c)
    <3> PICK u : u = store_spad_tag[c].row
      OBVIOUS
    <3>1. /\ u \in TileRows /\ u[1] \in Instrs /\ u[1] <= store_last_issued_id
          /\ ~ S!is_complete(u[1])
      BY <2>3, StoringRow DEF StoreAccess, S!SpadBusy, RequestsInv
    <3>2. is_complete(u[1])
      <4>1. u[1] \in Nat \ {0}
        BY <3>1, TileRowIs
      <4>2. u[1] \in 1 .. store_last_issued_id
        <5>1. store_last_issued_id \in Nat
          BY DEF RequestsInv, StoreInv, StoreAccounted, Accounted
        <5>2. QED
          BY <3>1, <4>1, <5>1
      <4>3. QED
        BY <4>2 DEF DataInv, LoadedFirst
    <3>3. HeldAt(u) = u
      BY <3>1, <3>2, LoadedRow DEF DataInv, RowsInPlace, RequestsInv
    <3>4. /\ payload' = [payload EXCEPT ![<<store, c>>].data = u]
          /\ store_spad_served' = store_spad_served \cup {c}
          /\ store_spad_tag' = store_spad_tag
      BY <2>3, <3>3 DEF StoreAccess, S!SpadAccess, HeldAt
    <3>5. payload \in [Sockets -> [address : FlatAddrs, data : TileRows \cup {ZeroRow}]]
      BY ArbiterTypes DEF RequestsInv, ArbiterInv
    <3>6. \A d \in Credits : <<store, d>> \in Sockets
      BY DEF Sockets
    <3>7. ASSUME NEW d \in store_spad_served'
          PROVE  payload'[<<store, d>>].data = store_spad_tag'[d].row
      <4>1. CASE d = c
        BY <3>4, <3>5, <3>6, <4>1
      <4>2. CASE d # c
        <5>1. d \in store_spad_served /\ d \in Credits
          BY <3>4, <3>7, <4>2, ServedCredit DEF RequestsInv
        <5>2. payload[<<store, d>>].data = store_spad_tag[d].row
          BY <5>1 DEF ReadsItsTile
        <5>3. <<store, d>> # <<store, c>>
          BY <4>2
        <5>4. QED
          BY <3>4, <3>5, <3>6, <5>1, <5>2, <5>3
      <4>3. QED
        BY <4>1, <4>2
    <3>8. QED
      BY <3>7 DEF ReadsItsTile
  <2>4. QED
    BY <2>1, <2>2, <2>3
<1>5. ASSUME NEW b \in Banks, BankDone(b) \/ ForwardPending(b) PROVE ReadsItsTile'
  <2>1. UNCHANGED <<payload, store_spad_tag>> /\ store_spad_served' \subseteq store_spad_served
    BY <1>5 DEF BankDone, ForwardPending, Arbiter!BankDone, Arbiter!ForwardPending,
                S!SpadResponse, storeVars
  <2>2. QED
    BY <2>1, SameReads
<1>6. CASE IssueMvin \/ OfLoad(Dequeue) \/ OfLoad(BufFreed) \/ OfLoad(SpadWriteThread)
             \/ \E buf \in Bufs : OfLoad(DramResponse(buf))
  BY <1>1, <1>6 DEF IssueMvin, OfLoad, storeVars, arbiterVars
<1>7. CASE IssueMvout \/ OfStore(S!DramWriteThread)
             \/ \E buf \in S!Bufs : OfStore(S!DramAccess(buf)) \/ OfStore(S!DramResponse(buf))
  BY <1>1, <1>7 DEF IssueMvout, OfStore, S!Issue, S!DramWriteThread, S!DramAccess,
                    S!DramResponse, S!spadVars, arbiterVars
<1>8. CASE UNCHANGED systemVars
  BY <1>1, <1>8 DEF systemVars, storeVars, arbiterVars
<1>9. QED
  BY <1>2, <1>3, <1>4, <1>5, <1>6, <1>7, <1>8 DEF SystemNext

LEMMA DataInitially == SystemInit => DataInv /\ ReadsItsTile
<1> SUFFICES ASSUME SystemInit PROVE DataInv /\ ReadsItsTile
  OBVIOUS
<1>1. /\ store_last_issued_id = 0 /\ last_issued_id = 0 /\ store_spad_served = {}
      /\ \A t \in TileRows : spad[t] = NULL
  BY DEF SystemInit, Init, S!Init
<1>2. LoadedFirst /\ StoredFirst
  BY <1>1 DEF LoadedFirst, StoredFirst
<1>3. RowsInPlace
  BY <1>1, NullAssumption DEF RowsInPlace
<1>4. QED
  BY <1>1, <1>2, <1>3 DEF DataInv, ReadsItsTile

(* A row read for an mvout is the row its mvin loaded: both controllers'   *)
(* requests may wait in the arbiter while the banks serve others, and the  *)
(* tile's place may be loaded again, but not before is_complete says that  *)
(* it is stored.                                                           *)
THEOREM SystemReadsItsTile == SystemSpec => []ReadsItsTile
<1>1. RequestsInv /\ RequestsInv' /\ DataInv /\ [SystemNext]_systemVars => DataInv'
  BY IssuerKeepsOrder, RowsStayInPlace DEF DataInv
<1>2. RequestsInv /\ DataInv /\ ReadsItsTile /\ [SystemNext]_systemVars => ReadsItsTile'
  BY ReadsKeeps
<1>3. QED
  BY <1>1, <1>2, DataInitially, SystemRequests, PTL DEF SystemSpec
=============================================================================
