---------------------------- MODULE ConsoleProofs ----------------------------
(***************************************************************************)
(* Proofs about what lies between the keys and the commands: the FIFO of    *)
(* the terminal, and the lists, tokens and replacements with which a shell  *)
(* makes the words of a command of a line.                                  *)
(***************************************************************************)
EXTENDS Console, FiniteSetTheorems, SequenceTheorems, WellFoundedInduction, TLAPS

-----------------------------------------------------------------------------
(***************************************************************************)
(* Part one.  FIFO files: the buffer holds the unread bytes in order, the   *)
(* driver implements the byte channel, and readers and writers with short   *)
(* transfers do not block each other, for every size and set of tasks.      *)
(***************************************************************************)

DataTypes ==
    /\ buffer \in [0 .. Size - 1 -> Nat] /\ pos \in 0 .. Size
    /\ written \in Nat /\ read \in Nat

FileTypes ==
    /\ readers \in Int /\ writers \in Int
    /\ filemode \in [Tasks -> SUBSET Modes]

CallTypes == call \in [Tasks -> Calls]

Inv == DataTypes /\ FileTypes /\ CallTypes /\ HoldsTheUnread

-----------------------------------------------------------------------------
(* The length of a call is one of those asked for.                          *)
LEMMA CallLength ==
    ASSUME CallTypes, NEW t \in Tasks
    PROVE  /\ call[t].length \in Nat
           /\ call[t].op = "read" => call[t].length \in ReadLengths
           /\ call[t].op = "write" => call[t].length \in WriteLengths
<1>1. call[t] \in Calls
  BY DEF CallTypes
<1>2. CASE call[t] = Idle
  BY <1>2 DEF Idle
<1>3. CASE call[t] \in [op : {"read"}, length : ReadLengths]
  BY <1>3, LengthsAssumption
<1>4. CASE call[t] \in [op : {"write"}, length : WriteLengths]
  BY <1>4, LengthsAssumption
<1> QED BY <1>1, <1>2, <1>3, <1>4 DEF Calls

(* A call that returns leaves a legal call.                                 *)
LEMMA ReturnTypes ==
    ASSUME CallTypes, NEW t \in Tasks, Return(t)
    PROVE  CallTypes'
BY DEF CallTypes, Calls, Return

(* A read moves the bytes it leaves to the front.                           *)
LEMMA ReadStep ==
    ASSUME Inv, NEW t \in Tasks, ramfs_fifo_read(t)
    PROVE  DataTypes' /\ HoldsTheUnread' /\ dest' = [j \in 1 .. call[t].length |-> read + j]
<1> DEFINE n == call[t].length
<1>1. n \in Nat /\ n <= pos /\ pos \in 0 .. Size /\ Size \in Nat
  BY CallLength, SizeAssumption DEF Inv, DataTypes, ramfs_fifo_read, Readable
<1>2. /\ buffer' = [i \in 0 .. Size - 1 |-> IF i < pos - n THEN buffer[i + n] ELSE buffer[i]]
      /\ pos' = pos - n /\ read' = read + n /\ written' = written
      /\ dest' = [j \in 1 .. n |-> buffer[j - 1]]
  BY DEF ramfs_fifo_read, Shifted
<1> HIDE DEF n
<1>3. \A i \in 0 .. Size - 1 : i < pos - n => i + n \in 0 .. Size - 1
  BY <1>1
<1>4. DataTypes'
  <2>1. buffer' \in [0 .. Size - 1 -> Nat]
    BY <1>2, <1>3 DEF Inv, DataTypes
  <2>2. pos' \in 0 .. Size /\ read' \in Nat /\ written' \in Nat
    BY <1>1, <1>2 DEF Inv, DataTypes
  <2> QED BY <2>1, <2>2 DEF DataTypes
<1>5. HoldsTheUnread'
  <2>1. pos' = written' - read'
    BY <1>1, <1>2 DEF Inv, DataTypes, HoldsTheUnread
  <2>2. ASSUME NEW i \in 0 .. pos' - 1
        PROVE  buffer'[i] = read' + i + 1
    <3>1. i \in 0 .. Size - 1 /\ i < pos - n /\ i + n \in 0 .. pos - 1
      BY <1>1, <1>2
    <3>2. buffer'[i] = buffer[i + n] /\ buffer[i + n] = read + (i + n) + 1
      BY <1>2, <3>1 DEF Inv, HoldsTheUnread
    <3> QED BY <1>1, <1>2, <3>1, <3>2 DEF Inv, DataTypes
  <2> QED BY <2>1, <2>2 DEF HoldsTheUnread
<1>6. dest' = [j \in 1 .. n |-> read + j]
  <2>1. \A j \in 1 .. n : j - 1 \in 0 .. pos - 1
    BY <1>1
  <2>2. \A j \in 1 .. n : buffer[j - 1] = read + j
    BY <1>1, <2>1 DEF Inv, HoldsTheUnread, DataTypes
  <2> QED BY <1>2, <2>2
<1> QED BY <1>4, <1>5, <1>6 DEF n

(* A write appends behind the bytes held.                                   *)
LEMMA WriteStep ==
    ASSUME Inv, NEW t \in Tasks, ramfs_fifo_write(t)
    PROVE  DataTypes' /\ HoldsTheUnread'
<1> DEFINE n == call[t].length
<1>1. n \in Nat /\ n <= Size - pos /\ pos \in 0 .. Size /\ Size \in Nat
  BY CallLength, SizeAssumption DEF Inv, DataTypes, ramfs_fifo_write, Writable
<1>2. /\ buffer' = [i \in 0 .. Size - 1 |-> IF pos <= i /\ i < pos + n
                                            THEN written + (i - pos) + 1 ELSE buffer[i]]
      /\ pos' = pos + n /\ read' = read /\ written' = written + n
  BY DEF ramfs_fifo_write, Stored
<1> HIDE DEF n
<1>3. DataTypes'
  <2>1. \A i \in 0 .. Size - 1 : pos <= i => written + (i - pos) + 1 \in Nat
    BY <1>1 DEF Inv, DataTypes
  <2>2. buffer' \in [0 .. Size - 1 -> Nat]
    BY <1>2, <2>1 DEF Inv, DataTypes
  <2>3. pos' \in 0 .. Size /\ read' \in Nat /\ written' \in Nat
    BY <1>1, <1>2 DEF Inv, DataTypes
  <2> QED BY <2>2, <2>3 DEF DataTypes
<1>4. HoldsTheUnread'
  <2>1. pos' = written' - read'
    BY <1>1, <1>2 DEF Inv, DataTypes, HoldsTheUnread
  <2>2. ASSUME NEW i \in 0 .. pos' - 1
        PROVE  buffer'[i] = read' + i + 1
    <3>1. i \in 0 .. Size - 1 /\ i < pos + n
      BY <1>1, <1>2
    <3>2. CASE i < pos
      BY <1>1, <1>2, <3>1, <3>2 DEF Inv, HoldsTheUnread
    <3>3. CASE pos <= i
      BY <1>1, <1>2, <3>1, <3>3 DEF Inv, HoldsTheUnread, DataTypes
    <3> QED BY <1>1, <3>1, <3>2, <3>3
  <2> QED BY <2>1, <2>2 DEF HoldsTheUnread
<1> QED BY <1>3, <1>4

-----------------------------------------------------------------------------
(* The file starts empty.                                                   *)
LEMMA InvInit == Init => Inv
<1> SUFFICES ASSUME Init PROVE Inv
  OBVIOUS
<1>1. DataTypes /\ HoldsTheUnread
  BY SizeAssumption DEF Init, DataTypes, HoldsTheUnread
<1>2. FileTypes /\ CallTypes
  BY DEF Init, FileTypes, CallTypes, Calls
<1> QED BY <1>1, <1>2 DEF Inv

(* Every step keeps the invariant.                                          *)
LEMMA InvStep == Inv /\ [Next]_vars => Inv'
<1> SUFFICES ASSUME Inv, [Next]_vars PROVE Inv'
  OBVIOUS
<1>1. ASSUME UNCHANGED data PROVE DataTypes' /\ HoldsTheUnread'
  BY <1>1 DEF Inv, data, DataTypes, HoldsTheUnread
<1>2. ASSUME UNCHANGED file PROVE FileTypes'
  BY <1>2 DEF Inv, file, FileTypes
<1>3. ASSUME NEW t \in Tasks, NEW mode \in (SUBSET Modes) \ {{}}, ramfs_fifo_open(t, mode)
      PROVE  Inv'
  <2>1. FileTypes'
    BY <1>3 DEF ramfs_fifo_open, Inv, FileTypes, Counted
  <2> QED BY <1>1, <1>3, <2>1 DEF ramfs_fifo_open, Inv, CallTypes
<1>4. ASSUME NEW t \in Tasks, ramfs_fifo_close(t)
      PROVE  Inv'
  <2>1. FileTypes'
    BY <1>4 DEF ramfs_fifo_close, Inv, FileTypes, Counted
  <2> QED BY <1>1, <1>4, <2>1 DEF ramfs_fifo_close, Inv, CallTypes
<1>5. ASSUME NEW t \in Tasks, NEW c \in Calls \ {Idle}, Begin(t, c)
      PROVE  Inv'
  <2>1. CallTypes'
    BY <1>5 DEF Begin, Inv, CallTypes
  <2> QED BY <1>1, <1>2, <1>5, <2>1 DEF Begin, Inv
<1>6. ASSUME NEW t \in Tasks, ramfs_fifo_read(t)
      PROVE  Inv'
  <2>1. Return(t)
    BY <1>6 DEF ramfs_fifo_read
  <2> QED BY <1>2, <1>6, <2>1, ReadStep, ReturnTypes DEF Inv, Return
<1>7. ASSUME NEW t \in Tasks, ramfs_fifo_write(t)
      PROVE  Inv'
  <2>1. Return(t)
    BY <1>7 DEF ramfs_fifo_write
  <2> QED BY <1>2, <1>7, <2>1, WriteStep, ReturnTypes DEF Inv, Return
<1>8. ASSUME NEW t \in Tasks, Refuse(t)
      PROVE  Inv'
  BY <1>1, <1>2, <1>8, ReturnTypes DEF Refuse, Return, Inv
<1>9. CASE UNCHANGED vars
  BY <1>1, <1>2, <1>9 DEF vars, Inv, CallTypes
<1> QED
  BY <1>3, <1>4, <1>5, <1>6, <1>7, <1>8, <1>9 DEF Next, Try, Retry

(* The buffer, the counters and the calls are right in every state.         *)
THEOREM Invariance == Spec => []Inv
BY InvInit, InvStep, PTL DEF Spec

(* The driver's position never leaves its buffer and every call a task is   *)
(* in is one it may make (fifo.c): Fifo's type invariant.                   *)
THEOREM TypeCorrect == Spec => []TypeOK
<1>1. Inv => TypeOK
  BY DEF Inv, DataTypes, FileTypes, CallTypes, TypeOK
<1> QED BY <1>1, Invariance, PTL

(* Reads and writes of any lengths, by any tasks in any order, keep the     *)
(* unread bytes in the buffer, complete and in order (fifo.c).              *)
THEOREM BufferCorrect == Spec => []HoldsTheUnread
<1>1. Inv => HoldsTheUnread
  BY DEF Inv
<1> QED BY <1>1, Invariance, PTL

(* If the longest read and the longest write together are at most one byte  *)
(* longer than the FIFO, no reader and writer ever wait for each other.     *)
THEOREM ShortTransfersNeverBlock == Spec => []NoMutualBlock
<1>1. Inv => NoMutualBlock
  <2> SUFFICES ASSUME Inv, ShortTransfers, NEW r \in Tasks, NEW w \in Tasks,
                      Blocked(r), call[r].op = "read", Blocked(w), call[w].op = "write"
               PROVE  FALSE
    BY DEF NoMutualBlock
  <2>1. /\ call[r].length \in ReadLengths /\ call[r].length \in Nat
        /\ call[w].length \in WriteLengths /\ call[w].length \in Nat
    BY CallLength DEF Inv
  <2>2. pos \in 0 .. Size /\ Size \in Nat
    BY SizeAssumption DEF Inv, DataTypes
  <2>3. ~(call[r].length <= pos) /\ ~(call[w].length <= Size - pos)
    BY DEF Blocked, Readable, Writable
  <2>4. call[r].length + call[w].length <= Size + 1
    BY <2>1 DEF ShortTransfers
  <2> QED BY <2>1, <2>2, <2>3, <2>4
<1> QED BY <1>1, Invariance, PTL

-----------------------------------------------------------------------------
(* fifo.c implements the byte channel: every read that succeeds delivers    *)
(* the oldest unread bytes, once and in order, and no more than Size bytes  *)
(* are ever under way.                                                      *)
THEOREM Refinement == Spec => ImplementsChannel
<1>1. Init => Channel!CInit
  BY DEF Init, Channel!CInit
<1>2. Inv /\ [Next]_vars => [Channel!CNext]_(Channel!cvars)
  <2> SUFFICES ASSUME Inv, [Next]_vars PROVE [Channel!CNext]_(Channel!cvars)
    OBVIOUS
  <2>1. ASSUME NEW t \in Tasks, ramfs_fifo_read(t)
        PROVE  Channel!CNext
    <3> DEFINE n == call[t].length
    <3>1. n \in ReadLengths \cup WriteLengths /\ n \in Nat /\ n <= pos
      BY <2>1, CallLength DEF Inv, ramfs_fifo_read, Readable
    <3>2. dest' = [j \in 1 .. n |-> read + j]
      BY <2>1, ReadStep
    <3>3. read' = read + n /\ written' = written
      BY <2>1 DEF ramfs_fifo_read
    <3>4. read + n <= written
      BY <3>1 DEF Inv, HoldsTheUnread, DataTypes
    <3>5. Channel!Receive(n)
      BY <3>2, <3>3, <3>4 DEF Channel!Receive
    <3> QED BY <3>1, <3>5 DEF Channel!CNext
  <2>2. ASSUME NEW t \in Tasks, ramfs_fifo_write(t)
        PROVE  Channel!CNext
    <3> DEFINE n == call[t].length
    <3>1. n \in ReadLengths \cup WriteLengths /\ n \in Nat /\ n <= Size - pos
      BY <2>2, CallLength DEF Inv, ramfs_fifo_write, Writable
    <3>2. written' = written + n /\ UNCHANGED <<read, dest>>
      BY <2>2 DEF ramfs_fifo_write
    <3>3. (written - read) + n <= Size
      BY <3>1, SizeAssumption DEF Inv, HoldsTheUnread, DataTypes
    <3>4. Channel!Send(n)
      BY <3>2, <3>3 DEF Channel!Send
    <3> QED BY <3>1, <3>4 DEF Channel!CNext
  <2>3. CASE UNCHANGED data
    BY <2>3 DEF data, Channel!cvars
  <2> QED
    BY <2>1, <2>2, <2>3
    DEF Next, Try, Retry, Refuse, Begin, ramfs_fifo_open, ramfs_fifo_close, vars
<1> QED BY <1>1, <1>2, Invariance, PTL DEF Spec, ImplementsChannel, Channel!CSpec

-----------------------------------------------------------------------------
(***************************************************************************)
(* Part two.  The members of a set of numbers, in order.                    *)
(***************************************************************************)

(* Every set of numbers has a least one.                                    *)
LEMMA Least ==
    ASSUME NEW T \in SUBSET Nat, T # {}
    PROVE  \E n \in T : \A m \in T : ~(m < n)
<1>1. IsWellFoundedOn(OpToRel(<, Nat), Nat)
  BY NatLessThanWellFounded
<1>2. PICK n \in T : \A m \in T : ~(<<m, n>> \in OpToRel(<, Nat))
  BY <1>1, WFMin
<1>3. \A m \in T : m < n => <<m, n>> \in OpToRel(<, Nat)
  BY DEF OpToRel
<1> QED BY <1>2, <1>3

-----------------------------------------------------------------------------
(* The members of a set up to one of them.                                  *)
UpToMember(S, n) == {m \in S : m <= n}

(* They are as many as a number up to the size of the set.                  *)
LEMMA MembersUpTo ==
    ASSUME NEW S \in SUBSET Nat, IsFiniteSet(S), NEW n \in S
    PROVE  /\ IsFiniteSet(UpToMember(S, n))
           /\ Cardinality(UpToMember(S, n)) \in 1 .. Cardinality(S)
<1> DEFINE T == UpToMember(S, n)
<1>1. T \subseteq S /\ n \in T
  BY DEF UpToMember
<1> HIDE DEF T
<1>2. IsFiniteSet(T) /\ Cardinality(T) <= Cardinality(S)
  BY <1>1, FS_Subset
<1>3. Cardinality(T) \in Nat /\ Cardinality(S) \in Nat
  BY <1>2, FS_CardinalityType
<1>4. Cardinality(T) # 0
  BY <1>1, <1>2, FS_EmptySet
<1> QED BY <1>2, <1>3, <1>4 DEF T

(* A member has more of them up to it than a smaller one.                   *)
LEMMA MoreMembers ==
    ASSUME NEW S \in SUBSET Nat, IsFiniteSet(S), NEW m \in S, NEW n \in S, m < n
    PROVE  Cardinality(UpToMember(S, m)) < Cardinality(UpToMember(S, n))
<1> DEFINE A == UpToMember(S, m)
           B == UpToMember(S, n)
<1>1. A \cup {n} \subseteq B /\ n \notin A
  <2>1. \A z \in S : z <= m => z <= n
    OBVIOUS
  <2>2. n <= n /\ ~(n <= m)
    OBVIOUS
  <2> QED BY <2>1, <2>2 DEF UpToMember
<1>2. IsFiniteSet(A) /\ IsFiniteSet(B) /\ Cardinality(A) \in Nat /\ Cardinality(B) \in Nat
  BY MembersUpTo
<1> HIDE DEF A, B
<1>3. IsFiniteSet(A \cup {n}) /\ Cardinality(A \cup {n}) = Cardinality(A) + 1
  BY <1>1, <1>2, FS_AddElement
<1>4. Cardinality(A \cup {n}) <= Cardinality(B)
  BY <1>1, <1>2, FS_Subset
<1>5. Cardinality(A) < Cardinality(B)
  BY <1>2, <1>3, <1>4
<1> QED BY <1>5 DEF A, B

(* So their number tells the members apart,                                 *)
LEMMA OneMember ==
    ASSUME NEW S \in SUBSET Nat, IsFiniteSet(S), NEW m \in S, NEW n \in S,
           Cardinality(UpToMember(S, m)) = Cardinality(UpToMember(S, n))
    PROVE  m = n
<1>1. Cardinality(UpToMember(S, m)) \in Nat /\ Cardinality(UpToMember(S, n)) \in Nat
  BY MembersUpTo
<1>2. ~(m < n) /\ ~(n < m)
  BY <1>1, MoreMembers
<1> QED BY <1>2

(* and every number up to the size of the set is that of one.               *)
LEMMA OrderIs ==
    ASSUME NEW S \in SUBSET Nat, IsFiniteSet(S)
    PROVE  /\ Cardinality(S) \in Nat /\ DOMAIN InOrder(S) = 1 .. Cardinality(S)
           /\ \A i \in 1 .. Cardinality(S) :
                  InOrder(S)[i] \in S /\ Cardinality(UpToMember(S, InOrder(S)[i])) = i
<1> DEFINE n == Cardinality(S)
           rank == [member \in S |-> Cardinality(UpToMember(S, member))]
<1>1. n \in Nat
  BY FS_CardinalityType
<1>2. rank \in [S -> 1 .. n]
  BY MembersUpTo
<1>3. rank \in Injection(S, 1 .. n)
  BY <1>2, OneMember DEF Injection, IsInjective
<1>4. IsFiniteSet(1 .. n) /\ Cardinality(1 .. n) = n
  BY <1>1, FS_Interval
<1>5. rank \in Surjection(S, 1 .. n)
  <2> HIDE DEF rank
  <2> QED BY <1>3, <1>4, FS_Injection
<1>6. ASSUME NEW i \in 1 .. n
      PROVE  InOrder(S)[i] \in S /\ Cardinality(UpToMember(S, InOrder(S)[i])) = i
  <2>1. PICK member \in S : rank[member] = i
    BY <1>5 DEF Surjection
  <2>2. Cardinality({m \in S : m <= member}) = i
    BY <2>1 DEF UpToMember
  <2>3. InOrder(S)[i] = CHOOSE found \in S : Cardinality({m \in S : m <= found}) = i
    BY DEF InOrder
  <2> DEFINE found == InOrder(S)[i]
  <2>4. found \in S /\ Cardinality({m \in S : m <= found}) = i
    BY <2>2, <2>3
  <2> QED BY <2>4 DEF UpToMember
<1>7. DOMAIN InOrder(S) = 1 .. n
  BY DEF InOrder
<1> QED BY <1>1, <1>6, <1>7

(* It is the order that has the member there.                               *)
LEMMA MemberAt ==
    ASSUME NEW S \in SUBSET Nat, IsFiniteSet(S), NEW i \in 1 .. Cardinality(S), NEW n \in S,
           Cardinality(UpToMember(S, n)) = i
    PROVE  InOrder(S)[i] = n
<1> DEFINE found == InOrder(S)[i]
<1>1. found \in S /\ Cardinality(UpToMember(S, found)) = i
  BY OrderIs
<1> HIDE DEF found
<1>2. found = n
  BY <1>1, OneMember
<1> QED BY <1>2 DEF found

(* The order of a set with a least member.                                  *)
LEMMA OrderFirst ==
    ASSUME NEW T \in SUBSET Nat, IsFiniteSet(T), NEW s \in Nat, \A t \in T : s < t,
           NEW S, S = {s} \cup T
    PROVE  /\ Cardinality(S) = Cardinality(T) + 1
           /\ InOrder(S)[1] = s
           /\ \A i \in 1 .. Cardinality(T) : InOrder(S)[i + 1] = InOrder(T)[i]
<1>1. s \notin T /\ S \in SUBSET Nat
  OBVIOUS
<1>2. IsFiniteSet(S) /\ Cardinality(S) = Cardinality(T) + 1 /\ Cardinality(T) \in Nat
  BY <1>1, FS_AddElement, FS_CardinalityType
<1>3. InOrder(S)[1] = s
  <2>1. UpToMember(S, s) = {s}
    <3>1. \A m \in S : m <= s <=> m = s
      BY <1>1
    <3> QED BY <3>1 DEF UpToMember
  <2>2. Cardinality(UpToMember(S, s)) = 1
    BY <2>1, FS_Singleton
  <2>3. 1 \in 1 .. Cardinality(S) /\ s \in S
    BY <1>2
  <2> QED BY <1>1, <1>2, <2>2, <2>3, MemberAt
<1>4. ASSUME NEW i \in 1 .. Cardinality(T) PROVE InOrder(S)[i + 1] = InOrder(T)[i]
  <2> DEFINE n == InOrder(T)[i]
             A == UpToMember(T, n)
  <2>1. n \in T /\ Cardinality(A) = i
    BY OrderIs
  <2>2. UpToMember(S, n) = A \cup {s} /\ s \notin A
    <3> HIDE DEF n
    <3>1. s <= n
      BY <2>1
    <3> QED BY <1>1, <3>1 DEF UpToMember
  <2>3. IsFiniteSet(A)
    BY <2>1, MembersUpTo
  <2> HIDE DEF A
  <2>4. Cardinality(UpToMember(S, n)) = i + 1
    BY <2>1, <2>2, <2>3, FS_AddElement
  <2>5. i + 1 \in 1 .. Cardinality(S) /\ n \in S
    BY <1>2, <2>1
  <2> HIDE DEF n
  <2>6. InOrder(S)[i + 1] = n
    BY <1>1, <1>2, <2>4, <2>5, MemberAt
  <2> QED BY <2>6 DEF n
<1> QED BY <1>2, <1>3, <1>4

(* The order of an interval.                                                *)
LEMMA OrderOfInterval ==
    ASSUME NEW a \in Nat, NEW b \in Nat, a <= b + 1
    PROVE  /\ Cardinality(a .. b) = b - a + 1
           /\ \A i \in 1 .. b - a + 1 : InOrder(a .. b)[i] = a + i - 1
<1>1. IsFiniteSet(a .. b) /\ Cardinality(a .. b) = b - a + 1 /\ a .. b \in SUBSET Nat
  BY FS_Interval
<1>2. ASSUME NEW i \in 1 .. b - a + 1 PROVE InOrder(a .. b)[i] = a + i - 1
  <2> DEFINE n == a + i - 1
  <2>1. n \in a .. b /\ UpToMember(a .. b, n) = a .. n /\ n \in Nat
    BY DEF UpToMember
  <2>2. Cardinality(a .. n) = n - a + 1
    BY <2>1, FS_Interval
  <2>3. Cardinality(UpToMember(a .. b, n)) = i
    BY <2>1, <2>2
  <2> HIDE DEF n
  <2>4. InOrder(a .. b)[i] = n
    <3>1. i \in 1 .. Cardinality(a .. b)
      BY <1>1
    <3> QED BY <1>1, <2>1, <2>3, <3>1, MemberAt
  <2> QED BY <2>4 DEF n
<1> QED BY <1>1, <1>2

-----------------------------------------------------------------------------
(***************************************************************************)
(* Part three.  Words: the tokens of a line are the runs of characters      *)
(* between separators, for quoting characters that need not be there.       *)
(***************************************************************************)

(* The number of quoting characters in a part of a line; a separator of the *)
(* part of a line from a on, the places where its words start, and where    *)
(* one of them ends.                                                        *)
Turned(str, q, a, n) == Cardinality({k \in a .. n : str[k] \in q})

Sep(str, q, a, n) == str[n] = SP /\ Turned(str, q, a, n) % 2 = 0

StartsFrom(str, q, a) ==
    {n \in a .. Len(str) : ~Sep(str, q, a, n) /\ (n = a \/ Sep(str, q, a, n - 1))}

IsEnd(str, q, a, n, e) ==
    /\ \A k \in n .. e : ~Sep(str, q, a, k)
    /\ e = Len(str) \/ Sep(str, q, a, e + 1)

(* Parts of a line count together.                                          *)
LEMMA TurnedJoin ==
    ASSUME NEW str, NEW q, NEW a \in Nat, NEW b \in Nat, NEW n \in Nat, a <= b, b <= n
    PROVE  /\ Turned(str, q, a, b - 1) \in Nat /\ Turned(str, q, b, n) \in Nat
           /\ Turned(str, q, a, n) = Turned(str, q, a, b - 1) + Turned(str, q, b, n)
<1> DEFINE A == {k \in a .. b - 1 : str[k] \in q}
           B == {k \in b .. n : str[k] \in q}
           C == {k \in a .. n : str[k] \in q}
<1>1. IsFiniteSet(A) /\ IsFiniteSet(B)
  <2>1. IsFiniteSet(a .. b - 1) /\ IsFiniteSet(b .. n)
    BY FS_Interval
  <2>2. A \subseteq a .. b - 1 /\ B \subseteq b .. n
    OBVIOUS
  <2> QED BY <2>1, <2>2, FS_Subset
<1>2. C = A \cup B /\ A \cap B = {}
  <2>1. \A k \in Int : k \in a .. n <=> k \in a .. b - 1 \/ k \in b .. n
    OBVIOUS
  <2>2. \A k : ~(k \in a .. b - 1 /\ k \in b .. n)
    OBVIOUS
  <2> QED BY <2>1, <2>2
<1> HIDE DEF A, B, C
<1>3. Cardinality(A) \in Nat /\ Cardinality(B) \in Nat
  BY <1>1, FS_CardinalityType
<1>4. Cardinality(A \cup B) = Cardinality(A) + Cardinality(B) - Cardinality({})
  BY <1>1, <1>2, FS_Union
<1>5. Cardinality({}) = 0
  BY FS_EmptySet
<1>6. Cardinality(C) = Cardinality(A) + Cardinality(B)
  BY <1>2, <1>3, <1>4, <1>5
<1> QED BY <1>3, <1>6 DEF Turned, A, B, C

(* Where nothing quotes, nothing is counted.                                *)
LEMMA TurnedNone ==
    ASSUME NEW str, NEW q, NEW a \in Nat, NEW n \in Int, \A k \in a .. n : str[k] \notin q
    PROVE  Turned(str, q, a, n) = 0
<1>1. {k \in a .. n : str[k] \in q} = {}
  OBVIOUS
<1> QED BY <1>1, FS_EmptySet DEF Turned

(* An even number does not change what is even.                             *)
LEMMA Parity ==
    ASSUME NEW m \in Nat, NEW n \in Nat, m % 2 = 0
    PROVE  (m + n) % 2 = n % 2
OBVIOUS

(* A count is a number.                                                     *)
LEMMA TurnedType ==
    ASSUME NEW str, NEW q, NEW a \in Nat, NEW n \in Int
    PROVE  Turned(str, q, a, n) \in Nat
<1>1. IsFiniteSet(a .. n)
  BY FS_Interval
<1>2. {k \in a .. n : str[k] \in q} \subseteq a .. n
  OBVIOUS
<1> QED BY <1>1, <1>2, FS_Subset, FS_CardinalityType DEF Turned

(* Behind an even number of quoting characters a separator is one of the    *)
(* rest alone.                                                              *)
LEMMA SepShift ==
    ASSUME NEW str, NEW q, NEW a \in Nat, NEW b \in Nat, NEW n \in Nat, a <= b, b <= n,
           Turned(str, q, a, b - 1) % 2 = 0
    PROVE  Sep(str, q, a, n) <=> Sep(str, q, b, n)
BY TurnedJoin, Parity DEF Sep

(* First is the least of a set of numbers, or the other when there is none. *)
LEMMA FirstIs ==
    ASSUME NEW T \in SUBSET Nat, NEW other
    PROVE  /\ T = {} => First(T, other) = other
           /\ T # {} => First(T, other) \in T /\ \A k \in T : First(T, other) <= k
<1>1. ASSUME T # {} PROVE First(T, other) \in T /\ \A k \in T : First(T, other) <= k
  <2>1. \E n \in T : \A k \in T : ~(k < n)
    BY <1>1, Least
  <2>2. \E n \in T : \A k \in T : n <= k
    BY <2>1
  <2> QED BY <1>1, <2>2 DEF First
<1> QED BY <1>1 DEF First

(* What strtokncesc finds from a place on: nothing, when no word starts     *)
(* there; otherwise the first word up to its end e, and a place b behind    *)
(* it from which the other words start.                                     *)
TokenFound(str, q, a, t, s, e, b) ==
    /\ t.token = SubSeq(str, s, e) /\ t.sp = b
    /\ s \in a .. Len(str) /\ e \in s .. Len(str) /\ b \in e + 1 .. Len(str) + 1
    /\ IsEnd(str, q, a, s, e)
    /\ StartsFrom(str, q, a) = {s} \cup StartsFrom(str, q, b)
    /\ \A n \in b .. Len(str) : Sep(str, q, a, n) <=> Sep(str, q, b, n)

(* strtokncesc finds a token in this sense, from every place of every line. *)
LEMMA TokenIs ==
    ASSUME NEW S, NEW str \in Seq(S), NEW a \in 1 .. Len(str) + 1,
           NEW esc, NEW ee, NEW q, q = esc \ ee, SP \notin q,
           NEW t, t = strtokncesc(str, a, {SP}, esc, ee)
    PROVE  \/ t.token = NULL /\ StartsFrom(str, q, a) = {}
           \/ \E first, last, rest \in Nat : TokenFound(str, q, a, t, first, last, rest)
<1> DEFINE L == Len(str)
           W == {n \in a .. L : str[n] \notin {SP}}
           s == First(W, L + 1)
           D == {n \in s .. L : str[n] \in {SP} /\ ~Quoted(str, s, n, q)}
           d == First(D, L + 1)
           b == IF d > L THEN d ELSE d + 1
           e == d - 1
<1>1. L \in Nat /\ a \in Nat
  OBVIOUS
<1> HIDE DEF L
<1>2. t = IF a = 0 \/ s > L THEN [token |-> NULL, sp |-> 0]
                           ELSE [token |-> SubSeq(str, s, d - 1),
                                 sp    |-> IF d > L THEN d ELSE d + 1]
  BY DEF strtokncesc, L
<1>3. W \in SUBSET Nat
  BY <1>1
<1>4. /\ W = {} => s = L + 1
      /\ W # {} => s \in W /\ \A k \in W : s <= k
  BY <1>3, FirstIs
<1>5. s \in a .. L + 1 /\ s \in Nat
  <2> HIDE DEF s
  <2>1. L + 1 \in a .. L + 1
    BY <1>1 DEF L
  <2> QED BY <1>1, <1>4, <2>1
<1>6. \A k \in a .. s - 1 : str[k] = SP /\ Sep(str, q, a, k)
  <2> HIDE DEF s
  <2>1. ASSUME NEW k \in a .. s - 1 PROVE str[k] = SP
    <3>1. k \in a .. L /\ ~(s <= k)
      BY <1>1, <1>5
    <3>2. k \notin W
      BY <1>4, <3>1
    <3> QED BY <3>1, <3>2
  <2>2. ASSUME NEW k \in a .. s - 1 PROVE Sep(str, q, a, k)
    <3>1. \A j \in a .. k : str[j] \notin q
      <4>1. \A j \in a .. k : j \in a .. s - 1
        BY <1>1, <1>5
      <4> QED BY <2>1, <4>1
    <3>2. Turned(str, q, a, k) = 0
      BY <1>1, <3>1, TurnedNone
    <3> QED BY <2>1, <3>2 DEF Sep
  <2> QED BY <2>1, <2>2
<1> HIDE DEF s
<1>7. CASE s > L
  <2>1. s = L + 1
    BY <1>1, <1>5, <1>7
  <2>2. t.token = NULL
    BY <1>2, <1>7
  <2>3. \A n \in a .. L : Sep(str, q, a, n)
    <3>1. a .. L = a .. s - 1
      BY <1>1, <2>1
    <3> QED BY <1>6, <3>1
  <2>4. StartsFrom(str, q, a) = {}
    BY <2>3 DEF StartsFrom, L
  <2> QED BY <2>2, <2>4
<1>8. CASE s <= L
  <2>1. D \in SUBSET Nat
    BY <1>1, <1>5
  <2>2. /\ D = {} => d = L + 1
        /\ D # {} => d \in D /\ \A k \in D : d <= k
    BY <2>1, FirstIs
  <2>3. str[s] # SP /\ s \in a .. L
    <3>1. W # {}
      BY <1>1, <1>4, <1>5, <1>8
    <3> QED BY <1>4, <3>1
  <2>4. d \in s + 1 .. L + 1 /\ d \in Nat
    <3> HIDE DEF d
    <3>1. s \notin D
      BY <2>3
    <3>2. D # {} => d # s
      BY <2>2, <3>1
    <3>3. \A k \in D : k \in s .. L
      OBVIOUS
    <3> HIDE DEF D
    <3>4. CASE D = {}
      BY <1>1, <1>5, <1>8, <2>2, <3>4
    <3>5. CASE D # {}
      <4>1. d \in s .. L /\ d # s
        BY <2>2, <3>2, <3>3, <3>5
      <4> QED BY <1>1, <1>5, <4>1
    <3> QED BY <3>4, <3>5
  <2>5. Turned(str, q, a, s - 1) = 0
    <3>1. \A k \in a .. s - 1 : str[k] \notin q
      BY <1>6
    <3> QED BY <1>1, <1>5, <3>1, TurnedNone
  <2>6. \A n \in s .. L : Sep(str, q, a, n) <=> Sep(str, q, s, n)
    <3>1. ASSUME NEW n \in s .. L PROVE Sep(str, q, a, n) <=> Sep(str, q, s, n)
      <4>1. n \in Nat /\ a <= s /\ s <= n
        BY <1>1, <1>5
      <4>2. Turned(str, q, a, s - 1) % 2 = 0
        BY <2>5
      <4> QED BY <1>1, <1>5, <4>1, <4>2, SepShift
    <3> QED BY <3>1
  <2>7. \A n \in s .. L : n \in D <=> Sep(str, q, a, n)
    <3>1. ASSUME NEW n \in s .. L PROVE n \in D <=> Sep(str, q, s, n)
      <4>1. Turned(str, q, s, n) \in Nat
        BY <1>1, <1>5, TurnedType
      <4>2. Quoted(str, s, n, q) <=> Turned(str, q, s, n) % 2 = 1
        BY DEF Quoted, Turned
      <4>3. \A i \in Nat : ~(i % 2 = 1) <=> i % 2 = 0
        OBVIOUS
      <4>4. ~Quoted(str, s, n, q) <=> Turned(str, q, s, n) % 2 = 0
        BY <4>1, <4>2, <4>3
      <4> QED BY <4>4 DEF Sep
    <3> QED BY <2>6, <3>1
  <2>8. e \in s .. L /\ d = e + 1 /\ b \in e + 1 .. L + 1 /\ e \in Nat /\ b \in Nat
    <3> HIDE DEF d
    <3> QED BY <1>1, <1>5, <2>4
  <2>9. \A k \in s .. e : ~Sep(str, q, a, k)
    <3> HIDE DEF d, D
    <3>1. ASSUME NEW k \in s .. e PROVE ~Sep(str, q, a, k)
      <4>1. k \in s .. L /\ ~(d <= k)
        BY <1>1, <1>5, <2>4, <2>8
      <4>2. k \notin D
        BY <2>2, <4>1
      <4> QED BY <2>7, <4>1, <4>2
    <3> QED BY <3>1
  <2>10. d <= L => Sep(str, q, a, d) /\ b = d + 1
    <3> HIDE DEF d, D
    <3>1. ASSUME d <= L PROVE Sep(str, q, a, d)
      <4>1. D # {} 
        BY <1>1, <2>2, <3>1
      <4>2. d \in D /\ d \in s .. L
        BY <1>1, <1>5, <2>2, <2>4, <3>1, <4>1
      <4> QED BY <2>7, <4>2
    <3>2. ASSUME d <= L PROVE b = d + 1
      BY <1>1, <2>4, <3>2
    <3> QED BY <3>1, <3>2
  <2>11. d > L => e = L /\ b = L + 1
    <3> HIDE DEF d
    <3> QED BY <1>1, <2>4
  <2>12. t.token = SubSeq(str, s, e) /\ t.sp = b
    <3> HIDE DEF d
    <3>1. ~(a = 0 \/ s > L)
      BY <1>1, <1>5, <1>8
    <3>2. t = [token |-> SubSeq(str, s, e), sp |-> b]
      BY <1>2, <3>1
    <3>3. \A tok, ptr : /\ [token |-> tok, sp |-> ptr].token = tok
                        /\ [token |-> tok, sp |-> ptr].sp = ptr
      OBVIOUS
    <3> HIDE DEF b, e
    <3> QED BY <3>2, <3>3
  <2> HIDE DEF d, D, W, b, e
  <2>13. IsEnd(str, q, a, s, e)
    <3>1. e = L \/ Sep(str, q, a, e + 1)
      BY <1>1, <2>4, <2>8, <2>10, <2>11
    <3> QED BY <2>9, <3>1 DEF IsEnd, L
  <2>14. \A n \in b .. L : Sep(str, q, a, n) <=> Sep(str, q, b, n)
    <3>1. ASSUME NEW n \in b .. L PROVE Sep(str, q, a, n) <=> Sep(str, q, b, n)
      <4>1. d <= L
        BY <1>1, <2>4, <2>8, <2>11
      <4>2. Turned(str, q, a, b - 1) % 2 = 0
        <5>1. b - 1 = d
          BY <1>1, <2>4, <2>8, <2>10, <4>1
        <5> QED BY <2>10, <4>1, <5>1 DEF Sep
      <4>3. n \in Nat /\ a <= b /\ b <= n
        BY <1>1, <1>5, <2>8
      <4> QED BY <1>1, <2>8, <4>2, <4>3, SepShift
    <3> QED BY <3>1
  <2>15. ASSUME NEW n \in a .. L
         PROVE  n \in StartsFrom(str, q, a) <=> n = s \/ n \in StartsFrom(str, q, b)
    <3>1. n \in StartsFrom(str, q, a) <=>
              ~Sep(str, q, a, n) /\ (n = a \/ Sep(str, q, a, n - 1))
      BY DEF StartsFrom, L
    <3>2. n \in StartsFrom(str, q, b) <=>
              n \in b .. L /\ ~Sep(str, q, b, n) /\ (n = b \/ Sep(str, q, b, n - 1))
      BY DEF StartsFrom, L
    <3>3. CASE n < s
      <4>1. n \in a .. s - 1 /\ n \notin b .. L /\ n # s
        BY <1>1, <1>5, <2>8, <3>3
      <4> QED BY <1>6, <3>1, <3>2, <4>1
    <3>4. CASE n = s
      <4>1. ~Sep(str, q, a, n)
        BY <2>3, <3>4 DEF Sep
      <4>2. n = a \/ n - 1 \in a .. s - 1
        BY <1>1, <1>5, <3>4
      <4> QED BY <1>6, <3>1, <3>4, <4>1, <4>2
    <3>5. CASE n > s /\ n <= e
      <4>1. n - 1 \in s .. e /\ n # a /\ n \notin b .. L /\ n # s
        BY <1>1, <1>5, <2>8, <3>5
      <4> QED BY <2>9, <3>1, <3>2, <4>1
    <3>6. CASE n = d
      <4>1. d <= L /\ n # s /\ n \notin b .. L
        BY <1>1, <1>5, <2>4, <2>8, <2>10, <3>6
      <4> QED BY <2>10, <3>1, <3>2, <3>6, <4>1
    <3>7. CASE n > d
      <4>1. d <= L /\ b = d + 1
        BY <1>1, <2>4, <2>10, <3>7
      <4>2. n \in b .. L /\ n # s /\ n # a
        BY <1>1, <1>5, <2>4, <3>7, <4>1
      <4>3. Sep(str, q, a, n) <=> Sep(str, q, b, n)
        BY <2>14, <4>2
      <4>4. CASE n = b
        <5>1. n - 1 = d
          BY <1>1, <2>4, <4>1, <4>4
        <5> QED BY <2>10, <3>1, <3>2, <4>1, <4>2, <4>3, <4>4, <5>1
      <4>5. CASE n # b
        <5>1. n - 1 \in b .. L
          BY <1>1, <2>8, <4>2, <4>5
        <5>2. Sep(str, q, a, n - 1) <=> Sep(str, q, b, n - 1)
          BY <2>14, <5>1
        <5> QED BY <3>1, <3>2, <4>2, <4>3, <4>5, <5>2
      <4> QED BY <4>4, <4>5
    <3>8. n < s \/ n = s \/ (n > s /\ n <= e) \/ n = d \/ n > d
      BY <1>1, <1>5, <2>4, <2>8
    <3> QED BY <3>3, <3>4, <3>5, <3>6, <3>7, <3>8
  <2>16. StartsFrom(str, q, a) = {s} \cup StartsFrom(str, q, b)
    <3>1. StartsFrom(str, q, a) \subseteq a .. L
      BY DEF StartsFrom, L
    <3>2. StartsFrom(str, q, b) \subseteq a .. L
      <4>1. b .. L \subseteq a .. L
        BY <1>1, <1>5, <2>8
      <4> QED BY <4>1 DEF StartsFrom, L
    <3> QED BY <2>3, <2>15, <3>1, <3>2
  <2>17. TokenFound(str, q, a, t, s, e, b)
    BY <2>3, <2>8, <2>12, <2>13, <2>14, <2>16 DEF TokenFound, L
  <2> QED BY <1>5, <2>8, <2>17
<1> HIDE DEF D, d, b, e, W
<1>9. s > L \/ s <= L
  BY <1>1, <1>5
<1> QED BY <1>7, <1>8, <1>9

(* What holds of a number when it holds of all larger ones holds of all.    *)
LEMMA Downward ==
    ASSUME NEW L \in Nat, NEW G,
           \A a \in 1 .. L : (\A b \in a + 1 .. L : b \in G) => a \in G
    PROVE  \A a \in 1 .. L : a \in G
<1>1. SUFFICES ASSUME NEW a \in 1 .. L, a \notin G PROVE FALSE
  OBVIOUS
<1> DEFINE T == {n \in 0 .. L : n < L /\ L - n \notin G}
<1>2. T \in SUBSET Nat
  OBVIOUS
<1>3. L - a \in T
  <2>1. L - a \in 0 .. L /\ L - a < L /\ L - (L - a) = a
    OBVIOUS
  <2> QED BY <1>1, <2>1
<1>4. PICK n \in T : \A m \in T : ~(m < n)
  <2> HIDE DEF T
  <2>1. T # {}
    BY <1>3
  <2> QED BY <1>2, <2>1, Least
<1>5. n \in 0 .. L /\ n < L /\ L - n \notin G
  OBVIOUS
<1>6. ASSUME NEW b \in L - n + 1 .. L PROVE b \in G
  <2>1. L - b \in 0 .. L /\ L - b < n /\ L - b < L /\ L - (L - b) = b
    BY <1>5
  <2>2. L - b \notin T
    <3> HIDE DEF T
    <3> QED BY <1>4, <2>1
  <2> QED BY <2>1, <2>2
<1>7. L - n \in 1 .. L
  BY <1>5
<1> QED BY <1>5, <1>6, <1>7

(* A sequence of N elements.                                                *)
Elements(f, N) == f = [i \in 1 .. N |-> f[i]]

(* A sequence with one element before another.                              *)
LEMMA IsSequence ==
    ASSUME NEW N \in Nat, NEW S, NEW V, Elements(V, N), \A i \in 1 .. N : V[i] \in S
    PROVE  V \in Seq(S) /\ Len(V) = N
<1>1. V \in [1 .. N -> S]
  BY DEF Elements
<1> QED BY <1>1

(* Joining is what its elements say.                                        *)
LEMMA OneBefore ==
    ASSUME NEW N \in Nat, NEW V, NEW W, Elements(W, N), Elements(V, N + 1),
           \A i \in 1 .. N : V[i + 1] = W[i]
    PROVE  V = <<V[1]>> \o W
<1> DEFINE C == <<V[1]>> \o W
           M == N + 1
           U == {V[i] : i \in 1 .. M}
<1>1. W \in Seq(U) /\ Len(W) = N
  <2>1. \A i \in 1 .. N : i + 1 \in 1 .. M
    OBVIOUS
  <2>2. \A i \in 1 .. N : W[i] \in U
    BY <2>1
  <2> HIDE DEF U
  <2> QED BY <2>2, IsSequence
<1>2. M \in Nat /\ \A j \in 1 .. M : j = 1 \/ (j - 1 \in 1 .. N /\ (j - 1) + 1 = j)
  OBVIOUS
<1>3. V \in Seq(U) /\ Len(V) = M /\ V[1] \in U
  <2>1. 1 \in 1 .. M /\ Elements(V, M)
    OBVIOUS
  <2>2. \A i \in 1 .. M : V[i] \in U
    OBVIOUS
  <2> HIDE DEF U, M
  <2> QED BY <1>2, <2>1, <2>2, IsSequence
<1> HIDE DEF U
<1>4. <<V[1]>> \in Seq(U) /\ Len(<<V[1]>>) = 1
  BY <1>3
<1>5. /\ C \in Seq(U) /\ Len(C) = M /\ C[1] = V[1]
      /\ \A i \in 1 .. N : C[i + 1] = W[i]
  BY <1>1, <1>4, ConcatProperties
<1> HIDE DEF C, M
<1>6. ASSUME NEW j \in 1 .. M PROVE V[j] = C[j]
  <2>1. CASE j = 1
    BY <1>5, <2>1
  <2>2. ASSUME NEW i \in 1 .. N, i + 1 = j PROVE V[j] = C[j]
    BY <1>5, <2>2
  <2> QED BY <1>2, <2>1, <2>2
<1>7. V = C
  BY <1>3, <1>5, <1>6, SeqEqual
<1> QED BY <1>7 DEF C

(* The end of the word that starts at n, and the words from a place on.     *)
EndFrom(str, q, a, n) == CHOOSE e \in n .. Len(str) : IsEnd(str, q, a, n, e)

WordsFrom(str, q, a) ==
    LET starts == InOrder(StartsFrom(str, q, a))
    IN [i \in DOMAIN starts |-> SubSeq(str, starts[i], EndFrom(str, q, a, starts[i]))]

(* The places where words start are places of the line.                     *)
LEMMA StartsType ==
    ASSUME NEW S, NEW str \in Seq(S), NEW q, NEW a \in 1 .. Len(str) + 1
    PROVE  /\ StartsFrom(str, q, a) \in SUBSET Nat /\ IsFiniteSet(StartsFrom(str, q, a))
           /\ \A n \in StartsFrom(str, q, a) : n \in a .. Len(str)
           /\ Cardinality(StartsFrom(str, q, a)) \in Nat
<1>1. StartsFrom(str, q, a) \subseteq a .. Len(str) /\ Len(str) \in Nat
  BY DEF StartsFrom
<1>2. IsFiniteSet(a .. Len(str)) /\ a .. Len(str) \subseteq Nat
  BY <1>1, FS_Interval
<1> QED BY <1>1, <1>2, FS_Subset, FS_CardinalityType

(* A word has one end.                                                      *)
LEMMA OneEnd ==
    ASSUME NEW S, NEW str \in Seq(S), NEW q, NEW a \in 1 .. Len(str) + 1,
           NEW n \in 1 .. Len(str),
           NEW e \in n .. Len(str), IsEnd(str, q, a, n, e),
           NEW d \in n .. Len(str), IsEnd(str, q, a, n, d)
    PROVE  d = e
<1>1. Len(str) \in Nat
  OBVIOUS
<1>2. ~(d < e)
  <2>1. SUFFICES ASSUME d < e PROVE FALSE
    OBVIOUS
  <2>2. d # Len(str) /\ d + 1 \in n .. e
    BY <1>1, <2>1
  <2> QED BY <2>2 DEF IsEnd
<1>3. ~(e < d)
  <2>1. SUFFICES ASSUME e < d PROVE FALSE
    OBVIOUS
  <2>2. e # Len(str) /\ e + 1 \in n .. d
    BY <1>1, <2>1
  <2> QED BY <2>2 DEF IsEnd
<1> QED BY <1>1, <1>2, <1>3

(* And it has one: EndFrom gives an end.                                    *)
LEMMA EndIs ==
    ASSUME NEW S, NEW str \in Seq(S), NEW q, NEW a \in 1 .. Len(str) + 1,
           NEW n \in StartsFrom(str, q, a)
    PROVE  /\ EndFrom(str, q, a, n) \in n .. Len(str)
           /\ IsEnd(str, q, a, n, EndFrom(str, q, a, n))
<1> DEFINE L == Len(str)
           T == {k \in n .. L : k = L \/ Sep(str, q, a, k + 1)}
<1>1. L \in Nat /\ n \in a .. L /\ a \in Nat /\ n \in Nat
  <2>1. n \in a .. L /\ L \in Nat
    BY StartsType
  <2> QED BY <2>1
<1>2. ~Sep(str, q, a, n)
  BY DEF StartsFrom
<1>3. T \in SUBSET Nat /\ L \in T
  BY <1>1
<1>4. PICK e \in T : \A m \in T : ~(m < e)
  <2> HIDE DEF T
  <2> QED BY <1>3, Least
<1>5. e \in n .. L /\ (e = L \/ Sep(str, q, a, e + 1))
  OBVIOUS
<1>6. ASSUME NEW k \in n .. e PROVE ~Sep(str, q, a, k)
  <2>1. CASE k = n
    BY <1>2, <2>1
  <2>2. CASE k # n
    <3>1. k - 1 \in n .. L /\ k - 1 < e /\ (k - 1) + 1 = k
      BY <1>1, <1>5, <2>2
    <3>2. k - 1 \notin T
      <4> HIDE DEF T
      <4> QED BY <1>4, <3>1
    <3> QED BY <3>1, <3>2
  <2> QED BY <2>1, <2>2
<1>7. IsEnd(str, q, a, n, e)
  BY <1>5, <1>6 DEF IsEnd
<1> QED BY <1>5, <1>7 DEF EndFrom

(* The words from a place on, when a token is found there.                  *)
Joined(S, str, q, a, t, b) ==
    /\ WordsFrom(str, q, a) = <<t.token>> \o WordsFrom(str, q, b)
    /\ t.sp = b /\ t.token \in Seq(S) /\ b \in a + 1 .. Len(str) + 1

(* The word found is the first, and those from the place behind it follow.  *)
LEMMA WordsJoin ==
    ASSUME NEW S, NEW str \in Seq(S), NEW q, NEW a \in 1 .. Len(str) + 1,
           NEW t, NEW s \in Nat, NEW e \in Nat, NEW b \in Nat,
           TokenFound(str, q, a, t, s, e, b)
    PROVE  Joined(S, str, q, a, t, b)
<1> DEFINE L == Len(str)
           A == StartsFrom(str, q, a)
           B == StartsFrom(str, q, b)
           V == WordsFrom(str, q, a)
           W == WordsFrom(str, q, b)
<1>1. L \in Nat /\ s \in a .. L /\ e \in s .. L /\ b \in a + 1 .. L + 1 /\ b \in 1 .. L + 1
      /\ b > s /\ s \in 1 .. L
  BY DEF TokenFound
<1>2. /\ t.token = SubSeq(str, s, e) /\ t.sp = b /\ IsEnd(str, q, a, s, e)
      /\ A = {s} \cup B /\ \A n \in b .. L : Sep(str, q, a, n) <=> Sep(str, q, b, n)
  BY DEF TokenFound
<1>3. t.token \in Seq(S)
  <2>1. SubSeq(str, s, e) \in Seq(S)
    BY <1>1, SubSeqProperties
  <2> QED BY <1>2, <2>1
<1>4. /\ B \in SUBSET Nat /\ IsFiniteSet(B) /\ \A n \in B : n \in b .. L
      /\ Cardinality(B) \in Nat
  BY <1>1, StartsType
<1>5. /\ Cardinality(A) = Cardinality(B) + 1 /\ InOrder(A)[1] = s
      /\ \A i \in 1 .. Cardinality(B) : InOrder(A)[i + 1] = InOrder(B)[i]
  <2>1. \A n \in B : s < n
    <3> HIDE DEF B
    <3> QED BY <1>1, <1>4
  <2>2. B \in SUBSET Nat /\ IsFiniteSet(B) /\ A = {s} \cup B
    BY <1>2, <1>4
  <2> HIDE DEF A, B
  <2> QED BY <2>1, <2>2, OrderFirst
<1>6. /\ DOMAIN InOrder(A) = 1 .. Cardinality(A) /\ DOMAIN InOrder(B) = 1 .. Cardinality(B)
      /\ \A i \in 1 .. Cardinality(B) : InOrder(B)[i] \in B
  <2>1. A \in SUBSET Nat /\ IsFiniteSet(A)
    BY StartsType
  <2> HIDE DEF A, B
  <2> QED BY <1>4, <2>1, OrderIs
<1>7. V = [i \in 1 .. Cardinality(A) |->
              SubSeq(str, InOrder(A)[i], EndFrom(str, q, a, InOrder(A)[i]))]
  BY <1>6 DEF WordsFrom
<1>8. W = [i \in 1 .. Cardinality(B) |->
              SubSeq(str, InOrder(B)[i], EndFrom(str, q, b, InOrder(B)[i]))]
  BY <1>6 DEF WordsFrom
<1>9. EndFrom(str, q, a, s) = e
  <2>1. EndFrom(str, q, a, s) \in s .. L /\ IsEnd(str, q, a, s, EndFrom(str, q, a, s))
    BY <1>1, <1>2 DEF EndFrom
  <2> QED BY <1>1, <1>2, <2>1, OneEnd
<1>10. ASSUME NEW n \in B PROVE EndFrom(str, q, a, n) = EndFrom(str, q, b, n)
  <2>1. n \in b .. L
    BY <1>4
  <2>2. ASSUME NEW d \in n .. L PROVE IsEnd(str, q, a, n, d) <=> IsEnd(str, q, b, n, d)
    <3>1. \A k \in n .. d : k \in b .. L
      BY <1>1, <2>1
    <3>2. d = L \/ d + 1 \in b .. L
      BY <1>1, <2>1
    <3> QED BY <1>2, <3>1, <3>2 DEF IsEnd
  <2> QED BY <2>2 DEF EndFrom
<1> HIDE DEF A, B, V, W
<1>11. V[1] = t.token
  <2>1. 1 \in 1 .. Cardinality(A)
    BY <1>4, <1>5
  <2> QED BY <1>2, <1>5, <1>7, <1>9, <2>1
<1>12. ASSUME NEW i \in 1 .. Cardinality(B) PROVE V[i + 1] = W[i]
  <2>1. i + 1 \in 1 .. Cardinality(A)
    BY <1>4, <1>5
  <2>2. V[i + 1] = SubSeq(str, InOrder(B)[i], EndFrom(str, q, a, InOrder(B)[i]))
    BY <1>5, <1>7, <2>1
  <2>3. EndFrom(str, q, a, InOrder(B)[i]) = EndFrom(str, q, b, InOrder(B)[i])
    BY <1>6, <1>10
  <2> QED BY <1>8, <2>2, <2>3
<1>13. V = <<t.token>> \o W
  <2>1. Elements(V, Cardinality(B) + 1) /\ Elements(W, Cardinality(B))
    BY <1>5, <1>7, <1>8 DEF Elements
  <2>2. V = <<V[1]>> \o W
    BY <1>4, <1>12, <2>1, OneBefore
  <2> QED BY <1>11, <2>2
<1> QED BY <1>1, <1>2, <1>3, <1>13 DEF Joined, V, W

(* The equation of the recursive function in Tokens.                        *)
IsTokens(f, str, esc, ee) ==
    f = [sp \in 0 .. Len(str) + 1 |->
            IF strtokncesc(str, sp, {SP}, esc, ee).token = NULL THEN <<>>
            ELSE <<strtokncesc(str, sp, {SP}, esc, ee).token>>
                     \o f[strtokncesc(str, sp, {SP}, esc, ee).sp]]

(* Where no word starts, there are none.                                    *)
LEMMA NoWords ==
    ASSUME NEW str, NEW q, NEW a, StartsFrom(str, q, a) = {}
    PROVE  WordsFrom(str, q, a) = <<>>
<1>1. Cardinality({}) = 0
  BY FS_EmptySet
<1>2. DOMAIN InOrder({}) = {}
  <2>1. 1 .. 0 = {}
    OBVIOUS
  <2> QED BY <1>1, <2>1 DEF InOrder
<1>3. \A f, g : DOMAIN f = {} /\ f = [i \in DOMAIN f |-> g[i]] => f = <<>>
  OBVIOUS
<1>4. WordsFrom(str, q, a) =
          [i \in {} |-> SubSeq(str, InOrder({})[i], EndFrom(str, q, a, InOrder({})[i]))]
  BY <1>2 DEF WordsFrom
<1> QED BY <1>4

(* A function of this equation exists, since a token moves the place on.    *)
LEMMA TokensEquation ==
    ASSUME NEW S, NULL \notin Seq(S), NEW str \in Seq(S),
           NEW esc, NEW ee, NEW q, q = esc \ ee, SP \notin q
    PROVE  \E f : IsTokens(f, str, esc, ee)
<1> DEFINE f == [sp \in 0 .. Len(str) + 1 |->
                    IF sp = 0 THEN <<>> ELSE WordsFrom(str, q, sp)]
           T(sp) == strtokncesc(str, sp, {SP}, esc, ee)
<1>1. Len(str) \in Nat
  OBVIOUS
<1>2. T(0).token = NULL
  <2>1. T(0) = [token |-> NULL, sp |-> 0]
    BY DEF strtokncesc
  <2> HIDE DEF T
  <2> QED BY <2>1
<1>3. ASSUME NEW a \in 1 .. Len(str) + 1
      PROVE  f[a] = IF T(a).token = NULL THEN <<>> ELSE <<T(a).token>> \o f[T(a).sp]
  <2> HIDE DEF T
  <2>1. f[a] = WordsFrom(str, q, a)
    BY <1>1
  <2>2. CASE T(a).token = NULL /\ StartsFrom(str, q, a) = {}
    BY <2>1, <2>2, NoWords
  <2>3. ASSUME NEW s \in Nat, NEW e \in Nat, NEW b \in Nat, TokenFound(str, q, a, T(a), s, e, b)
        PROVE  f[a] = IF T(a).token = NULL THEN <<>> ELSE <<T(a).token>> \o f[T(a).sp]
    <3> DEFINE t == T(a)
    <3>1. TokenFound(str, q, a, t, s, e, b)
      BY <2>3
    <3> HIDE DEF t
    <3>2. Joined(S, str, q, a, t, b)
      BY <3>1, WordsJoin
    <3>3. /\ WordsFrom(str, q, a) = <<t.token>> \o WordsFrom(str, q, b)
          /\ t.sp = b /\ t.token \in Seq(S) /\ b \in a + 1 .. Len(str) + 1
      BY <3>2 DEF Joined
    <3> USE DEF t
    <3>4. f[b] = WordsFrom(str, q, b)
      BY <1>1, <3>3
    <3> HIDE DEF f
    <3> QED BY <2>1, <3>3, <3>4
  <2>4. \/ T(a).token = NULL /\ StartsFrom(str, q, a) = {}
        \/ \E s, e, b \in Nat : TokenFound(str, q, a, T(a), s, e, b)
    BY TokenIs DEF T
  <2> QED BY <2>2, <2>3, <2>4
<1>4. f[0] = <<>>
  BY <1>1
<1>5. f = [sp \in 0 .. Len(str) + 1 |->
              IF T(sp).token = NULL THEN <<>> ELSE <<T(sp).token>> \o f[T(sp).sp]]
  <2> DEFINE g == [sp \in 0 .. Len(str) + 1 |->
                      IF T(sp).token = NULL THEN <<>> ELSE <<T(sp).token>> \o f[T(sp).sp]]
  <2> HIDE DEF T
  <2>1. DOMAIN f = 0 .. Len(str) + 1 /\ f = [sp \in DOMAIN f |-> f[sp]]
    OBVIOUS
  <2> HIDE DEF f
  <2>2. \A sp \in 0 .. Len(str) + 1 :
            f[sp] = IF T(sp).token = NULL THEN <<>> ELSE <<T(sp).token>> \o f[T(sp).sp]
    <3>1. \A sp \in 0 .. Len(str) + 1 : sp = 0 \/ sp \in 1 .. Len(str) + 1
      BY <1>1
    <3> QED BY <1>2, <1>3, <1>4, <3>1
  <2> QED BY <2>1, <2>2
<1>6. IsTokens(f, str, esc, ee)
  <2> HIDE DEF f
  <2> QED BY <1>5 DEF IsTokens
<1> QED BY <1>6

(* The tokens of a line are its words, quotes and all.                      *)
LEMMA TokensAre ==
    ASSUME NEW S, NULL \notin Seq(S), NEW str \in Seq(S),
           NEW esc, NEW ee, NEW q, q = esc \ ee, SP \notin q,
           NEW f, IsTokens(f, str, esc, ee)
    PROVE  f[1] = WordsFrom(str, q, 1)
<1> DEFINE L == Len(str) + 1
           G == {a \in 1 .. L : f[a] = WordsFrom(str, q, a)}
           T(sp) == strtokncesc(str, sp, {SP}, esc, ee)
<1>1. L \in Nat /\ 1 \in 1 .. L /\ Len(str) \in Nat
  OBVIOUS
<1>2. ASSUME NEW a \in 1 .. L, \A b \in a + 1 .. L : b \in G
      PROVE  a \in G
  <2>1. f[a] = IF T(a).token = NULL THEN <<>> ELSE <<T(a).token>> \o f[T(a).sp]
    <3>1. a \in 0 .. Len(str) + 1
      BY <1>1
    <3> QED BY <3>1 DEF IsTokens
  <2> HIDE DEF T
  <2>2. CASE T(a).token = NULL /\ StartsFrom(str, q, a) = {}
    BY <2>1, <2>2, NoWords
  <2>3. ASSUME NEW s \in Nat, NEW e \in Nat, NEW b \in Nat, TokenFound(str, q, a, T(a), s, e, b)
        PROVE  a \in G
    <3> DEFINE t == T(a)
    <3>1. TokenFound(str, q, a, t, s, e, b)
      BY <2>3
    <3> HIDE DEF t
    <3>2. Joined(S, str, q, a, t, b)
      BY <3>1, WordsJoin
    <3>3. /\ WordsFrom(str, q, a) = <<t.token>> \o WordsFrom(str, q, b)
          /\ t.sp = b /\ t.token \in Seq(S) /\ b \in a + 1 .. Len(str) + 1
      BY <3>2 DEF Joined
    <3> USE DEF t
    <3>4. f[b] = WordsFrom(str, q, b)
      BY <1>2, <3>3
    <3>5. f[a] = WordsFrom(str, q, a)
      BY <2>1, <3>3, <3>4
    <3> QED BY <3>5
  <2>4. \/ T(a).token = NULL /\ StartsFrom(str, q, a) = {}
        \/ \E s, e, b \in Nat : TokenFound(str, q, a, T(a), s, e, b)
    BY TokenIs DEF T
  <2> QED BY <2>2, <2>3, <2>4
<1>3. \A a \in 1 .. L : a \in G
  <2> HIDE DEF L, G
  <2> QED BY <1>1, <1>2, Downward
<1> QED BY <1>1, <1>3

(* A shell without quotes: stsh.                                            *)
LEMMA StshWords ==
    ASSUME NEW S, NULL \notin Seq(S), NEW str \in Seq(S)
    PROVE  stsh(str) = WordsFrom(str, {}, 1)
<1> DEFINE none == {}
           f == CHOOSE g : IsTokens(g, str, none, none)
<1>1. none = none \ none /\ SP \notin none
  OBVIOUS
<1>2. stsh(str) = f[1]
  BY DEF stsh, Tokens, strtoknc, IsTokens
<1> HIDE DEF none
<1>3. IsTokens(f, str, none, none)
  <2>1. \E g : IsTokens(g, str, none, none)
    BY <1>1, TokensEquation
  <2> QED BY <2>1
<1> HIDE DEF f
<1>4. f[1] = WordsFrom(str, none, 1)
  BY <1>1, <1>3, TokensAre
<1> QED BY <1>2, <1>4 DEF none

-----------------------------------------------------------------------------
(***************************************************************************)
(* Part four.  What is left of a part of a line when characters are left out,*)
(* and that replaceAll leaves out the quotes.                               *)
(***************************************************************************)

(* The characters of a part of a line, in order, without those of q.        *)
KeptPlaces(str, q, n, e) == {k \in n .. e : str[k] \notin q}

KeptOf(str, q, n, e) ==
    LET kept == InOrder(KeptPlaces(str, q, n, e))
    IN [j \in DOMAIN kept |-> str[kept[j]]]

KeptAre(str, q, n, e, K) ==
    /\ K \in SUBSET Nat /\ IsFiniteSet(K) /\ Cardinality(K) \in Nat
    /\ Elements(KeptOf(str, q, n, e), Cardinality(K))
    /\ \A j \in 1 .. Cardinality(K) : /\ InOrder(K)[j] \in n .. e
                                     /\ KeptOf(str, q, n, e)[j] = str[InOrder(K)[j]]

(* They are as many as their places, and each is of that part of the line.  *)
LEMMA KeptType ==
    ASSUME NEW str, NEW q, NEW n \in Nat, NEW e \in Nat
    PROVE  KeptAre(str, q, n, e, KeptPlaces(str, q, n, e))
<1> DEFINE K == KeptPlaces(str, q, n, e)
<1>1. K \subseteq n .. e
  BY DEF KeptPlaces
<1>2. IsFiniteSet(n .. e) /\ n .. e \subseteq Nat
  BY FS_Interval
<1>3. K \in SUBSET Nat /\ IsFiniteSet(K) /\ Cardinality(K) \in Nat
  BY <1>1, <1>2, FS_Subset, FS_CardinalityType
<1>4. DOMAIN InOrder(K) = 1 .. Cardinality(K) /\ \A j \in 1 .. Cardinality(K) : InOrder(K)[j] \in K
  BY <1>3, OrderIs
<1>5. KeptOf(str, q, n, e) = [j \in 1 .. Cardinality(K) |-> str[InOrder(K)[j]]]
  BY <1>4 DEF KeptOf
<1>6. Elements(KeptOf(str, q, n, e), Cardinality(K))
  BY <1>5 DEF Elements
<1>7. \A j \in 1 .. Cardinality(K) : KeptOf(str, q, n, e)[j] = str[InOrder(K)[j]]
  BY <1>5
<1> HIDE DEF K
<1>8. KeptAre(str, q, n, e, K)
  BY <1>1, <1>3, <1>4, <1>6, <1>7 DEF KeptAre
<1> QED BY <1>8 DEF K

(* They are characters of the line.                                         *)
LEMMA KeptSeq ==
    ASSUME NEW S, NEW str \in Seq(S), NEW q, NEW n \in 1 .. Len(str) + 1, NEW e \in 0 .. Len(str)
    PROVE  KeptOf(str, q, n, e) \in Seq(S)
<1> DEFINE K == KeptPlaces(str, q, n, e)
<1>1. n \in Nat /\ e \in Nat
  OBVIOUS
<1>2. /\ Cardinality(K) \in Nat
      /\ Elements(KeptOf(str, q, n, e), Cardinality(K))
      /\ \A j \in 1 .. Cardinality(K) : /\ InOrder(K)[j] \in n .. e
                                       /\ KeptOf(str, q, n, e)[j] = str[InOrder(K)[j]]
  <2>1. KeptAre(str, q, n, e, K)
    BY <1>1, KeptType
  <2> QED BY <2>1 DEF KeptAre
<1> HIDE DEF K
<1>3. \A k \in n .. e : str[k] \in S
  OBVIOUS
<1>4. KeptOf(str, q, n, e) \in [1 .. Cardinality(K) -> S]
  BY <1>2, <1>3 DEF Elements
<1> QED BY <1>2, <1>4

(* One character after the other.                                           *)
LEMMA KeptJoin ==
    ASSUME NEW str, NEW q, NEW n \in Nat, NEW e \in Nat, n <= e
    PROVE  /\ str[n] \in q => KeptOf(str, q, n, e) = KeptOf(str, q, n + 1, e)
           /\ str[n] \notin q => KeptOf(str, q, n, e) = <<str[n]>> \o KeptOf(str, q, n + 1, e)
<1> DEFINE A == KeptPlaces(str, q, n, e)
           B == KeptPlaces(str, q, n + 1, e)
           V == KeptOf(str, q, n, e)
           W == KeptOf(str, q, n + 1, e)
<1>1. ASSUME str[n] \in q PROVE V = W
  <2>1. \A k \in n .. e : k = n \/ k \in n + 1 .. e
    OBVIOUS
  <2>2. \A k \in n + 1 .. e : k \in n .. e
    OBVIOUS
  <2>3. A = B
    BY <1>1, <2>1, <2>2 DEF KeptPlaces
  <2> QED BY <2>3 DEF KeptOf
<1>2. ASSUME str[n] \notin q PROVE V = <<str[n]>> \o W
  <2>1. A = {n} \cup B /\ \A k \in B : n < k
    <3>1. \A k : k \in n .. e <=> k = n \/ k \in n + 1 .. e
      OBVIOUS
    <3>2. \A k \in n + 1 .. e : n < k
      OBVIOUS
    <3> QED BY <1>2, <3>1, <3>2 DEF KeptPlaces
  <2>2. KeptAre(str, q, n + 1, e, B)
    <3>1. n + 1 \in Nat
      OBVIOUS
    <3> QED BY <3>1, KeptType
  <2>3. B \in SUBSET Nat /\ IsFiniteSet(B) /\ Cardinality(B) \in Nat
    BY <2>2 DEF KeptAre
  <2>4. Elements(W, Cardinality(B)) /\ \A j \in 1 .. Cardinality(B) : W[j] = str[InOrder(B)[j]]
    BY <2>2 DEF KeptAre
  <2>5. KeptAre(str, q, n, e, A)
    BY KeptType
  <2>6. Elements(V, Cardinality(A)) /\ \A j \in 1 .. Cardinality(A) : V[j] = str[InOrder(A)[j]]
    BY <2>5 DEF KeptAre
  <2> HIDE DEF A, B, V, W
  <2>7. /\ Cardinality(A) = Cardinality(B) + 1 /\ InOrder(A)[1] = n
        /\ \A i \in 1 .. Cardinality(B) : InOrder(A)[i + 1] = InOrder(B)[i]
    BY <2>1, <2>3, OrderFirst
  <2>8. V[1] = str[n]
    <3>1. 1 \in 1 .. Cardinality(A)
      BY <2>3, <2>7
    <3> QED BY <2>6, <2>7, <3>1
  <2>9. ASSUME NEW i \in 1 .. Cardinality(B) PROVE V[i + 1] = W[i]
    <3>1. i + 1 \in 1 .. Cardinality(A)
      BY <2>3, <2>7
    <3> QED BY <2>4, <2>6, <2>7, <3>1
  <2>10. Elements(V, Cardinality(B) + 1)
    BY <2>6, <2>7
  <2>11. V = <<V[1]>> \o W
    BY <2>3, <2>4, <2>9, <2>10, OneBefore
  <2> QED BY <2>8, <2>11
<1> QED BY <1>1, <1>2 DEF V, W

(* An empty part keeps nothing.                                             *)
LEMMA KeptNone ==
    ASSUME NEW str, NEW q, NEW n \in Nat, NEW e \in Nat, n > e
    PROVE  KeptOf(str, q, n, e) = <<>>
<1>1. KeptPlaces(str, q, n, e) = {}
  BY DEF KeptPlaces
<1>2. Cardinality({}) = 0 /\ 1 .. 0 = {}
  BY FS_EmptySet
<1>3. Elements(KeptOf(str, q, n, e), 0)
  <2>1. KeptAre(str, q, n, e, {})
    BY <1>1, KeptType
  <2> QED BY <1>2, <2>1 DEF KeptAre
<1> QED BY <1>2, <1>3 DEF Elements

(* Without anything to leave out, the part is the part.                     *)
LEMMA KeptAll ==
    ASSUME NEW S, NEW str \in Seq(S), NEW n \in 1 .. Len(str) + 1, NEW e \in n - 1 .. Len(str)
    PROVE  KeptOf(str, {}, n, e) = SubSeq(str, n, e)
<1> DEFINE K == KeptPlaces(str, {}, n, e)
           C == Cardinality(K)
           V == KeptOf(str, {}, n, e)
           W == SubSeq(str, n, e)
<1>1. n \in Nat /\ e \in Nat /\ n <= e + 1
  OBVIOUS
<1>2. K = n .. e
  BY DEF KeptPlaces
<1>3. C = e - n + 1 /\ \A i \in 1 .. e - n + 1 : InOrder(K)[i] = n + i - 1
  <2> HIDE DEF K
  <2> QED BY <1>1, <1>2, OrderOfInterval
<1>4. Elements(V, C) /\ \A j \in 1 .. C : V[j] = str[InOrder(K)[j]]
  <2>1. KeptAre(str, {}, n, e, K)
    BY <1>1, KeptType
  <2> QED BY <2>1 DEF KeptAre
<1>5. V \in Seq(S)
  <2>1. e \in 0 .. Len(str)
    OBVIOUS
  <2> QED BY <2>1, KeptSeq
<1> HIDE DEF K, V, C
<1>6. \A i \in n .. e : str[i] \in S
  OBVIOUS
<1>7. /\ W \in Seq(S) /\ Len(W) = IF n <= e THEN e - n + 1 ELSE 0
      /\ \A i \in 1 .. e - n + 1 : W[i] = str[n + i - 1]
  BY <1>6, SubSeqProperties
<1> HIDE DEF W
<1>8. Len(V) = C /\ Len(W) = C
  <2>1. C \in Nat /\ (IF n <= e THEN e - n + 1 ELSE 0) = C
    BY <1>1, <1>3
  <2>2. DOMAIN V = 1 .. C
    BY <1>4 DEF Elements
  <2> QED BY <1>5, <1>7, <2>1, <2>2
<1>9. \A i \in 1 .. C : V[i] = W[i]
  BY <1>3, <1>4, <1>7
<1>10. V = W
  BY <1>5, <1>7, <1>8, <1>9, SeqEqual
<1> QED BY <1>10 DEF V, W

(* The equation of the recursive function in replaceAll, and of one that    *)
(* leaves out the characters of q.                                          *)
Matches(str, pattern, escChars, i) ==
    /\ i + Len(pattern) - 1 <= Len(str)
    /\ SubSeq(str, i, i + Len(pattern) - 1) = pattern
    /\ i > 1 => str[i - 1] \notin escChars

IsReplaced(f, str, pattern, repl, escChars) ==
    f = [i \in 1 .. Len(str) + 1 |->
            IF i > Len(str) THEN <<>>
            ELSE IF Matches(str, pattern, escChars, i) THEN repl \o f[i + Len(pattern)]
            ELSE <<str[i]>> \o f[i + 1]]

LeavesOut(f, str, q) ==
    /\ f = [i \in 1 .. Len(str) + 1 |-> f[i]]
    /\ f[Len(str) + 1] = <<>>
    /\ \A i \in 1 .. Len(str) :
           f[i] = IF str[i] \in q THEN <<>> \o f[i + 1] ELSE <<str[i]>> \o f[i + 1]

(* There is a function that leaves out the characters of q.                 *)
LEMMA LeavingOut ==
    ASSUME NEW S, NEW str \in Seq(S), NEW q
    PROVE  \E f : LeavesOut(f, str, q)
<1> DEFINE L == Len(str)
           f == [i \in 1 .. L + 1 |-> KeptOf(str, q, i, L)]
<1>1. L \in Nat
  OBVIOUS
<1>2. f[L + 1] = <<>>
  <2>1. L + 1 \in 1 .. L + 1 /\ L + 1 \in Nat /\ L + 1 > L
    BY <1>1
  <2> HIDE DEF L
  <2>2. KeptOf(str, q, L + 1, L) = <<>>
    BY <1>1, <2>1, KeptNone
  <2> QED BY <2>1, <2>2
<1>3. ASSUME NEW i \in 1 .. L
      PROVE  f[i] = IF str[i] \in q THEN <<>> \o f[i + 1] ELSE <<str[i]>> \o f[i + 1]
  <2>1. i \in 1 .. L + 1 /\ i + 1 \in 1 .. L + 1 /\ i \in Nat /\ i <= L
    BY <1>1
  <2>2. /\ str[i] \in q => KeptOf(str, q, i, L) = KeptOf(str, q, i + 1, L)
        /\ str[i] \notin q => KeptOf(str, q, i, L) = <<str[i]>> \o KeptOf(str, q, i + 1, L)
    <3> HIDE DEF L
    <3> QED BY <1>1, <2>1, KeptJoin
  <2>3. KeptOf(str, q, i + 1, L) \in Seq(S)
    <3>1. L \in 0 .. Len(str)
      OBVIOUS
    <3> QED BY <2>1, <3>1, KeptSeq
  <2>4. <<>> \o KeptOf(str, q, i + 1, L) = KeptOf(str, q, i + 1, L)
    BY <2>3
  <2>5. f[i] = KeptOf(str, q, i, L) /\ f[i + 1] = KeptOf(str, q, i + 1, L)
    BY <2>1
  <2> HIDE DEF f, L
  <2> QED BY <2>2, <2>4, <2>5
<1>4. f = [i \in 1 .. L + 1 |-> f[i]]
  OBVIOUS
<1>5. LeavesOut(f, str, q)
  <2> HIDE DEF f
  <2> QED BY <1>2, <1>3, <1>4 DEF LeavesOut
<1> QED BY <1>5

(* Its value at the start is what is kept of the line.                      *)
LEMMA LeftOut ==
    ASSUME NEW S, NEW str \in Seq(S), NEW q, NEW f, LeavesOut(f, str, q)
    PROVE  f[1] = KeptOf(str, q, 1, Len(str))
<1> DEFINE L == Len(str)
           M == L + 1
           G == {i \in 1 .. M : f[i] = KeptOf(str, q, i, L)}
<1>1. L \in Nat /\ M \in Nat /\ 1 \in 1 .. M
  OBVIOUS
<1>2. ASSUME NEW i \in 1 .. M, \A b \in i + 1 .. M : b \in G
      PROVE  i \in G
  <2>1. CASE i = M
    <3>1. i \in Nat /\ i > L
      BY <1>1, <2>1
    <3> HIDE DEF L
    <3>2. KeptOf(str, q, i, L) = <<>>
      BY <1>1, <3>1, KeptNone
    <3>3. f[i] = <<>>
      BY <2>1 DEF LeavesOut, L
    <3> QED BY <3>2, <3>3
  <2>2. CASE i # M
    <3>1. i \in 1 .. L /\ i + 1 \in i + 1 .. M /\ i \in Nat /\ i <= L /\ i + 1 \in 1 .. M
      BY <1>1, <2>2
    <3>2. f[i + 1] = KeptOf(str, q, i + 1, L)
      BY <1>2, <3>1
    <3>3. f[i] = IF str[i] \in q THEN <<>> \o f[i + 1] ELSE <<str[i]>> \o f[i + 1]
      BY <3>1 DEF LeavesOut
    <3>4. /\ str[i] \in q => KeptOf(str, q, i, L) = KeptOf(str, q, i + 1, L)
          /\ str[i] \notin q => KeptOf(str, q, i, L) = <<str[i]>> \o KeptOf(str, q, i + 1, L)
      <4> HIDE DEF L
      <4> QED BY <1>1, <3>1, KeptJoin
    <3>5. KeptOf(str, q, i + 1, L) \in Seq(S)
      <4>1. L \in 0 .. Len(str)
        BY <1>1
      <4> QED BY <3>1, <4>1, KeptSeq
    <3>6. <<>> \o KeptOf(str, q, i + 1, L) = KeptOf(str, q, i + 1, L)
      BY <3>5
    <3>7. f[i] = KeptOf(str, q, i, L)
      <4> HIDE DEF L
      <4> QED BY <3>2, <3>3, <3>4, <3>6
    <3> QED BY <3>7
  <2> QED BY <2>1, <2>2
<1>3. \A i \in 1 .. M : i \in G
  <2> HIDE DEF M, G
  <2> QED BY <1>1, <1>2, Downward
<1> QED BY <1>1, <1>3

(* Where a match is a single character that goes, the characters of q go.   *)
LEMMA ReplacedIs ==
    ASSUME NEW S, NEW str \in Seq(S), NEW q, NEW pattern, NEW repl, NEW escChars,
           \A i \in 1 .. Len(str) : Matches(str, pattern, escChars, i) <=> str[i] \in q,
           (\E i \in 1 .. Len(str) : str[i] \in q) => Len(pattern) = 1 /\ repl = <<>>
    PROVE  replaceAll(str, pattern, repl, escChars) = KeptOf(str, q, 1, Len(str))
<1> DEFINE f == CHOOSE g : IsReplaced(g, str, pattern, repl, escChars)
           L == Len(str)
<1>1. L \in Nat
  OBVIOUS
<1>2. replaceAll(str, pattern, repl, escChars) = f[1]
  BY DEF replaceAll, IsReplaced, Matches
<1>3. ASSUME NEW g PROVE IsReplaced(g, str, pattern, repl, escChars) <=> LeavesOut(g, str, q)
  <2> DEFINE R(i) == IF i > L THEN <<>>
                     ELSE IF Matches(str, pattern, escChars, i)
                          THEN repl \o g[i + Len(pattern)]
                     ELSE <<str[i]>> \o g[i + 1]
  <2>1. IsReplaced(g, str, pattern, repl, escChars) <=> g = [i \in 1 .. L + 1 |-> R(i)]
    BY DEF IsReplaced
  <2>2. ASSUME NEW i \in 1 .. L
        PROVE  R(i) = IF str[i] \in q THEN <<>> \o g[i + 1] ELSE <<str[i]>> \o g[i + 1]
    <3>1. ~(i > L)
      BY <1>1
    <3>2. Matches(str, pattern, escChars, i) <=> str[i] \in q
      OBVIOUS
    <3>3. str[i] \in q => Len(pattern) = 1 /\ repl = <<>>
      OBVIOUS
    <3> HIDE DEF L
    <3> QED BY <3>1, <3>2, <3>3
  <2>3. R(L + 1) = <<>>
    BY <1>1
  <2>4. \A i \in 1 .. L + 1 : i \in 1 .. L \/ i = L + 1
    BY <1>1
  <2>5. \A i \in 1 .. L : i \in 1 .. L + 1
    BY <1>1
  <2>6. L + 1 \in 1 .. L + 1
    BY <1>1
  <2> HIDE DEF R, L
  <2>7. ASSUME g = [i \in 1 .. L + 1 |-> R(i)] PROVE LeavesOut(g, str, q)
    <3>1. g = [i \in 1 .. L + 1 |-> g[i]]
      BY <2>7
    <3>2. g[L + 1] = <<>>
      BY <2>3, <2>6, <2>7
    <3>3. ASSUME NEW i \in 1 .. L
          PROVE  g[i] = IF str[i] \in q THEN <<>> \o g[i + 1] ELSE <<str[i]>> \o g[i + 1]
      <4>1. g[i] = R(i)
        BY <2>5, <2>7
      <4> QED BY <2>2, <4>1
    <3> QED BY <3>1, <3>2, <3>3 DEF LeavesOut, L
  <2>8. ASSUME LeavesOut(g, str, q) PROVE g = [i \in 1 .. L + 1 |-> R(i)]
    <3>1. g = [i \in 1 .. L + 1 |-> g[i]] /\ g[L + 1] = R(L + 1)
      BY <2>3, <2>8 DEF LeavesOut, L
    <3>2. ASSUME NEW i \in 1 .. L PROVE g[i] = R(i)
      <4>1. g[i] = IF str[i] \in q THEN <<>> \o g[i + 1] ELSE <<str[i]>> \o g[i + 1]
        BY <2>8 DEF LeavesOut, L
      <4> QED BY <2>2, <4>1
    <3>3. \A i \in 1 .. L + 1 : g[i] = R(i)
      BY <2>4, <3>1, <3>2
    <3> QED BY <3>1, <3>3
  <2> QED BY <2>1, <2>7, <2>8
<1>4. LeavesOut(f, str, q)
  <2>1. \E g : LeavesOut(g, str, q)
    BY LeavingOut
  <2>2. \E g : IsReplaced(g, str, pattern, repl, escChars)
    BY <1>3, <2>1
  <2>3. IsReplaced(f, str, pattern, repl, escChars)
    BY <2>2
  <2> HIDE DEF f
  <2> QED BY <1>3, <2>3
<1> HIDE DEF f
<1> QED BY <1>2, <1>4, LeftOut

(* The formatting of an argument takes its quotes away.                     *)
LEMMA FormatIs ==
    ASSUME NEW S, NEW str \in Seq(S), BSL \notin S
    PROVE  format(str) = KeptOf(str, {QT}, 1, Len(str))
<1> DEFINE L == Len(str)
           tmp == KeptOf(str, {QT}, 1, L)
<1>1. L \in Nat /\ \A i \in 1 .. L : str[i] \in S /\ str[i] # BSL
  OBVIOUS
<1>2. replaceAll(str, <<QT>>, <<>>, {BSL}) = tmp
  <2>1. ASSUME NEW i \in 1 .. L PROVE Matches(str, <<QT>>, {BSL}, i) <=> str[i] \in {QT}
    <3>1. i + Len(<<QT>>) - 1 = i /\ i <= L
      BY <1>1
    <3>2. SubSeq(str, i, i) = <<str[i]>>
      <4>1. i \in Int /\ (\A k \in i .. i : str[k] \in S)
        BY <1>1
      <4>2. /\ SubSeq(str, i, i) \in Seq(S)
            /\ Len(SubSeq(str, i, i)) = IF i <= i THEN i - i + 1 ELSE 0
            /\ \A k \in 1 .. i - i + 1 : SubSeq(str, i, i)[k] = str[i + k - 1]
        BY <4>1, SubSeqProperties
      <4>3. Len(SubSeq(str, i, i)) = 1 /\ SubSeq(str, i, i)[1] = str[i]
        BY <4>1, <4>2
      <4>4. <<str[i]>> \in Seq(S) /\ Len(<<str[i]>>) = 1 /\ <<str[i]>>[1] = str[i]
        BY <1>1
      <4> DEFINE v == SubSeq(str, i, i)
                 w == <<str[i]>>
      <4>5. v \in Seq(S) /\ w \in Seq(S) /\ Len(v) = Len(w)
        BY <4>2, <4>3, <4>4
      <4>6. \A k \in 1 .. Len(v) : v[k] = w[k]
        BY <4>3, <4>4
      <4> HIDE DEF v, w
      <4>7. v = w
        BY <4>5, <4>6, SeqEqual
      <4> QED BY <4>7 DEF v, w
    <3>3. i > 1 => str[i - 1] \notin {BSL}
      <4>1. i > 1 => i - 1 \in 1 .. L
        BY <1>1
      <4> QED BY <1>1, <4>1
    <3>4. Matches(str, <<QT>>, {BSL}, i) <=> <<str[i]>> = <<QT>>
      BY <3>1, <3>2, <3>3 DEF Matches
    <3> QED BY <3>4
  <2>2. Len(<<QT>>) = 1
    OBVIOUS
  <2> QED BY <2>1, <2>2, ReplacedIs
<1>3. tmp \in Seq(S)
  <2>1. 1 \in 1 .. L + 1 /\ L \in 0 .. L
    BY <1>1
  <2> QED BY <2>1, KeptSeq
<1>4. ASSUME NEW t \in Seq(S) PROVE replaceAll(t, <<BSL, QT>>, <<QT>>, {}) = t
  <2>1. ASSUME NEW i \in 1 .. Len(t) PROVE ~Matches(t, <<BSL, QT>>, {}, i)
    <3>1. Len(<<BSL, QT>>) = 2 /\ i + 2 - 1 = i + 1
      OBVIOUS
    <3>2. SUFFICES ASSUME i + 1 <= Len(t), SubSeq(t, i, i + 1) = <<BSL, QT>> PROVE FALSE
      BY <3>1 DEF Matches
    <3>3. \A k \in i .. i + 1 : t[k] \in S
      BY <3>2
    <3>4. SubSeq(t, i, i + 1)[1] = t[i]
      BY <3>3, SubSeqProperties
    <3>5. t[i] = BSL /\ t[i] \in S
      <4>1. t[i] \in S
        BY <3>3, <3>2
      <4>2. <<BSL, QT>>[1] = BSL
        OBVIOUS
      <4> QED BY <3>2, <3>4, <4>1, <4>2
    <3> QED BY <3>5
  <2>2. replaceAll(t, <<BSL, QT>>, <<QT>>, {}) = KeptOf(t, {}, 1, Len(t))
    <3>1. \A i \in 1 .. Len(t) : Matches(t, <<BSL, QT>>, {}, i) <=> t[i] \in {}
      BY <2>1
    <3>2. (\E i \in 1 .. Len(t) : t[i] \in {}) => Len(<<BSL, QT>>) = 1 /\ <<QT>> = <<>>
      OBVIOUS
    <3> QED BY <3>1, <3>2, ReplacedIs
  <2>3. KeptOf(t, {}, 1, Len(t)) = SubSeq(t, 1, Len(t))
    <3>1. 1 \in 1 .. Len(t) + 1 /\ Len(t) \in 1 - 1 .. Len(t)
      OBVIOUS
    <3> QED BY <3>1, KeptAll
  <2>4. SubSeq(t, 1, Len(t)) = t
    OBVIOUS
  <2> QED BY <2>2, <2>3, <2>4
<1> HIDE DEF tmp
<1>5. replaceAll(tmp, <<BSL, QT>>, <<QT>>, {}) = tmp
  BY <1>3, <1>4
<1> QED BY <1>2, <1>5 DEF format, tmp

-----------------------------------------------------------------------------
(***************************************************************************)
(* Part five.  Lists: in a heap whose nodes are in a row, the walks along next*)
(* and prev go through the row, and lists are filled and read in order.     *)
(***************************************************************************)

(* Nodes with data of D; a heap whose nodes from f on are linked one after  *)
(* the other, and those before lead nowhere or to f.                        *)
Nodes(D) == [next : Nat, prev : Nat, data : D]

Linked(heap, f) ==
    /\ \A n \in f .. Len(heap) : heap[n].next = IF n = Len(heap) THEN 0 ELSE n + 1
    /\ \A n \in 1 .. f - 1 : heap[n].next = 0 \/ (heap[n].next = f /\ f <= Len(heap))

(* The equation of the recursive function in list_last.                     *)
IsLast(g, heap) ==
    g = [n \in DOMAIN heap |-> IF heap[n].next = 0 THEN n ELSE g[heap[n].next]]

LastOf(heap, f, n) == IF n < f /\ heap[n].next = 0 THEN n ELSE Len(heap)

(* list_last follows next to the last node.                                 *)
LEMMA LastIs ==
    ASSUME NEW D, NEW heap \in Seq(Nodes(D)), NEW f \in 1 .. Len(heap) + 1, Linked(heap, f),
           NEW node \in 1 .. Len(heap)
    PROVE  list_last(heap, node) = LastOf(heap, f, node)
<1> DEFINE L == Len(heap)
           w == [n \in DOMAIN heap |-> LastOf(heap, f, n)]
           g == CHOOSE h : IsLast(h, heap)
           G == {n \in 1 .. L : n < f \/ g[n] = L}
<1>1. L \in Nat /\ DOMAIN heap = 1 .. L /\ f \in Nat
  OBVIOUS
<1>2. \A n \in 1 .. L : n >= f => heap[n].next = IF n = L THEN 0 ELSE n + 1
  <2>1. \A n \in 1 .. L : n >= f => n \in f .. L
    BY <1>1
  <2> QED BY <2>1 DEF Linked
<1>3. \A n \in 1 .. L : n < f => heap[n].next = 0 \/ (heap[n].next = f /\ f <= L)
  <2>1. \A n \in 1 .. L : n < f => n \in 1 .. f - 1
    BY <1>1
  <2> QED BY <2>1 DEF Linked
<1> HIDE DEF L
<1>4. ASSUME NEW n \in 1 .. L
      PROVE  w[n] = IF heap[n].next = 0 THEN n ELSE w[heap[n].next]
  <2>1. \A m \in 1 .. L : w[m] = IF m < f /\ heap[m].next = 0 THEN m ELSE L
    BY <1>1 DEF LastOf, L
  <2> HIDE DEF w
  <2>2. CASE n < f
    <3>1. CASE heap[n].next = 0
      BY <2>1, <2>2, <3>1
    <3>2. CASE heap[n].next # 0
      <4>1. heap[n].next = f /\ f \in 1 .. L /\ ~(f < f)
        BY <1>1, <1>3, <2>2, <3>2
      <4> QED BY <2>1, <2>2, <3>2, <4>1
    <3> QED BY <3>1, <3>2
  <2>3. CASE ~(n < f)
    <3>1. n >= f /\ w[n] = L
      BY <1>1, <2>1, <2>3
    <3>2. CASE n = L
      <4>1. heap[n].next = 0
        BY <1>2, <3>1, <3>2
      <4> QED BY <3>1, <3>2, <4>1
    <3>3. CASE n # L
      <4>1. n + 1 \in 1 .. L /\ ~(n + 1 < f) /\ n + 1 # 0
        BY <1>1, <2>3, <3>3
      <4>2. heap[n].next = n + 1
        BY <1>2, <3>1, <3>3
      <4> QED BY <2>1, <3>1, <4>1, <4>2
    <3> QED BY <3>2, <3>3
  <2> QED BY <2>2, <2>3
<1>5. \E h : IsLast(h, heap)
  <2>1. DOMAIN w = DOMAIN heap /\ w = [n \in DOMAIN w |-> w[n]]
    OBVIOUS
  <2> HIDE DEF w
  <2>2. IsLast(w, heap)
    BY <1>1, <1>4, <2>1 DEF IsLast
  <2> QED BY <2>2
<1>6. IsLast(g, heap)
  BY <1>5
<1>7. list_last(heap, node) = g[node]
  BY DEF list_last, IsLast
<1> HIDE DEF g
<1>8. \A n \in 1 .. L : g[n] = IF heap[n].next = 0 THEN n ELSE g[heap[n].next]
  BY <1>1, <1>6 DEF IsLast
<1>9. ASSUME NEW n \in 1 .. L, \A b \in n + 1 .. L : b \in G
      PROVE  n \in G
  <2>1. CASE n < f
    BY <2>1
  <2>2. CASE ~(n < f) /\ n = L
    <3>1. heap[n].next = 0
      BY <1>1, <1>2, <2>2
    <3> QED BY <1>8, <2>2, <3>1
  <2>3. CASE ~(n < f) /\ n # L
    <3>1. n + 1 \in n + 1 .. L /\ ~(n + 1 < f) /\ n >= f /\ n + 1 # 0
      BY <1>1, <2>3
    <3>2. g[n + 1] = L
      BY <1>9, <3>1
    <3>3. heap[n].next = n + 1
      BY <1>2, <2>3, <3>1
    <3> QED BY <1>8, <3>1, <3>2, <3>3
  <2> QED BY <2>1, <2>2, <2>3
<1>10. \A n \in 1 .. L : n \in G
  <2> HIDE DEF G
  <2> QED BY <1>1, <1>9, Downward
<1>11. \A n \in 1 .. L : n < f \/ g[n] = L
  BY <1>10
<1>12. g[node] = IF node < f /\ heap[node].next = 0 THEN node ELSE L
  <2>1. node \in 1 .. L
    BY DEF L
  <2>2. CASE node < f
    <3>1. CASE heap[node].next = 0
      BY <1>8, <2>1, <2>2, <3>1
    <3>2. CASE heap[node].next # 0
      <4>1. heap[node].next = f /\ f \in 1 .. L /\ ~(f < f)
        BY <1>1, <1>3, <2>1, <2>2, <3>2
      <4>2. g[f] = L
        BY <1>11, <4>1
      <4> QED BY <1>8, <2>1, <3>2, <4>1, <4>2
    <3> QED BY <3>1, <3>2
  <2>3. CASE ~(node < f)
    BY <1>11, <2>1, <2>3
  <2> QED BY <2>2, <2>3
<1> QED BY <1>7, <1>12 DEF LastOf, L

(* Heads: the first two nodes have no node before them, the others one that *)
(* is not the first.                                                        *)
TwoHeads(heap) ==
    \A n \in 1 .. Len(heap) : IF n <= 2 THEN heap[n].prev = 0 ELSE heap[n].prev \in 2 .. Len(heap)

IsHead(g, heap) ==
    g = [n \in DOMAIN heap |-> IF heap[n].prev = 0 THEN n ELSE g[heap[n].prev]]

(* list_head stays at the two heads.                                        *)
LEMMA HeadIs ==
    ASSUME NEW D, NEW heap \in Seq(Nodes(D)), TwoHeads(heap), NEW node \in 1 .. Len(heap), node <= 2
    PROVE  list_head(heap, node) = node
<1> DEFINE L == Len(heap)
           w == [n \in DOMAIN heap |-> IF n = 1 THEN 1 ELSE 2]
           g == CHOOSE h : IsHead(h, heap)
<1>1. L \in Nat /\ DOMAIN heap = 1 .. L
  OBVIOUS
<1>2. ASSUME NEW n \in 1 .. L
      PROVE  w[n] = IF heap[n].prev = 0 THEN n ELSE w[heap[n].prev]
  <2>1. \A m \in 1 .. L : w[m] = IF m = 1 THEN 1 ELSE 2
    BY <1>1
  <2>2. IF n <= 2 THEN heap[n].prev = 0 ELSE heap[n].prev \in 2 .. L
    BY DEF TwoHeads
  <2> HIDE DEF w, L
  <2>3. CASE n <= 2
    <3>1. n = 1 \/ n = 2
      BY <1>1, <2>3
    <3> QED BY <2>1, <2>2, <2>3, <3>1
  <2>4. CASE ~(n <= 2)
    <3>1. /\ heap[n].prev \in 1 .. L /\ heap[n].prev # 0 /\ heap[n].prev # 1
          /\ n # 1
      BY <1>1, <2>2, <2>4
    <3> QED BY <2>1, <3>1
  <2> QED BY <2>3, <2>4
<1>3. \E h : IsHead(h, heap)
  <2>1. DOMAIN w = DOMAIN heap /\ w = [n \in DOMAIN w |-> w[n]]
    OBVIOUS
  <2> HIDE DEF w
  <2>2. IsHead(w, heap)
    BY <1>1, <1>2, <2>1 DEF IsHead
  <2> QED BY <2>2
<1>4. IsHead(g, heap)
  BY <1>3
<1>5. list_head(heap, node) = g[node]
  BY DEF list_head, IsHead
<1> HIDE DEF g
<1>6. heap[node].prev = 0
  BY DEF TwoHeads
<1>7. g[node] = node
  BY <1>1, <1>4, <1>6 DEF IsHead
<1> QED BY <1>5, <1>7

(* The nodes from a to b; those behind a node are those that follow.        *)
FromTo(a, b) == [i \in 1 .. b - a + 1 |-> a + i - 1]

IsBehind(g, heap) ==
    g = [n \in DOMAIN heap |->
            IF heap[n].next = 0 THEN <<>> ELSE <<heap[n].next>> \o g[heap[n].next]]

(* An interval begins with its first number.                                *)
LEMMA FromToIs ==
    ASSUME NEW a \in Nat, NEW b \in Nat
    PROVE  /\ a > b => FromTo(a, b) = <<>>
           /\ a <= b => FromTo(a, b) = <<a>> \o FromTo(a + 1, b)
<1>1. ASSUME a > b PROVE FromTo(a, b) = <<>>
  <2>1. 1 .. b - a + 1 = {}
    BY <1>1
  <2> QED BY <2>1 DEF FromTo
<1>2. ASSUME a <= b PROVE FromTo(a, b) = <<a>> \o FromTo(a + 1, b)
  <2> DEFINE N == b - a
             V == FromTo(a, b)
             W == FromTo(a + 1, b)
  <2>1. N \in Nat /\ b - a + 1 = N + 1 /\ b - (a + 1) + 1 = N
    BY <1>2
  <2>2. Elements(V, N + 1) /\ \A i \in 1 .. N + 1 : V[i] = a + i - 1
    <3> HIDE DEF N
    <3> QED BY <2>1 DEF FromTo, Elements
  <2>3. Elements(W, N) /\ \A i \in 1 .. N : W[i] = (a + 1) + i - 1
    <3> HIDE DEF N
    <3> QED BY <2>1 DEF FromTo, Elements
  <2> HIDE DEF V, W, N
  <2>4. ASSUME NEW i \in 1 .. N PROVE V[i + 1] = W[i]
    <3>1. i + 1 \in 1 .. N + 1 /\ a + (i + 1) - 1 = (a + 1) + i - 1
      BY <2>1
    <3> QED BY <2>2, <2>3, <3>1
  <2>5. V = <<V[1]>> \o W
    BY <2>1, <2>2, <2>3, <2>4, OneBefore
  <2>6. V[1] = a
    <3>1. 1 \in 1 .. N + 1 /\ a + 1 - 1 = a
      BY <2>1
    <3> QED BY <2>2, <3>1
  <2> QED BY <2>5, <2>6 DEF V, W
<1> QED BY <1>1, <1>2

(* The nodes behind n in such a heap.                                       *)
BehindOf(heap, f, n) ==
    IF n >= f THEN FromTo(n + 1, Len(heap))
    ELSE IF heap[n].next = 0 THEN <<>> ELSE FromTo(f, Len(heap))

(* Behind follows next from node to node.                                   *)
LEMMA BehindIs ==
    ASSUME NEW D, NEW heap \in Seq(Nodes(D)), NEW f \in 1 .. Len(heap) + 1, Linked(heap, f),
           NEW node \in 1 .. Len(heap)
    PROVE  Behind(heap, node) = BehindOf(heap, f, node)
<1> DEFINE L == Len(heap)
           w == [n \in DOMAIN heap |-> BehindOf(heap, f, n)]
           g == CHOOSE h : IsBehind(h, heap)
           G == {n \in 1 .. L : n < f \/ g[n] = FromTo(n + 1, L)}
<1>1. L \in Nat /\ DOMAIN heap = 1 .. L /\ f \in Nat
  OBVIOUS
<1>2. \A n \in 1 .. L : n >= f => heap[n].next = IF n = L THEN 0 ELSE n + 1
  <2>1. \A n \in 1 .. L : n >= f => n \in f .. L
    BY <1>1
  <2> QED BY <2>1 DEF Linked
<1>3. \A n \in 1 .. L : n < f => heap[n].next = 0 \/ (heap[n].next = f /\ f <= L)
  <2>1. \A n \in 1 .. L : n < f => n \in 1 .. f - 1
    BY <1>1
  <2> QED BY <2>1 DEF Linked
<1>4. FromTo(L + 1, L) = <<>>
  <2>1. L + 1 \in Nat /\ L + 1 > L
    BY <1>1
  <2> HIDE DEF L
  <2> QED BY <1>1, <2>1, FromToIs
<1>5. \A n \in 1 .. L : FromTo(n, L) = <<n>> \o FromTo(n + 1, L)
  <2>1. \A n \in 1 .. L : n \in Nat /\ n <= L
    BY <1>1
  <2> HIDE DEF L
  <2> QED BY <1>1, <2>1, FromToIs
<1> HIDE DEF L
<1>6. ASSUME NEW n \in 1 .. L
      PROVE  w[n] = IF heap[n].next = 0 THEN <<>> ELSE <<heap[n].next>> \o w[heap[n].next]
  <2>1. \A m \in 1 .. L : w[m] = IF m >= f THEN FromTo(m + 1, L)
                                ELSE IF heap[m].next = 0 THEN <<>> ELSE FromTo(f, L)
    BY <1>1 DEF BehindOf, L
  <2> HIDE DEF w
  <2>2. CASE ~(n >= f)
    <3>1. CASE heap[n].next = 0
      BY <2>1, <2>2, <3>1
    <3>2. CASE heap[n].next # 0
      <4>1. n < f
        BY <1>1, <2>2
      <4>2. heap[n].next = f /\ f \in 1 .. L /\ f >= f
        BY <1>1, <1>3, <3>2, <4>1
      <4>3. w[f] = FromTo(f + 1, L) /\ w[n] = FromTo(f, L)
        BY <2>1, <2>2, <3>2, <4>2
      <4>4. w[n] = <<f>> \o w[f]
        BY <1>5, <4>2, <4>3
      <4> QED BY <3>2, <4>2, <4>4
    <3> QED BY <3>1, <3>2
  <2>3. CASE n >= f
    <3>1. w[n] = FromTo(n + 1, L)
      BY <2>1, <2>3
    <3>2. CASE n = L
      <4>1. heap[n].next = 0
        BY <1>2, <2>3, <3>2
      <4> QED BY <1>4, <3>1, <3>2, <4>1
    <3>3. CASE n # L
      <4>1. n + 1 \in 1 .. L /\ n + 1 >= f /\ n + 1 # 0
        BY <1>1, <2>3, <3>3
      <4>2. heap[n].next = n + 1
        BY <1>2, <2>3, <3>3
      <4>3. w[n + 1] = FromTo((n + 1) + 1, L)
        BY <2>1, <4>1
      <4>4. FromTo(n + 1, L) = <<n + 1>> \o FromTo((n + 1) + 1, L)
        BY <1>5, <4>1
      <4>5. w[n] = <<n + 1>> \o w[n + 1]
        BY <3>1, <4>3, <4>4
      <4> QED BY <4>1, <4>2, <4>5
    <3> QED BY <3>2, <3>3
  <2> QED BY <2>2, <2>3
<1>7. \E h : IsBehind(h, heap)
  <2>1. DOMAIN w = DOMAIN heap /\ w = [n \in DOMAIN w |-> w[n]]
    OBVIOUS
  <2> HIDE DEF w
  <2>2. IsBehind(w, heap)
    BY <1>1, <1>6, <2>1 DEF IsBehind
  <2> QED BY <2>2
<1>8. IsBehind(g, heap)
  BY <1>7
<1>9. Behind(heap, node) = g[node]
  BY DEF Behind, IsBehind
<1> HIDE DEF g
<1>10. \A n \in 1 .. L : g[n] = IF heap[n].next = 0 THEN <<>>
                               ELSE <<heap[n].next>> \o g[heap[n].next]
  BY <1>1, <1>8 DEF IsBehind
<1>11. ASSUME NEW n \in 1 .. L, \A b \in n + 1 .. L : b \in G
       PROVE  n \in G
  <2>1. CASE n < f
    BY <2>1
  <2>2. CASE ~(n < f) /\ n = L
    <3>1. heap[n].next = 0
      BY <1>1, <1>2, <2>2
    <3> QED BY <1>4, <1>10, <2>2, <3>1
  <2>3. CASE ~(n < f) /\ n # L
    <3>1. n + 1 \in n + 1 .. L /\ ~(n + 1 < f) /\ n >= f /\ n + 1 # 0 /\ n + 1 \in 1 .. L
      BY <1>1, <2>3
    <3>2. g[n + 1] = FromTo((n + 1) + 1, L)
      BY <1>11, <3>1
    <3>3. heap[n].next = n + 1
      BY <1>2, <2>3, <3>1
    <3>4. g[n] = <<n + 1>> \o FromTo((n + 1) + 1, L)
      BY <1>10, <3>1, <3>2, <3>3
    <3>5. g[n] = FromTo(n + 1, L)
      BY <1>5, <3>1, <3>4
    <3> QED BY <3>5
  <2> QED BY <2>1, <2>2, <2>3
<1>12. \A n \in 1 .. L : n \in G
  <2> HIDE DEF G
  <2> QED BY <1>1, <1>11, Downward
<1>13. \A n \in 1 .. L : n < f \/ g[n] = FromTo(n + 1, L)
  BY <1>12
<1>14. g[node] = IF node >= f THEN FromTo(node + 1, L)
                 ELSE IF heap[node].next = 0 THEN <<>> ELSE FromTo(f, L)
  <2>1. node \in 1 .. L
    BY DEF L
  <2>2. CASE ~(node >= f)
    <3>1. CASE heap[node].next = 0
      BY <1>10, <2>1, <2>2, <3>1
    <3>2. CASE heap[node].next # 0
      <4>1. node < f
        BY <1>1, <2>1, <2>2
      <4>2. heap[node].next = f /\ f \in 1 .. L /\ ~(f < f)
        BY <1>1, <1>3, <2>1, <3>2, <4>1
      <4>3. g[f] = FromTo(f + 1, L)
        BY <1>13, <4>2
      <4>4. g[node] = <<f>> \o FromTo(f + 1, L)
        BY <1>10, <2>1, <3>2, <4>2, <4>3
      <4>5. g[node] = FromTo(f, L)
        BY <1>5, <4>2, <4>4
      <4> QED BY <2>2, <3>2, <4>5
    <3> QED BY <3>1, <3>2
  <2>3. CASE node >= f
    <3>1. ~(node < f)
      BY <1>1, <2>1, <2>3
    <3> QED BY <1>13, <2>1, <2>3, <3>1
  <2> QED BY <2>2, <2>3
<1> QED BY <1>9, <1>14 DEF BehindOf, L

(* An array without null pointers is taken whole, one that starts with a    *)
(* null pointer is empty.                                                   *)
LEMMA UpToNullIs ==
    ASSUME NEW D, NEW array \in Seq(D)
    PROVE  /\ (\A i \in 1 .. Len(array) : array[i] # NULL) => UpToNull(array) = array
           /\ (array # <<>> /\ array[1] = NULL) => UpToNull(array) = <<>>
<1> DEFINE L == Len(array)
           P(n) == /\ \A i \in 1 .. n : array[i] # NULL
                   /\ n < L => array[n + 1] = NULL
           c == CHOOSE n \in 0 .. L : P(n)
<1>1. L \in Nat
  OBVIOUS
<1>2. UpToNull(array) = SubSeq(array, 1, c)
  BY DEF UpToNull
<1>3. ASSUME \A i \in 1 .. L : array[i] # NULL PROVE UpToNull(array) = array
  <2>1. L \in 0 .. L /\ P(L)
    BY <1>1, <1>3
  <2>2. c \in 0 .. L /\ P(c)
    <3> HIDE DEF P
    <3> QED BY <2>1
  <2> HIDE DEF c
  <2>3. c = L
    <3>1. SUFFICES ASSUME c < L PROVE FALSE
      BY <1>1, <2>2
    <3>2. c + 1 \in 1 .. L /\ array[c + 1] = NULL
      BY <1>1, <2>2, <3>1
    <3> QED BY <1>3, <3>2
  <2>4. SubSeq(array, 1, L) = array
    OBVIOUS
  <2> QED BY <1>2, <2>3, <2>4
<1>4. ASSUME array # <<>>, array[1] = NULL PROVE UpToNull(array) = <<>>
  <2>1. 1 \in 1 .. L
    BY <1>4
  <2>2. 0 \in 0 .. L /\ P(0)
    <3>1. 1 .. 0 = {} /\ 0 + 1 = 1
      OBVIOUS
    <3> QED BY <1>1, <1>4, <3>1
  <2>3. c \in 0 .. L /\ P(c)
    <3> HIDE DEF P
    <3> QED BY <2>2
  <2> HIDE DEF c
  <2>4. c = 0
    <3>1. SUFFICES ASSUME c > 0 PROVE FALSE
      BY <1>1, <2>3
    <3>2. 1 \in 1 .. c
      BY <1>1, <2>3, <3>1
    <3> QED BY <1>4, <2>3, <3>2
  <2>5. SubSeq(array, 1, 0) = <<>>
    OBVIOUS
  <2> QED BY <1>2, <2>4, <2>5
<1> QED BY <1>3, <1>4

(* A heap of b nodes of which the last is the head of a list, behind it i   *)
(* elements of an array.                                                    *)
RowNode(b, array, i, n) ==
    Node(IF n < b \/ n = b + i THEN 0 ELSE n + 1,
         IF n <= b THEN 0 ELSE n - 1,
         IF n <= b THEN NULL ELSE array[n - b])

Row(b, array, i) == [n \in 1 .. b + i |-> RowNode(b, array, i, n)]

(* A node has the members it is given.                                      *)
LEMMA NodeIs ==
    ASSUME NEW next, NEW prev, NEW element
    PROVE  /\ Node(next, prev, element).next = next
           /\ Node(next, prev, element).prev = prev
           /\ Node(next, prev, element).data = element
           /\ \A to : [Node(next, prev, element) EXCEPT !.next = to] = Node(to, prev, element)
           /\ \A back : [Node(next, prev, element) EXCEPT !.prev = back] = Node(next, back, element)
           /\ \A d : [Node(next, prev, element) EXCEPT !.data = d] = Node(next, prev, d)
BY DEF Node

RowHeap(D, heap, b, array, i) ==
    /\ heap \in Seq(Nodes(D)) /\ Len(heap) = b + i
    /\ \A n \in 1 .. b + i : heap[n] = RowNode(b, array, i, n)
    /\ b \in 1 .. Len(heap) + 1 /\ Linked(heap, b)

(* A row is a well-formed list.                                             *)
LEMMA RowIs ==
    ASSUME NEW D, NULL \in D, NEW array \in Seq(D), NEW b \in Nat \ {0},
           NEW i \in 0 .. Len(array), NEW heap, heap = Row(b, array, i)
    PROVE  RowHeap(D, heap, b, array, i)
<1>1. b \in Nat /\ i \in Nat /\ b + i \in Nat /\ Len(array) \in Nat /\ b > 0
  OBVIOUS
<1>2. \A n \in 1 .. b + i : heap[n] = RowNode(b, array, i, n)
  BY DEF Row
<1>3. ASSUME NEW n \in 1 .. b + i
      PROVE  /\ heap[n].next = IF n < b \/ n = b + i THEN 0 ELSE n + 1
             /\ heap[n].prev = IF n <= b THEN 0 ELSE n - 1
             /\ heap[n].data = IF n <= b THEN NULL ELSE array[n - b]
  BY <1>2, NodeIs DEF RowNode
<1>4. ASSUME NEW n \in 1 .. b + i PROVE heap[n] \in Nodes(D)
  <2> DEFINE next == IF n < b \/ n = b + i THEN 0 ELSE n + 1
             prev == IF n <= b THEN 0 ELSE n - 1
             element == IF n <= b THEN NULL ELSE array[n - b]
  <2>1. next \in Nat /\ prev \in Nat
    BY <1>1
  <2>2. element \in D
    <3>1. ~(n <= b) => n - b \in 1 .. Len(array)
      BY <1>1
    <3> QED BY <3>1
  <2>3. heap[n] = Node(next, prev, element)
    BY <1>2 DEF RowNode
  <2> HIDE DEF next, prev, element
  <2> QED BY <2>1, <2>2, <2>3 DEF Node, Nodes
<1>5. Elements(heap, b + i)
  BY DEF Row, Elements
<1>6. heap \in Seq(Nodes(D)) /\ Len(heap) = b + i
  BY <1>1, <1>4, <1>5, IsSequence
<1>7. Linked(heap, b)
  <2>1. ASSUME NEW n \in b .. Len(heap)
        PROVE  heap[n].next = IF n = Len(heap) THEN 0 ELSE n + 1
    <3>1. n \in 1 .. b + i /\ ~(n < b)
      BY <1>1, <1>6
    <3> QED BY <1>3, <1>6, <3>1
  <2>2. ASSUME NEW n \in 1 .. b - 1 PROVE heap[n].next = 0
    <3>1. n \in 1 .. b + i /\ n < b
      BY <1>1
    <3> QED BY <1>3, <3>1
  <2> QED BY <2>1, <2>2 DEF Linked
<1>8. b \in 1 .. Len(heap) + 1
  BY <1>1, <1>6
<1> QED BY <1>2, <1>6, <1>7, <1>8 DEF RowHeap

(* list_append makes a row of i - 1 elements one of i.                      *)
LEMMA AppendRow ==
    ASSUME NEW D, NULL \in D, NEW array \in Seq(D), NEW b \in Nat \ {0},
           NEW i \in 1 .. Len(array)
    PROVE  list_append(Row(b, array, i - 1), b, array[i]).heap = Row(b, array, i)
<1> DEFINE j == i - 1
           heap == Row(b, array, j)
           L == b + j
           element == array[i]
           longer == Append(heap, Node(0, L, element))
           with == [longer EXCEPT ![L].next = L + 1]
           row == Row(b, array, i)
<1>1. /\ b \in Nat /\ b > 0 /\ j \in 0 .. Len(array) /\ j + 1 = i /\ L \in Nat /\ L >= b
      /\ b + i = L + 1 /\ (L + 1) - b = i /\ i \in Nat /\ i > 0 /\ j \in Nat
  OBVIOUS
<1>2. /\ heap \in Seq(Nodes(D)) /\ Len(heap) = L /\ b \in 1 .. Len(heap) + 1 /\ Linked(heap, b)
      /\ \A n \in 1 .. L : heap[n] = RowNode(b, array, j, n)
  <2>1. RowHeap(D, heap, b, array, j)
    <3> HIDE DEF j
    <3> QED BY <1>1, RowIs
  <2> QED BY <2>1 DEF RowHeap
<1> HIDE DEF heap, L
<1>3. list_last(heap, b) = L
  <2>1. b \in 1 .. Len(heap) /\ ~(b < b)
    BY <1>1, <1>2
  <2>2. list_last(heap, b) = LastOf(heap, b, b)
    BY <1>2, <2>1, LastIs
  <2> QED BY <1>2, <2>1, <2>2 DEF LastOf
<1>4. heap[L].next = 0
  <2>1. L \in b .. Len(heap)
    BY <1>1, <1>2
  <2> QED BY <1>2, <2>1 DEF Linked
<1>5. list_append(heap, b, element).heap = with
  <2>1. list_append(heap, b, element) = list_insert(heap, L, element)
    BY <1>3 DEF list_append
  <2>2. list_insert(heap, L, element) = Result(with, L + 1)
    BY <1>2, <1>4 DEF list_insert
  <2>3. \A h, p : Result(h, p).heap = h
    BY DEF Result
  <2> HIDE DEF with
  <2> QED BY <2>1, <2>2, <2>3
<1>6. element \in D
  OBVIOUS
<1>7. Node(0, L, element) \in Nodes(D)
  BY <1>1, <1>6 DEF Node, Nodes
<1>8. /\ longer \in Seq(Nodes(D)) /\ Len(longer) = L + 1
      /\ \A n \in 1 .. L : longer[n] = heap[n]
      /\ longer[L + 1] = Node(0, L, element)
  BY <1>2, <1>7, AppendProperties
<1> HIDE DEF longer
<1>9. DOMAIN longer = 1 .. L + 1
  BY <1>8
<1>10. /\ with = [n \in 1 .. L + 1 |-> with[n]]
       /\ \A n \in 1 .. L + 1 :
              with[n] = IF n = L THEN [longer[n] EXCEPT !.next = L + 1] ELSE longer[n]
  BY <1>9
<1>11. row = [n \in 1 .. L + 1 |-> row[n]] /\ \A n \in 1 .. L + 1 : row[n] = RowNode(b, array, i, n)
  BY <1>1 DEF Row
<1> HIDE DEF with, row, element
<1>12. ASSUME NEW n \in 1 .. L + 1 PROVE with[n] = row[n]
  <2>1. CASE n = L + 1
    <3>1. n # L /\ ~(n < b) /\ n = b + i /\ ~(n <= b) /\ n - 1 = L /\ n - b = i
      BY <1>1, <2>1
    <3>2. row[n] = Node(0, L, array[i])
      BY <1>11, <3>1 DEF RowNode
    <3> QED BY <1>8, <1>10, <2>1, <3>1, <3>2 DEF element
  <2>2. CASE n = L
    <3>1. n \in 1 .. L /\ ~(n < b) /\ n # b + i /\ n = b + j
      BY <1>1, <2>2 DEF L
    <3> DEFINE prev == IF n <= b THEN 0 ELSE n - 1
               d == IF n <= b THEN NULL ELSE array[n - b]
    <3>2. longer[n] = Node(0, prev, d)
      BY <1>2, <1>8, <3>1 DEF RowNode
    <3>3. row[n] = Node(L + 1, prev, d)
      BY <1>11, <2>2, <3>1 DEF RowNode
    <3> HIDE DEF prev, d
    <3>4. with[n] = [longer[n] EXCEPT !.next = L + 1]
      BY <1>10, <2>2
    <3>5. with[n] = Node(L + 1, prev, d)
      BY <3>2, <3>4, NodeIs
    <3> QED BY <3>3, <3>5
  <2>3. CASE n # L /\ n # L + 1
    <3>1. n \in 1 .. L /\ n # b + i /\ n # b + j
      BY <1>1, <2>3 DEF L
    <3>2. row[n] = RowNode(b, array, j, n)
      BY <1>11, <3>1 DEF RowNode
    <3>3. with[n] = longer[n] /\ longer[n] = heap[n] /\ heap[n] = RowNode(b, array, j, n)
      BY <1>2, <1>8, <1>10, <2>3, <3>1
    <3> QED BY <3>2, <3>3
  <2> QED BY <2>1, <2>2, <2>3
<1>13. with = row
  BY <1>10, <1>11, <1>12
<1> QED BY <1>5, <1>13 DEF heap, element, row

(* The equation of the recursive functions that fill a list from an array.  *)
IsFilled(g, base, lst, array) ==
    g = [i \in 0 .. Len(array) |->
            IF i = 0 THEN base ELSE list_append(g[i - 1], lst, array[i]).heap]

(* They fill it with the elements of the array, in order.                   *)
LEMMA FilledIs ==
    ASSUME NEW D, NULL \in D, NEW array \in Seq(D), NEW b \in Nat \ {0},
           NEW base, base = Row(b, array, 0)
    PROVE  /\ \E g : IsFilled(g, base, b, array)
           /\ \A g : IsFilled(g, base, b, array) => g[Len(array)] = Row(b, array, Len(array))
<1> DEFINE L == Len(array)
           w == [i \in 0 .. L |-> Row(b, array, i)]
<1>1. L \in Nat /\ 0 \in 0 .. L /\ L \in 0 .. L
  OBVIOUS
<1>2. \A i \in 0 .. L : i # 0 => i - 1 \in 0 .. L /\ i \in 1 .. L
  BY <1>1
<1>3. \A i \in 1 .. L : list_append(Row(b, array, i - 1), b, array[i]).heap = Row(b, array, i)
  BY AppendRow
<1>4. IsFilled(w, base, b, array)
  <2>1. \A i \in 0 .. L : w[i] = Row(b, array, i)
    OBVIOUS
  <2>2. DOMAIN w = 0 .. L /\ w = [i \in 0 .. L |-> w[i]]
    OBVIOUS
  <2> HIDE DEF w, L
  <2>3. ASSUME NEW i \in 0 .. L
        PROVE  w[i] = IF i = 0 THEN base ELSE list_append(w[i - 1], b, array[i]).heap
    BY <1>2, <1>3, <2>1
  <2> QED BY <2>2, <2>3 DEF IsFilled, L
<1>5. ASSUME NEW g, IsFilled(g, base, b, array) PROVE g[L] = Row(b, array, L)
  <2>1. \A i \in 0 .. L : g[i] = IF i = 0 THEN base ELSE list_append(g[i - 1], b, array[i]).heap
    BY <1>5 DEF IsFilled
  <2> HIDE DEF L
  <2> DEFINE T == {i \in 0 .. L : g[i] # Row(b, array, i)}
  <2>2. SUFFICES ASSUME T # {} PROVE FALSE
    BY <1>1
  <2>3. T \in SUBSET Nat
    BY <1>1
  <2>4. PICK i \in T : \A m \in T : ~(m < i)
    <3> HIDE DEF T
    <3> QED BY <2>2, <2>3, Least
  <2>5. i \in 0 .. L /\ g[i] # Row(b, array, i)
    OBVIOUS
  <2>6. i # 0
    BY <1>1, <2>1, <2>5
  <2>7. i - 1 \in 0 .. L /\ i \in 1 .. L /\ i - 1 < i
    BY <1>1, <1>2, <2>5, <2>6
  <2>8. i - 1 \notin T
    <3> HIDE DEF T
    <3> QED BY <2>4, <2>7
  <2>9. g[i - 1] = Row(b, array, i - 1)
    BY <2>7, <2>8
  <2> HIDE DEF T
  <2> QED BY <1>3, <2>1, <2>5, <2>6, <2>7, <2>9
<1> QED BY <1>4, <1>5

-----------------------------------------------------------------------------
(* The array of a list whose first node is f.                               *)
LEMMA ToArrayIs ==
    ASSUME NEW D, NEW heap \in Seq(Nodes(D)), NEW f \in 2 .. Len(heap), Linked(heap, f),
           heap[1].prev = 0, heap[1].next = f,
           NEW array, Elements(array, Len(heap) - f + 1),
           \A i \in 1 .. Len(heap) - f + 1 : array[i] = heap[f + i - 1].data
    PROVE  list_toarray(heap, 1) = UpToNull(array)
<1> DEFINE L == Len(heap)
           N == L - f + 1
           nodes == FromTo(f, L)
           elements == [i \in DOMAIN nodes |-> heap[nodes[i]].data]
<1>1. L \in Nat /\ f \in Nat /\ f <= L /\ N \in Nat /\ f # 0
  OBVIOUS
<1>2. Behind(heap, f) = FromTo(f + 1, L)
  <2>1. f \in 1 .. L + 1 /\ f \in 1 .. L /\ f >= f
    OBVIOUS
  <2>2. Behind(heap, f) = BehindOf(heap, f, f)
    BY <2>1, BehindIs
  <2> QED BY <2>1, <2>2 DEF BehindOf
<1>3. <<f>> \o Behind(heap, f) = nodes
  <2> HIDE DEF L
  <2> QED BY <1>1, <1>2, FromToIs
<1>4. list_toarray(heap, 1) = UpToNull(elements)
  <2> HIDE DEF nodes
  <2> QED BY <1>1, <1>3 DEF list_toarray
<1>5. DOMAIN nodes = 1 .. N /\ \A i \in 1 .. N : nodes[i] = f + i - 1
  <2> HIDE DEF L
  <2> QED BY DEF FromTo
<1>6. elements = array
  <2> HIDE DEF nodes, N
  <2>1. array = [i \in 1 .. N |-> array[i]]
    BY DEF Elements, N
  <2>2. \A i \in 1 .. N : elements[i] = array[i]
    BY <1>5 DEF N
  <2>3. elements = [i \in 1 .. N |-> elements[i]]
    BY <1>5
  <2> HIDE DEF elements
  <2> QED BY <2>1, <2>2, <2>3
<1> QED BY <1>4, <1>6

(* The heaps the lists start from.                                          *)
LEMMA NewIs ==
    ASSUME NEW array
    PROVE  /\ list_new(<<>>).heap = Row(1, array, 0) /\ list_new(<<>>).ptr = 1
           /\ list_new(Row(1, array, 0)).heap = Row(2, array, 0)
           /\ list_new(Row(1, array, 0)).ptr = 2
<1> DEFINE node == Node(0, 0, NULL)
           one == Row(1, array, 0)
           two == Row(2, array, 0)
           T == {node}
<1>1. \A h, p : Result(h, p).heap = h /\ Result(h, p).ptr = p
  BY DEF Result
<1>2. Elements(one, 1) /\ one[1] = node
  <2>1. 1 + 0 = 1 /\ 1 \in 1 .. 1 /\ 1 <= 1 /\ one = [n \in 1 .. 1 |-> RowNode(1, array, 0, n)]
    BY DEF Row
  <2>2. RowNode(1, array, 0, 1) = node
    BY <2>1 DEF RowNode
  <2> HIDE DEF one
  <2> QED BY <2>1, <2>2 DEF Elements
<1>3. Elements(two, 2) /\ two[1] = node /\ two[2] = node
  <2>1. /\ 2 + 0 = 2 /\ 1 \in 1 .. 2 /\ 2 \in 1 .. 2 /\ 1 <= 2 /\ 2 <= 2 /\ 1 < 2
        /\ two = [n \in 1 .. 2 |-> RowNode(2, array, 0, n)]
    BY DEF Row
  <2>2. RowNode(2, array, 0, 1) = node /\ RowNode(2, array, 0, 2) = node
    BY <2>1 DEF RowNode
  <2> HIDE DEF two
  <2> QED BY <2>1, <2>2 DEF Elements
<1> HIDE DEF one, two, node
<1>4. one \in Seq(T) /\ Len(one) = 1
  <2>1. \A i \in 1 .. 1 : i = 1
    OBVIOUS
  <2>2. \A i \in 1 .. 1 : one[i] \in T
    BY <1>2, <2>1
  <2> HIDE DEF T
  <2> QED BY <1>2, <2>2, IsSequence
<1>5. two \in Seq(T) /\ Len(two) = 2
  <2>1. \A i \in 1 .. 2 : i = 1 \/ i = 2
    OBVIOUS
  <2>2. \A i \in 1 .. 2 : two[i] \in T
    BY <1>3, <2>1
  <2> HIDE DEF T
  <2> QED BY <1>3, <2>2, IsSequence
<1>6. node \in T /\ <<>> \in Seq(T) /\ Len(<<>>) = 0
  OBVIOUS
<1> HIDE DEF T
<1>7. Append(<<>>, node) = one
  <2> DEFINE a == Append(<<>>, node)
  <2>1. a \in Seq(T) /\ Len(a) = 1 /\ a[1] = node
    BY <1>6, AppendProperties
  <2>2. \A i \in 1 .. Len(a) : a[i] = one[i]
    <3>1. \A i \in 1 .. 1 : i = 1
      OBVIOUS
    <3> HIDE DEF a
    <3> QED BY <1>2, <2>1, <3>1
  <2> HIDE DEF a
  <2>3. a = one
    BY <1>4, <2>1, <2>2, SeqEqual
  <2> QED BY <2>3 DEF a
<1>8. Append(one, node) = two
  <2> DEFINE a == Append(one, node)
  <2>1. 1 + 1 = 2 /\ 1 \in 1 .. 1
    OBVIOUS
  <2>2. /\ a \in Seq(T) /\ Len(a) = Len(one) + 1
        /\ \A i \in 1 .. Len(one) : a[i] = one[i]
        /\ a[Len(one) + 1] = node
    <3>1. one \in Seq(T) /\ node \in T
      BY <1>4, <1>6
    <3> QED BY <3>1, AppendProperties
  <2> HIDE DEF a
  <2>3. a \in Seq(T) /\ Len(a) = 2 /\ a[1] = node /\ a[2] = node
    BY <1>2, <1>4, <2>1, <2>2
  <2>4. \A i \in 1 .. Len(a) : a[i] = two[i]
    <3>1. \A i \in 1 .. 2 : i = 1 \/ i = 2
      OBVIOUS
    <3> HIDE DEF a
    <3> QED BY <1>3, <2>3, <3>1
  <2> HIDE DEF a
  <2>5. a = two
    BY <1>5, <2>3, <2>4, SeqEqual
  <2> QED BY <2>5 DEF a
<1>9. list_new(<<>>) = Result(one, 1)
  <2>1. Len(<<>>) + 1 = 1
    OBVIOUS
  <2> QED BY <1>7, <2>1 DEF list_new, node
<1>10. list_new(one) = Result(two, 2)
  <2>1. Len(one) + 1 = 2
    BY <1>4
  <2>2. list_new(one) = Result(Append(one, node), Len(one) + 1)
    BY DEF list_new, node
  <2> QED BY <1>8, <2>1, <2>2
<1> QED BY <1>1, <1>9, <1>10 DEF one, two

(* split gives the words of a line.                                         *)
LEMMA SplitIs ==
    ASSUME NEW S, NULL \notin Seq(S), NEW str \in Seq(S),
           WordsFrom(str, {QT}, 1) \in Seq(Seq(S)), QT # SP, QT # BSL
    PROVE  split(str, {SP}, {QT}, {BSL}) = WordsFrom(str, {QT}, 1)
<1> DEFINE W == WordsFrom(str, {QT}, 1)
           f == CHOOSE g : IsTokens(g, str, {QT}, {BSL})
           parts == IF f[1] = <<>> THEN <<NULL>> ELSE f[1]
           base == list_new(<<>>).heap
           lst == list_new(<<>>).ptr
           filled == CHOOSE g : IsFilled(g, base, lst, parts)
           D == Seq(S) \cup {NULL}
           N == Len(parts)
           heap == Row(1, parts, N)
<1>1. split(str, {SP}, {QT}, {BSL}) = list_toarray(filled[N], lst)
  BY DEF split, Tokens, IsTokens, IsFilled
<1>2. f[1] = W
  <2>1. {QT} = {QT} \ {BSL} /\ SP \notin {QT}
    <3>1. QT # SP /\ QT # BSL
      OBVIOUS
    <3> QED BY <3>1
  <2>2. IsTokens(f, str, {QT}, {BSL})
    <3>1. \E g : IsTokens(g, str, {QT}, {BSL})
      BY <2>1, TokensEquation
    <3> QED BY <3>1
  <2> DEFINE q == {QT}
             ee == {BSL}
  <2>3. q = q \ ee /\ SP \notin q /\ IsTokens(f, str, q, ee)
    BY <2>1, <2>2
  <2> HIDE DEF f, q, ee
  <2>4. f[1] = WordsFrom(str, q, 1)
    BY <2>3, TokensAre
  <2> QED BY <2>4 DEF q
<1>3. parts = IF W = <<>> THEN <<NULL>> ELSE W
  <2> HIDE DEF f
  <2> QED BY <1>2
<1> HIDE DEF parts, W
<1>4. W \in Seq(Seq(S))
  BY DEF W
<1>5. parts \in Seq(D) /\ N \in Nat /\ N >= 1 /\ NULL \in D
  <2>1. <<NULL>> \in Seq(D) /\ Len(<<NULL>>) = 1 /\ NULL \in D
    OBVIOUS
  <2>2. W \in Seq(D) /\ (W # <<>> => Len(W) >= 1)
    BY <1>4
  <2> HIDE DEF D
  <2>3. parts \in Seq(D) /\ Len(parts) >= 1
    BY <1>3, <2>1, <2>2
  <2> QED BY <2>1, <2>3
<1> HIDE DEF D
<1>6. base = Row(1, parts, 0) /\ lst = 1
  BY NewIs
<1>7. filled[N] = heap
  <2> HIDE DEF base, lst
  <2>1. 1 \in Nat \ {0}
    OBVIOUS
  <2>2. /\ \E g : IsFilled(g, base, 1, parts)
        /\ \A g : IsFilled(g, base, 1, parts) => g[Len(parts)] = Row(1, parts, Len(parts))
    BY <1>5, <1>6, <2>1, FilledIs
  <2>3. IsFilled(filled, base, 1, parts)
    BY <1>6, <2>2
  <2> HIDE DEF filled
  <2> QED BY <2>2, <2>3
<1> HIDE DEF filled, base, lst
<1>8. RowHeap(D, heap, 1, parts, N)
  <2>1. 1 \in Nat \ {0} /\ N \in 0 .. Len(parts)
    BY <1>5
  <2> HIDE DEF N
  <2> QED BY <1>5, <2>1, RowIs
<1> HIDE DEF heap
<1>9. /\ heap \in Seq(Nodes(D)) /\ Len(heap) = 1 + N /\ Linked(heap, 1)
      /\ \A n \in 1 .. 1 + N : heap[n] = RowNode(1, parts, N, n)
  BY <1>8 DEF RowHeap
<1> HIDE DEF N
<1>10. heap[1].prev = 0 /\ heap[1].next = 2
  <2>1. 1 \in 1 .. 1 + N /\ ~(1 < 1) /\ 1 # 1 + N /\ 1 + 1 = 2 /\ 1 <= 1
    BY <1>5 DEF N
  <2>2. heap[1] = Node(2, 0, NULL)
    BY <1>9, <2>1 DEF RowNode
  <2> QED BY <2>2, NodeIs
<1>11. list_toarray(heap, 1) = UpToNull(parts)
  <2>1. 2 \in 2 .. Len(heap) /\ Len(heap) - 2 + 1 = N
    BY <1>5, <1>9 DEF N
  <2>2. Linked(heap, 2)
    <3>1. ASSUME NEW n \in 2 .. Len(heap)
          PROVE  heap[n].next = IF n = Len(heap) THEN 0 ELSE n + 1
      <4>1. n \in 1 .. Len(heap)
        OBVIOUS
      <4> QED BY <1>9, <4>1 DEF Linked
    <3>2. \A n \in 1 .. 2 - 1 : n = 1
      OBVIOUS
    <3>3. 2 <= Len(heap)
      BY <2>1
    <3> QED BY <1>10, <3>1, <3>2, <3>3 DEF Linked
  <2>3. Elements(parts, N)
    BY <1>5 DEF Elements, N
  <2>4. ASSUME NEW i \in 1 .. N PROVE parts[i] = heap[2 + i - 1].data
    <3>1. 2 + i - 1 \in 1 .. 1 + N /\ ~(2 + i - 1 <= 1) /\ (2 + i - 1) - 1 = i
      BY <1>5 DEF N
    <3> DEFINE n == 2 + i - 1
    <3>2. heap[n].data = IF n <= 1 THEN NULL ELSE parts[n - 1]
      BY <1>9, <3>1, NodeIs DEF RowNode
    <3> QED BY <3>1, <3>2
  <2> QED BY <1>9, <1>10, <2>1, <2>2, <2>3, <2>4, ToArrayIs
<1>12. UpToNull(parts) = W
  <2>1. CASE W = <<>>
    <3>1. parts = <<NULL>> /\ parts # <<>> /\ parts[1] = NULL
      BY <1>3, <2>1
    <3> QED BY <1>5, <2>1, <3>1, UpToNullIs
  <2>2. CASE W # <<>>
    <3>1. parts = W
      BY <1>3, <2>2
    <3>2. \A i \in 1 .. Len(parts) : parts[i] # NULL
      BY <1>4, <3>1
    <3> QED BY <1>5, <3>1, <3>2, UpToNullIs
  <2> QED BY <2>1, <2>2
<1> QED BY <1>1, <1>6, <1>7, <1>11, <1>12 DEF W

(* A heap in which the next, the prev of one node has been set.             *)
NextSet(D, h, heap, m, to) ==
    /\ h \in Seq(Nodes(D)) /\ Len(h) = Len(heap)
    /\ \A n \in 1 .. Len(heap) :
           /\ h[n].next = IF n = m THEN to ELSE heap[n].next
           /\ h[n].prev = heap[n].prev /\ h[n].data = heap[n].data

PrevSet(D, h, heap, m, to) ==
    /\ h \in Seq(Nodes(D)) /\ Len(h) = Len(heap)
    /\ \A n \in 1 .. Len(heap) :
           /\ h[n].prev = IF n = m THEN to ELSE heap[n].prev
           /\ h[n].next = heap[n].next /\ h[n].data = heap[n].data

(* An assignment to next sets it and nothing else,                          *)
LEMMA SetNext ==
    ASSUME NEW D, NEW heap \in Seq(Nodes(D)), NEW m \in 1 .. Len(heap), NEW to \in Nat
    PROVE  NextSet(D, [heap EXCEPT ![m].next = to], heap, m, to)
<1> DEFINE h == [heap EXCEPT ![m].next = to]
           node == [heap[m] EXCEPT !.next = to]
<1>1. DOMAIN heap = 1 .. Len(heap) /\ Len(heap) \in Nat /\ heap[m] \in Nodes(D)
  OBVIOUS
<1>2. /\ node \in Nodes(D) /\ node.next = to
      /\ node.prev = heap[m].prev /\ node.data = heap[m].data
  BY <1>1 DEF Nodes
<1>3. h = [heap EXCEPT ![m] = node]
  BY <1>1
<1> HIDE DEF node
<1>4. /\ h \in Seq(Nodes(D)) /\ Len(h) = Len(heap)
      /\ \A n \in 1 .. Len(heap) : h[n] = IF n = m THEN node ELSE heap[n]
  BY <1>2, <1>3, ExceptSeq
<1> HIDE DEF h
<1>5. NextSet(D, h, heap, m, to)
  BY <1>2, <1>4 DEF NextSet
<1> QED BY <1>5 DEF h

(* and one to prev as well.                                                 *)
LEMMA SetPrev ==
    ASSUME NEW D, NEW heap \in Seq(Nodes(D)), NEW m \in 1 .. Len(heap), NEW to \in Nat
    PROVE  PrevSet(D, [heap EXCEPT ![m].prev = to], heap, m, to)
<1> DEFINE h == [heap EXCEPT ![m].prev = to]
           node == [heap[m] EXCEPT !.prev = to]
<1>1. DOMAIN heap = 1 .. Len(heap) /\ Len(heap) \in Nat /\ heap[m] \in Nodes(D)
  OBVIOUS
<1>2. /\ node \in Nodes(D) /\ node.prev = to
      /\ node.next = heap[m].next /\ node.data = heap[m].data
  BY <1>1 DEF Nodes
<1>3. h = [heap EXCEPT ![m] = node]
  BY <1>1
<1> HIDE DEF node
<1>4. /\ h \in Seq(Nodes(D)) /\ Len(h) = Len(heap)
      /\ \A n \in 1 .. Len(heap) : h[n] = IF n = m THEN node ELSE heap[n]
  BY <1>2, <1>3, ExceptSeq
<1> HIDE DEF h
<1>5. PrevSet(D, h, heap, m, to)
  BY <1>2, <1>4 DEF PrevSet
<1> QED BY <1>5 DEF h

(* The heap of list_fromarray: the head, the head of the list that was cut  *)
(* off, and the nodes of the elements, of which the first has the last as   *)
(* its prev.                                                                *)
ArrayHeap(D, heap, array) ==
    /\ heap \in Seq(Nodes(D)) /\ Len(heap) = 2 + Len(array)
    /\ heap[1].next = (IF Len(array) = 0 THEN 0 ELSE 3) /\ heap[1].prev = 0
    /\ heap[2].next = 0 /\ heap[2].prev = 0
    /\ \A n \in 3 .. 2 + Len(array) :
           /\ heap[n].next = IF n = 2 + Len(array) THEN 0 ELSE n + 1
           /\ heap[n].prev = IF n = 3 THEN 2 + Len(array) ELSE n - 1
           /\ heap[n].data = array[n - 2]

(* list_insert_list leaves that heap, of the list made of the array.        *)
LEMMA InsertIs ==
    ASSUME NEW D, NULL \in D, NEW array \in Seq(D)
    PROVE  ArrayHeap(D, list_insert_list(Row(2, array, Len(array)), 1, 2).heap, array)
<1> DEFINE N == Len(array)
           L == 2 + N
           heap == Row(2, array, N)
           cut == [heap EXCEPT ![2].next = 0]
           last == list_last(heap, heap[2].next)
           first == heap[2].next
           h1 == [cut EXCEPT ![last].next = cut[1].next]
           h2 == [h1 EXCEPT ![1].next = first]
           h3 == [h2 EXCEPT ![first].prev = last]
           res == list_insert_list(heap, 1, 2)
<1>1. N \in Nat /\ L \in Nat /\ L >= 2 /\ 1 \in 1 .. L /\ 2 \in 1 .. L
  OBVIOUS
<1>2. /\ heap \in Seq(Nodes(D)) /\ Len(heap) = L /\ Linked(heap, 2)
      /\ 2 \in 1 .. Len(heap) + 1
      /\ \A n \in 1 .. L : heap[n] = RowNode(2, array, N, n)
  <2>1. 2 \in Nat \ {0} /\ N \in 0 .. Len(array)
    OBVIOUS
  <2>2. RowHeap(D, heap, 2, array, N)
    <3> HIDE DEF N
    <3> QED BY <2>1, RowIs
  <2> QED BY <2>2 DEF RowHeap
<1> HIDE DEF heap
<1>3. \A n \in 1 .. L : /\ heap[n].next = IF n < 2 \/ n = L THEN 0 ELSE n + 1
                        /\ heap[n].prev = IF n <= 2 THEN 0 ELSE n - 1
                        /\ heap[n].data = IF n <= 2 THEN NULL ELSE array[n - 2]
  <2>1. ASSUME NEW n \in 1 .. L
        PROVE  /\ heap[n].next = IF n < 2 \/ n = L THEN 0 ELSE n + 1
               /\ heap[n].prev = IF n <= 2 THEN 0 ELSE n - 1
               /\ heap[n].data = IF n <= 2 THEN NULL ELSE array[n - 2]
    BY <1>2, NodeIs DEF RowNode
  <2> QED BY <2>1
<1>4. list_head(heap, 2) = 2
  <2>1. TwoHeads(heap)
    <3>1. ASSUME NEW n \in 1 .. Len(heap)
          PROVE  IF n <= 2 THEN heap[n].prev = 0 ELSE heap[n].prev \in 2 .. Len(heap)
      <4> HIDE DEF L
      <4>1. n \in 1 .. L /\ (~(n <= 2) => n - 1 \in 2 .. L)
        BY <1>1, <1>2
      <4> QED BY <1>2, <1>3, <4>1
    <3> QED BY <3>1 DEF TwoHeads
  <2>2. 2 \in 1 .. Len(heap) /\ 2 <= 2
    BY <1>1, <1>2
  <2> QED BY <1>2, <2>1, <2>2, HeadIs
<1>5. first = IF N = 0 THEN 0 ELSE 3
  <2>1. ~(2 < 2) /\ 2 + 1 = 3 /\ (2 = L <=> N = 0)
    BY <1>1
  <2> HIDE DEF L, N
  <2> QED BY <1>1, <1>3, <2>1
<1>6. NextSet(D, cut, heap, 2, 0)
  <2>1. 2 \in 1 .. Len(heap) /\ 0 \in Nat
    BY <1>1, <1>2
  <2> QED BY <1>2, <2>1, SetNext
<1>7. \A h, p : Result(h, p).heap = h
  BY DEF Result
<1>8. res = IF first = 0 THEN Result(cut, 0) ELSE Result(h3, first)
  <2> DEFINE Cut(hd)   == [heap EXCEPT ![hd].next = 0]
             New(hd)   == heap[hd].next
             Last(hd)  == list_last(heap, New(hd))
             Three(hd) == [[[Cut(hd) EXCEPT ![Last(hd)].next = Cut(hd)[1].next]
                                EXCEPT ![1].next = New(hd)]
                                EXCEPT ![New(hd)].prev = Last(hd)]
             Both(hd)  == IF New(hd) = 0 THEN Result(Cut(hd), 0) ELSE Result(Three(hd), New(hd))
  <2>1. res = Both(list_head(heap, 2))
    BY DEF list_insert_list
  <2>2. Both(2) = IF first = 0 THEN Result(cut, 0) ELSE Result(h3, first)
    OBVIOUS
  <2> HIDE DEF Both, res, cut, h3, first
  <2> QED BY <1>4, <2>1, <2>2
<1> HIDE DEF cut
<1> HIDE DEF L, N, first
<1>9. CASE N = 0
  <2>1. res.heap = cut /\ first = 0
    <3>1. first = 0
      BY <1>5, <1>9
    <3> HIDE DEF res, h3
    <3> QED BY <1>7, <1>8, <3>1
  <2>2. L = 2 /\ 2 + Len(array) = L /\ 3 .. L = {} /\ 1 # 2 /\ 1 < 2 /\ 1 <= 2 /\ 2 <= 2
    BY <1>9 DEF L, N
  <2>3. cut \in Seq(Nodes(D)) /\ Len(cut) = L
    BY <1>2, <1>6 DEF NextSet
  <2>4. /\ cut[1].next = heap[1].next /\ cut[1].prev = heap[1].prev
        /\ cut[2].next = 0 /\ cut[2].prev = heap[2].prev
    BY <1>1, <1>2, <1>6, <2>2 DEF NextSet
  <2>5. heap[1].next = 0 /\ heap[1].prev = 0 /\ heap[2].prev = 0
    BY <1>1, <1>3, <2>2
  <2> HIDE DEF res
  <2>6. ArrayHeap(D, res.heap, array)
    BY <1>9, <2>1, <2>2, <2>3, <2>4, <2>5 DEF ArrayHeap, N
  <2> QED BY <2>6 DEF res, heap, N
<1>10. CASE N # 0
  <2>1. first = 3 /\ 3 \in 1 .. L /\ L \in 1 .. L /\ L >= 3 /\ 3 # 0 /\ 1 # L /\ 2 # L
    BY <1>1, <1>5, <1>10 DEF L
  <2>2. last = L
    <3>1. 3 \in 1 .. Len(heap) /\ ~(3 < 2)
      BY <1>2, <2>1
    <3>2. list_last(heap, 3) = LastOf(heap, 2, 3)
      BY <1>2, <3>1, LastIs
    <3>3. list_last(heap, 3) = L
      BY <1>2, <3>1, <3>2 DEF LastOf
    <3> QED BY <2>1, <3>3 DEF first
  <2>3. res.heap = h3
    <3> HIDE DEF res, h3
    <3> QED BY <1>7, <1>8, <2>1
  <2>4. /\ cut \in Seq(Nodes(D)) /\ Len(cut) = L
        /\ \A n \in 1 .. L : /\ cut[n].next = IF n = 2 THEN 0 ELSE heap[n].next
                             /\ cut[n].prev = heap[n].prev /\ cut[n].data = heap[n].data
    BY <1>2, <1>6 DEF NextSet
  <2>5. cut[1].next = 0
    <3>1. 1 # 2 /\ 1 < 2
      OBVIOUS
    <3> QED BY <1>1, <1>3, <2>4, <3>1
  <2> HIDE DEF last
  <2>6. NextSet(D, h1, cut, L, 0)
    <3>1. L \in 1 .. Len(cut) /\ 0 \in Nat
      BY <2>1, <2>4
    <3>2. h1 = [cut EXCEPT ![L].next = 0]
      BY <2>2, <2>5
    <3>3. NextSet(D, [cut EXCEPT ![L].next = 0], cut, L, 0)
      BY <2>4, <3>1, SetNext
    <3> QED BY <3>2, <3>3
  <2> HIDE DEF h1
  <2>7. /\ h1 \in Seq(Nodes(D)) /\ Len(h1) = L
        /\ \A n \in 1 .. L : /\ h1[n].next = IF n = L THEN 0 ELSE cut[n].next
                             /\ h1[n].prev = cut[n].prev /\ h1[n].data = cut[n].data
    BY <2>4, <2>6 DEF NextSet
  <2>8. NextSet(D, h2, h1, 1, 3)
    <3>1. 1 \in 1 .. Len(h1) /\ 3 \in Nat
      BY <1>1, <2>7
    <3>2. NextSet(D, [h1 EXCEPT ![1].next = 3], h1, 1, 3)
      BY <2>7, <3>1, SetNext
    <3> QED BY <2>1, <3>2
  <2> HIDE DEF h2
  <2>9. /\ h2 \in Seq(Nodes(D)) /\ Len(h2) = L
        /\ \A n \in 1 .. L : /\ h2[n].next = IF n = 1 THEN 3 ELSE h1[n].next
                             /\ h2[n].prev = h1[n].prev /\ h2[n].data = h1[n].data
    BY <2>7, <2>8 DEF NextSet
  <2>10. PrevSet(D, h3, h2, 3, L)
    <3>1. 3 \in 1 .. Len(h2) /\ L \in Nat
      BY <1>1, <2>1, <2>9
    <3>2. PrevSet(D, [h2 EXCEPT ![3].prev = L], h2, 3, L)
      BY <2>9, <3>1, SetPrev
    <3> QED BY <2>1, <2>2, <3>2
  <2> HIDE DEF h3
  <2>11. /\ h3 \in Seq(Nodes(D)) /\ Len(h3) = L
         /\ \A n \in 1 .. L : /\ h3[n].prev = IF n = 3 THEN L ELSE h2[n].prev
                              /\ h3[n].next = h2[n].next /\ h3[n].data = h2[n].data
    BY <2>9, <2>10 DEF PrevSet
  <2>12. ASSUME NEW n \in 1 .. L
         PROVE  /\ h3[n].next = IF n = 1 THEN 3 ELSE IF n = L \/ n = 2 THEN 0 ELSE heap[n].next
                /\ h3[n].prev = IF n = 3 THEN L ELSE heap[n].prev
                /\ h3[n].data = heap[n].data
    <3>1. h3[n].next = IF n = 1 THEN 3 ELSE IF n = L THEN 0 ELSE cut[n].next
      BY <2>7, <2>9, <2>11
    <3>2. cut[n].next = IF n = 2 THEN 0 ELSE heap[n].next
      BY <2>4
    <3>3. h3[n].prev = IF n = 3 THEN L ELSE heap[n].prev
      BY <2>4, <2>7, <2>9, <2>11
    <3>4. h3[n].data = heap[n].data
      BY <2>4, <2>7, <2>9, <2>11
    <3> QED BY <3>1, <3>2, <3>3, <3>4
  <2>13. ASSUME NEW n \in 3 .. L
         PROVE  /\ h3[n].next = IF n = L THEN 0 ELSE n + 1
                /\ h3[n].prev = IF n = 3 THEN L ELSE n - 1
                /\ h3[n].data = array[n - 2]
    <3>1. n \in 1 .. L /\ n # 1 /\ n # 2 /\ ~(n < 2) /\ ~(n <= 2)
      BY <1>1
    <3>2. /\ heap[n].next = IF n = L THEN 0 ELSE n + 1
          /\ heap[n].prev = n - 1 /\ heap[n].data = array[n - 2]
      BY <1>3, <3>1
    <3> QED BY <2>12, <3>1, <3>2
  <2>14. h3[1].next = 3 /\ h3[1].prev = 0 /\ h3[2].next = 0 /\ h3[2].prev = 0
    <3>1. 1 # 3 /\ 2 # 3 /\ 2 # 1 /\ 1 <= 2 /\ 2 <= 2
      OBVIOUS
    <3>2. heap[1].prev = 0 /\ heap[2].prev = 0
      BY <1>1, <1>3, <3>1
    <3> QED BY <1>1, <2>12, <3>1, <3>2
  <2>15. ArrayHeap(D, h3, array)
    <3>1. 2 + Len(array) = L /\ Len(array) # 0
      BY <1>10 DEF L, N
    <3> QED BY <2>11, <2>13, <2>14, <3>1 DEF ArrayHeap
  <2>16. ArrayHeap(D, res.heap, array)
    BY <2>3, <2>15
  <2> QED BY <2>16 DEF res, heap, N
<1> QED BY <1>9, <1>10

(* So does list_fromarray, from an empty heap.                              *)
LEMMA FromArrayIs ==
    ASSUME NEW D, NULL \in D, NEW array \in Seq(D)
    PROVE  /\ ArrayHeap(D, list_fromarray(<<>>, array).heap, array)
           /\ list_fromarray(<<>>, array).ptr = 1
<1> DEFINE one == list_new(<<>>).heap
           ptr == list_new(<<>>).ptr
           two == list_new(one).heap
           lst == list_new(one).ptr
           filled == CHOOSE g : IsFilled(g, two, lst, array)
           N == Len(array)
<1>1. one = Row(1, array, 0) /\ ptr = 1
  BY NewIs
<1>2. two = Row(2, array, 0) /\ lst = 2
  <2> HIDE DEF one
  <2> QED BY <1>1, NewIs
<1>3. \A h, p : Result(h, p).heap = h /\ Result(h, p).ptr = p
  BY DEF Result
<1>4. list_fromarray(<<>>, array) = Result(list_append_array(one, ptr, array).heap, ptr)
  BY DEF list_fromarray
<1>5. \A at : list_insert_array(one, at, array) = list_insert_list(filled[N], at, lst)
  BY DEF list_insert_array, IsFilled
<1> HIDE DEF one, ptr, two, lst, N
<1>6. list_last(one, 1) = 1
  <2>1. 1 \in Nat \ {0} /\ 0 \in 0 .. Len(array) /\ 1 + 0 = 1 /\ ~(1 < 1)
    OBVIOUS
  <2>2. RowHeap(D, one, 1, array, 0)
    BY <1>1, <2>1, RowIs
  <2>3. /\ one \in Seq(Nodes(D)) /\ Len(one) = 1 /\ Linked(one, 1)
        /\ 1 \in 1 .. Len(one) + 1 /\ 1 \in 1 .. Len(one)
    BY <2>1, <2>2 DEF RowHeap
  <2>4. list_last(one, 1) = LastOf(one, 1, 1)
    BY <2>3, LastIs
  <2> QED BY <2>1, <2>3, <2>4 DEF LastOf
<1>7. filled[N] = Row(2, array, N)
  <2>1. 2 \in Nat \ {0}
    OBVIOUS
  <2>2. /\ \E g : IsFilled(g, two, 2, array)
        /\ \A g : IsFilled(g, two, 2, array) => g[Len(array)] = Row(2, array, Len(array))
    BY <1>2, <2>1, FilledIs
  <2>3. IsFilled(filled, two, 2, array)
    BY <1>2, <2>2
  <2> HIDE DEF filled
  <2> QED BY <2>2, <2>3 DEF N
<1> HIDE DEF filled
<1>8. list_append_array(one, 1, array) = list_insert_list(Row(2, array, N), 1, 2)
  BY <1>2, <1>5, <1>6, <1>7 DEF list_append_array
<1>9. ArrayHeap(D, list_insert_list(Row(2, array, N), 1, 2).heap, array)
  BY InsertIs DEF N
<1> QED BY <1>1, <1>3, <1>4, <1>8, <1>9

(* list_foreach visits the nodes of the elements, and no other.             *)
Formatted(D, formatted, heap, array) ==
    /\ formatted \in Seq(Nodes(D)) /\ Len(formatted) = Len(heap)
    /\ \A n \in 1 .. Len(heap) : /\ formatted[n].next = heap[n].next
                                 /\ formatted[n].prev = heap[n].prev
    /\ \A n \in 3 .. Len(heap) : formatted[n].data = format(array[n - 2])

(* Every element is formatted once, and the links stay.                     *)
LEMMA ForeachIs ==
    ASSUME NEW S, BSL \notin S, NEW D, D = Seq(S) \cup {NULL},
           NEW array \in Seq(Seq(S)), NEW heap, ArrayHeap(D, heap, array)
    PROVE  Formatted(D, list_foreach(heap, 1, format), heap, array)
<1> DEFINE N == Len(array)
           L == 2 + N
           nodes == Behind(heap, list_head(heap, 1))
           Seen(n) == \E i \in DOMAIN nodes : nodes[i] = n
           formatted == list_foreach(heap, 1, format)
<1>1. N \in Nat /\ L \in Nat /\ L >= 2 /\ 1 \in 1 .. L /\ 2 \in 1 .. L
  OBVIOUS
<1>2. /\ heap \in Seq(Nodes(D)) /\ Len(heap) = L
      /\ heap[1].next = (IF N = 0 THEN 0 ELSE 3) /\ heap[1].prev = 0
      /\ heap[2].next = 0 /\ heap[2].prev = 0
  BY DEF ArrayHeap
<1>3. \A n \in 3 .. L : /\ heap[n].next = IF n = L THEN 0 ELSE n + 1
                        /\ heap[n].prev = IF n = 3 THEN L ELSE n - 1
                        /\ heap[n].data = array[n - 2]
  BY DEF ArrayHeap
<1>4. list_head(heap, 1) = 1
  <2>1. TwoHeads(heap)
    <3>1. ASSUME NEW n \in 1 .. Len(heap)
          PROVE  IF n <= 2 THEN heap[n].prev = 0 ELSE heap[n].prev \in 2 .. Len(heap)
      <4> HIDE DEF L
      <4>1. CASE n <= 2
        <5>1. n = 1 \/ n = 2
          BY <4>1
        <5> QED BY <1>2, <4>1, <5>1
      <4>2. CASE ~(n <= 2)
        <5>1. n \in 3 .. L /\ n - 1 \in 2 .. L /\ L \in 2 .. L
          BY <1>1, <1>2, <4>2
        <5> QED BY <1>2, <1>3, <4>2, <5>1
      <4> QED BY <4>1, <4>2
    <3> QED BY <3>1 DEF TwoHeads
  <2>2. 1 \in 1 .. Len(heap) /\ 1 <= 2
    BY <1>1, <1>2
  <2> QED BY <1>2, <2>1, <2>2, HeadIs
<1>5. Linked(heap, 3)
  <2>1. \A n \in 1 .. 3 - 1 : n = 1 \/ n = 2
    OBVIOUS
  <2>2. N # 0 => 3 <= L
    BY <1>1
  <2> HIDE DEF L, N
  <2>3. \A n \in 1 .. 3 - 1 : heap[n].next = 0 \/ (heap[n].next = 3 /\ 3 <= L)
    BY <1>2, <2>1, <2>2
  <2> QED BY <1>2, <1>3, <2>3 DEF Linked
<1>6. nodes = IF N = 0 THEN <<>> ELSE FromTo(3, L)
  <2>1. 3 \in 1 .. Len(heap) + 1 /\ 1 \in 1 .. Len(heap) /\ ~(1 >= 3) /\ 3 # 0
    BY <1>1, <1>2
  <2> HIDE DEF L, N
  <2>2. Behind(heap, 1) = BehindOf(heap, 3, 1)
    BY <1>2, <1>5, <2>1, BehindIs
  <2>3. Behind(heap, 1) = IF N = 0 THEN <<>> ELSE FromTo(3, L)
    BY <1>2, <2>1, <2>2 DEF BehindOf
  <2> QED BY <1>4, <2>3
<1>7. ASSUME NEW n \in 1 .. L PROVE Seen(n) <=> n >= 3
  <2>1. CASE N = 0
    <3>1. nodes = <<>> /\ ~(n >= 3)
      BY <1>6, <2>1
    <3>2. DOMAIN <<>> = {}
      OBVIOUS
    <3> HIDE DEF nodes
    <3> QED BY <3>1, <3>2
  <2>2. CASE N # 0
    <3>1. nodes = FromTo(3, L)
      BY <1>6, <2>2
    <3>2. DOMAIN nodes = 1 .. L - 3 + 1 /\ \A i \in 1 .. L - 3 + 1 : nodes[i] = 3 + i - 1
      <4> HIDE DEF nodes, L
      <4> QED BY <3>1 DEF FromTo
    <3> HIDE DEF nodes
    <3>3. \A i \in 1 .. L - 3 + 1 : 3 + i - 1 >= 3
      BY <1>1
    <3>4. n >= 3 => n - 2 \in 1 .. L - 3 + 1 /\ 3 + (n - 2) - 1 = n
      BY <1>1
    <3> HIDE DEF L
    <3> QED BY <3>2, <3>3, <3>4
  <2> QED BY <2>1, <2>2
<1>8. formatted = [n \in DOMAIN heap |->
                      IF Seen(n) THEN [heap[n] EXCEPT !.data = format(heap[n].data)] ELSE heap[n]]
  BY DEF list_foreach
<1> HIDE DEF formatted, Seen, L, N
<1>9. DOMAIN heap = 1 .. L
  BY <1>2
<1>10. \A n \in 1 .. L : formatted[n] = IF n >= 3 THEN [heap[n] EXCEPT !.data = format(heap[n].data)]
                                       ELSE heap[n]
  BY <1>7, <1>8, <1>9
<1>11. Elements(formatted, L)
  <2>1. DOMAIN formatted = 1 .. L /\ formatted = [n \in DOMAIN formatted |-> formatted[n]]
    BY <1>8, <1>9
  <2> QED BY <2>1 DEF Elements
<1>12. ASSUME NEW n \in 1 .. L
       PROVE  /\ formatted[n] \in Nodes(D)
              /\ formatted[n].next = heap[n].next /\ formatted[n].prev = heap[n].prev
              /\ n >= 3 => formatted[n].data = format(array[n - 2])
  <2>1. heap[n] \in Nodes(D)
    BY <1>2
  <2>2. CASE ~(n >= 3)
    BY <1>10, <2>1, <2>2
  <2>3. CASE n >= 3
    <3>1. heap[n].data = array[n - 2] /\ array[n - 2] \in Seq(S)
      <4>1. n \in 3 .. L /\ n - 2 \in 1 .. Len(array)
        BY <1>1, <2>3 DEF L, N
      <4> QED BY <1>3, <4>1
    <3> DEFINE word == array[n - 2]
               node == heap[n]
    <3>2. format(word) \in Seq(S)
      <4> HIDE DEF word
      <4>1. word \in Seq(S) /\ 1 \in 1 .. Len(word) + 1 /\ Len(word) \in 0 .. Len(word)
        BY <3>1 DEF word
      <4>2. format(word) = KeptOf(word, {QT}, 1, Len(word))
        BY <4>1, FormatIs
      <4> QED BY <4>1, <4>2, KeptSeq
    <3>3. format(word) \in D
      BY <3>2
    <3>4. formatted[n] = [node EXCEPT !.data = format(word)]
      BY <1>10, <2>3, <3>1
    <3> HIDE DEF word, node
    <3>5. /\ formatted[n] \in Nodes(D) /\ formatted[n].data = format(word)
          /\ formatted[n].next = node.next /\ formatted[n].prev = node.prev
      <4>1. node \in Nodes(D)
        BY <2>1 DEF node
      <4> DEFINE d == format(word)
      <4>2. d \in D /\ formatted[n] = [node EXCEPT !.data = d]
        BY <3>3, <3>4
      <4> HIDE DEF d
      <4>3. /\ formatted[n] \in Nodes(D) /\ formatted[n].data = d
            /\ formatted[n].next = node.next /\ formatted[n].prev = node.prev
        BY <4>1, <4>2 DEF Nodes
      <4> QED BY <4>3 DEF d
    <3> QED BY <3>5 DEF word, node
  <2> QED BY <2>2, <2>3
<1>13. formatted \in Seq(Nodes(D)) /\ Len(formatted) = L
  BY <1>1, <1>11, <1>12, IsSequence
<1>14. \A n \in 3 .. L : n \in 1 .. L /\ n >= 3
  BY <1>1
<1>15. Formatted(D, formatted, heap, array)
  BY <1>2, <1>12, <1>13, <1>14 DEF Formatted
<1> QED BY <1>15 DEF formatted

(* Without elements a sequence is empty.                                    *)
LEMMA NoElements ==
    ASSUME NEW V, Elements(V, 0)
    PROVE  V = <<>>
<1>1. 1 .. 0 = {}
  OBVIOUS
<1> QED BY <1>1 DEF Elements

(* pierresh: the formatted words of the line, interpreted.                  *)
LEMMA PierreshWords ==
    ASSUME NEW S, NULL \notin Seq(S), BSL \notin S, NEW str \in Seq(S),
           WordsFrom(str, {QT}, 1) \in Seq(Seq(S)), QT # SP, QT # BSL,
           NEW args, Elements(args, Len(WordsFrom(str, {QT}, 1))),
           \A i \in 1 .. Len(WordsFrom(str, {QT}, 1)) :
               args[i] = format(WordsFrom(str, {QT}, 1)[i])
    PROVE  pierresh(str) = interpret(args)
<1> DEFINE W == WordsFrom(str, {QT}, 1)
           N == Len(W)
           D == Seq(S) \cup {NULL}
           newArgs == list_fromarray(<<>>, W)
           heap == newArgs.heap
           formatted == list_foreach(heap, 1, format)
<1>1. split(str, {SP}, {QT}, {BSL}) = W
  BY SplitIs
<1>2. ArrayHeap(D, heap, W) /\ newArgs.ptr = 1
  <2> HIDE DEF W
  <2>1. NULL \in D /\ W \in Seq(D)
    <3>1. W \in Seq(Seq(S)) /\ Seq(S) \subseteq D
      BY DEF W
    <3> QED BY <3>1
  <2> HIDE DEF D
  <2> QED BY <2>1, FromArrayIs
<1>3. pierresh(str) = interpret(list_toarray(formatted, 1))
  <2> DEFINE of(arr) == list_fromarray(<<>>, arr)
             end(arr) == interpret(list_toarray(list_foreach(of(arr).heap, of(arr).ptr, format),
                                                of(arr).ptr))
  <2>1. pierresh(str) = end(split(str, {SP}, {QT}, {BSL}))
    BY DEF pierresh
  <2>2. pierresh(str) = end(W)
    <3> HIDE DEF end, W
    <3> QED BY <1>1, <2>1
  <2>3. pierresh(str) = interpret(list_toarray(list_foreach(heap, newArgs.ptr, format), newArgs.ptr))
    BY <2>2
  <2> HIDE DEF newArgs, end
  <2> QED BY <1>2, <2>3
<1> HIDE DEF W
<1>4. W \in Seq(Seq(S)) /\ N \in Nat /\ Len(W) = N
  BY DEF W
<1> HIDE DEF heap, N
<1>5. /\ heap \in Seq(Nodes(D)) /\ Len(heap) = 2 + N
      /\ heap[1].next = (IF N = 0 THEN 0 ELSE 3) /\ heap[1].prev = 0 /\ heap[2].next = 0
      /\ \A n \in 3 .. 2 + N : heap[n].next = IF n = 2 + N THEN 0 ELSE n + 1
  BY <1>2, <1>4 DEF ArrayHeap
<1>6. /\ formatted \in Seq(Nodes(D)) /\ Len(formatted) = Len(heap)
      /\ \A n \in 1 .. Len(heap) : /\ formatted[n].next = heap[n].next
                                   /\ formatted[n].prev = heap[n].prev
      /\ \A n \in 3 .. Len(heap) : formatted[n].data = format(W[n - 2])
  <2>1. Formatted(D, formatted, heap, W)
    BY <1>2, <1>4, ForeachIs
  <2> HIDE DEF formatted
  <2> QED BY <2>1 DEF Formatted
<1> HIDE DEF D, formatted
<1>7. /\ formatted[1].next = (IF N = 0 THEN 0 ELSE 3) /\ formatted[1].prev = 0
      /\ formatted[2].next = 0
      /\ \A n \in 3 .. 2 + N : formatted[n].next = IF n = 2 + N THEN 0 ELSE n + 1
  <2>1. \A n \in 1 .. 2 + N : formatted[n].next = heap[n].next /\ formatted[n].prev = heap[n].prev
    BY <1>5, <1>6
  <2>2. 1 \in 1 .. 2 + N /\ 2 \in 1 .. 2 + N /\ \A n \in 3 .. 2 + N : n \in 1 .. 2 + N
    BY <1>4
  <2> QED BY <1>5, <2>1, <2>2
<1>8. Elements(args, N) /\ \A i \in 1 .. N : args[i] = format(W[i])
  BY <1>4 DEF W, N
<1>9. CASE N = 0
  <2>1. list_toarray(formatted, 1) = <<>>
    BY <1>7, <1>9 DEF list_toarray
  <2>2. args = <<>>
    <3>1. Elements(args, 0)
      BY <1>8, <1>9
    <3> QED BY <3>1, NoElements
  <2> QED BY <1>3, <2>1, <2>2
<1>10. CASE N # 0
  <2>1. 3 \in 2 .. Len(formatted) /\ Len(formatted) - 3 + 1 = N /\ Len(formatted) = 2 + N
    BY <1>4, <1>5, <1>6, <1>10
  <2>2. Linked(formatted, 3)
    <3>1. \A n \in 1 .. 3 - 1 : n = 1 \/ n = 2
      OBVIOUS
    <3>2. 3 <= Len(formatted)
      BY <2>1
    <3>3. \A n \in 1 .. 3 - 1 : formatted[n].next = 0 \/ (formatted[n].next = 3 /\ 3 <= Len(formatted))
      BY <1>7, <1>10, <3>1, <3>2
    <3> QED BY <1>7, <2>1, <3>3 DEF Linked
  <2>3. ASSUME NEW i \in 1 .. N PROVE args[i] = formatted[3 + i - 1].data
    <3>1. 3 + i - 1 \in 3 .. Len(heap) /\ (3 + i - 1) - 2 = i
      BY <1>4, <1>5
    <3>2. formatted[3 + i - 1].data = format(W[(3 + i - 1) - 2])
      BY <1>6, <3>1
    <3> QED BY <1>8, <3>1, <3>2
  <2>4. list_toarray(formatted, 1) = UpToNull(args)
    <3>1. formatted[1].next = 3
      BY <1>7, <1>10
    <3>2. Elements(args, Len(formatted) - 3 + 1)
      BY <1>8, <2>1
    <3>3. \A i \in 1 .. Len(formatted) - 3 + 1 : args[i] = formatted[3 + i - 1].data
      BY <2>1, <2>3
    <3> QED BY <1>6, <1>7, <2>1, <2>2, <3>1, <3>2, <3>3, ToArrayIs
  <2>5. UpToNull(args) = args
    <3>1. ASSUME NEW i \in 1 .. N PROVE args[i] \in Seq(S)
      <4> DEFINE word == W[i]
      <4>1. word \in Seq(S)
        BY <1>4
      <4> HIDE DEF word
      <4>2. format(word) = KeptOf(word, {QT}, 1, Len(word))
        BY <4>1, FormatIs
      <4>3. 1 \in 1 .. Len(word) + 1 /\ Len(word) \in 0 .. Len(word)
        BY <4>1
      <4>4. format(word) \in Seq(S)
        BY <4>1, <4>2, <4>3, KeptSeq
      <4> QED BY <1>8, <4>4 DEF word
    <3>2. args \in Seq(Seq(S)) /\ Len(args) = N
      BY <1>4, <1>8, <3>1, IsSequence
    <3>3. \A i \in 1 .. Len(args) : args[i] # NULL
      BY <3>1, <3>2
    <3> QED BY <3>2, <3>3, UpToNullIs
  <2> QED BY <1>3, <2>4, <2>5
<1> QED BY <1>9, <1>10

-----------------------------------------------------------------------------
(***************************************************************************)
(* Part six.  What the shells make of a line is what its user reads.        *)
(***************************************************************************)

(* The words are strings.                                                   *)
LEMMA WordsAre ==
    ASSUME NEW S, NEW str \in Seq(S), NEW q, NEW n, n = Cardinality(StartsFrom(str, q, 1)),
           NEW starts, starts = InOrder(StartsFrom(str, q, 1))
    PROVE  /\ n \in Nat /\ DOMAIN starts = 1 .. n
           /\ Elements(WordsFrom(str, q, 1), n)
           /\ WordsFrom(str, q, 1) \in Seq(Seq(S)) /\ Len(WordsFrom(str, q, 1)) = n
           /\ \A i \in 1 .. n :
                  /\ starts[i] \in StartsFrom(str, q, 1)
                  /\ WordsFrom(str, q, 1)[i] = SubSeq(str, starts[i], EndFrom(str, q, 1, starts[i]))
<1> DEFINE W == WordsFrom(str, q, 1)
           A == StartsFrom(str, q, 1)
<1>1. 1 \in 1 .. Len(str) + 1
  OBVIOUS
<1>2. A \in SUBSET Nat /\ IsFiniteSet(A) /\ n \in Nat /\ \A s \in A : s \in 1 .. Len(str)
  BY <1>1, StartsType
<1>3. DOMAIN starts = 1 .. n /\ \A i \in 1 .. n : starts[i] \in A
  <2> HIDE DEF A
  <2> QED BY <1>2, OrderIs DEF A
<1>4. W = [i \in 1 .. n |-> SubSeq(str, starts[i], EndFrom(str, q, 1, starts[i]))]
  BY <1>3 DEF WordsFrom
<1>5. Elements(W, n)
  BY <1>4 DEF Elements
<1>6. \A i \in 1 .. n : W[i] = SubSeq(str, starts[i], EndFrom(str, q, 1, starts[i]))
  <2> HIDE DEF W
  <2> QED BY <1>4
<1>7. ASSUME NEW i \in 1 .. n PROVE W[i] \in Seq(S)
  <2> DEFINE s == starts[i]
             e == EndFrom(str, q, 1, s)
  <2>1. s \in A
    BY <1>3
  <2>2. s \in 1 .. Len(str)
    BY <1>2, <2>1
  <2> HIDE DEF s
  <2>3. e \in s .. Len(str)
    BY <1>1, <2>1, EndIs
  <2> HIDE DEF e
  <2>4. SubSeq(str, s, e) \in Seq(S)
    BY <2>2, <2>3
  <2> HIDE DEF W
  <2> QED BY <1>6, <2>4 DEF s, e
<1>8. W \in Seq(Seq(S)) /\ Len(W) = n
  <2> HIDE DEF W
  <2> QED BY <1>2, <1>5, <1>7, IsSequence
<1> QED BY <1>2, <1>3, <1>5, <1>6, <1>8

(* The next character is kept, or not.                                      *)
KeptNext(str, q, n, e) ==
    /\ str[n] \in q => KeptOf(str, q, n, e) = KeptOf(str, q, n + 1, e)
    /\ str[n] \notin q => KeptOf(str, q, n, e) = <<str[n]>> \o KeptOf(str, q, n + 1, e)

(* That is KeptJoin.                                                        *)
LEMMA KeptNextIs ==
    ASSUME NEW str, NEW q, NEW n \in Nat, NEW e \in Nat, n <= e
    PROVE  KeptNext(str, q, n, e)
BY KeptJoin DEF KeptNext

(* What is kept of a word is kept of the line.                              *)
LEMMA KeptOfWord ==
    ASSUME NEW S, NEW str \in Seq(S), NEW q, NEW n \in 1 .. Len(str), NEW e \in n .. Len(str),
           NEW word, word = SubSeq(str, n, e)
    PROVE  KeptOf(word, q, 1, Len(word)) = KeptOf(str, q, n, e)
<1> DEFINE m == e - n + 1
           M == m + 1
           G == {j \in 1 .. M : KeptOf(word, q, j, m) = KeptOf(str, q, n + j - 1, e)}
<1>1. /\ n \in Nat /\ e \in Nat /\ n <= e /\ m \in Nat /\ M \in Nat /\ 1 \in 1 .. M
      /\ n + 1 - 1 = n /\ n \in Int /\ e \in Int
  OBVIOUS
<1>2. Len(word) = m /\ \A j \in 1 .. m : word[j] = str[n + j - 1]
  <2>1. \A i \in n .. e : str[i] \in S
    OBVIOUS
  <2>2. /\ Len(word) = IF n <= e THEN e - n + 1 ELSE 0
        /\ \A j \in 1 .. e - n + 1 : word[j] = str[n + j - 1]
    BY <2>1, SubSeqProperties
  <2> QED BY <1>1, <2>2
<1>3. ASSUME NEW j \in 1 .. M, \A b \in j + 1 .. M : b \in G
      PROVE  j \in G
  <2>1. CASE j = M
    <3>1. j \in Nat /\ j > m /\ n + j - 1 \in Nat /\ n + j - 1 > e
      BY <1>1, <2>1
    <3> HIDE DEF m
    <3>2. KeptOf(word, q, j, m) = <<>>
      BY <1>1, <3>1, KeptNone
    <3> DEFINE k == n + j - 1
    <3>3. k \in Nat /\ k > e
      BY <3>1
    <3> HIDE DEF k
    <3>4. KeptOf(str, q, k, e) = <<>>
      BY <1>1, <3>3, KeptNone
    <3> QED BY <3>2, <3>4 DEF k
  <2>2. CASE j # M
    <3> DEFINE k == n + j - 1
    <3>1. /\ j \in 1 .. m /\ j \in Nat /\ j <= m /\ j + 1 \in j + 1 .. M
          /\ k \in Nat /\ k <= e /\ n + (j + 1) - 1 = k + 1
      BY <1>1, <2>2
    <3>2. KeptOf(word, q, j + 1, m) = KeptOf(str, q, k + 1, e)
      <4>1. KeptOf(word, q, j + 1, m) = KeptOf(str, q, n + (j + 1) - 1, e)
        BY <1>3, <3>1
      <4> HIDE DEF k
      <4> QED BY <3>1, <4>1
    <3>3. word[j] = str[k]
      BY <1>2, <3>1
    <3> HIDE DEF m, k
    <3>4. KeptNext(word, q, j, m)
      BY <1>1, <3>1, KeptNextIs
    <3>5. KeptNext(str, q, k, e)
      BY <1>1, <3>1, KeptNextIs
    <3>6. KeptOf(word, q, j, m) = KeptOf(str, q, k, e)
      BY <3>2, <3>3, <3>4, <3>5 DEF KeptNext
    <3> QED BY <3>6 DEF k
  <2> QED BY <2>1, <2>2
<1>4. \A j \in 1 .. M : j \in G
  <2> HIDE DEF M, G
  <2> QED BY <1>1, <1>3, Downward
<1>5. KeptOf(word, q, 1, m) = KeptOf(str, q, n + 1 - 1, e)
  BY <1>1, <1>4
<1> HIDE DEF m
<1> QED BY <1>1, <1>2, <1>5

-----------------------------------------------------------------------------
(* The words of a line as their user reads them, with the shell as a        *)
(* parameter.                                                               *)
QuotesOf(s) == IF s = "pierresh" THEN {QT} ELSE {}

ArgumentsOf(str, q) ==
    [i \in 1 .. Cardinality(StartsFrom(str, q, 1)) |->
        KeptOf(str, q, InOrder(StartsFrom(str, q, 1))[i],
               EndFrom(str, q, 1, InOrder(StartsFrom(str, q, 1))[i]))]

ReadAs(s, str) ==
    IF s = "pierresh" THEN interpret(ArgumentsOf(str, QuotesOf(s)))
    ELSE ArgumentsOf(str, QuotesOf(s))

(* Each is a word without its quotes.                                       *)
LEMMA ArgumentsAre ==
    ASSUME NEW S, NEW str \in Seq(S), NEW q
    PROVE  /\ Elements(ArgumentsOf(str, q), Len(WordsFrom(str, q, 1)))
           /\ \A i \in 1 .. Len(WordsFrom(str, q, 1)) :
                  ArgumentsOf(str, q)[i] =
                      KeptOf(WordsFrom(str, q, 1)[i], q, 1, Len(WordsFrom(str, q, 1)[i]))
<1> DEFINE W == WordsFrom(str, q, 1)
           A == StartsFrom(str, q, 1)
           n == Cardinality(A)
           starts == InOrder(A)
           args == ArgumentsOf(str, q)
<1>1. Len(W) = n /\ \A i \in 1 .. n : /\ starts[i] \in A
                                       /\ W[i] = SubSeq(str, starts[i], EndFrom(str, q, 1, starts[i]))
  BY WordsAre
<1>2. args = [i \in 1 .. n |-> KeptOf(str, q, starts[i], EndFrom(str, q, 1, starts[i]))]
  BY DEF ArgumentsOf
<1> HIDE DEF W, args
<1>3. ASSUME NEW i \in 1 .. n PROVE args[i] = KeptOf(W[i], q, 1, Len(W[i]))
  <2> DEFINE s == starts[i]
             e == EndFrom(str, q, 1, s)
             word == W[i]
  <2>1. s \in A /\ 1 \in 1 .. Len(str) + 1
    BY <1>1
  <2>2. s \in 1 .. Len(str)
    BY <2>1, StartsType
  <2>3. args[i] = KeptOf(str, q, s, e) /\ word = SubSeq(str, s, e)
    BY <1>1, <1>2
  <2> HIDE DEF s, word
  <2>4. e \in s .. Len(str)
    BY <2>1, EndIs
  <2> HIDE DEF e, n
  <2>5. KeptOf(word, q, 1, Len(word)) = KeptOf(str, q, s, e)
    BY <2>2, <2>3, <2>4, KeptOfWord
  <2> QED BY <2>3, <2>5 DEF word
<1>4. Elements(args, n)
  BY <1>2 DEF Elements
<1> QED BY <1>1, <1>3, <1>4 DEF W, args

(* A shell gives its programs just these.                                   *)
LEMMA WordsOf ==
    ASSUME NEW S, NULL \notin Seq(S), BSL \notin S, NEW str \in Seq(S), QT # SP, QT # BSL,
           shell \in {"stsh", "pierresh"}
    PROVE  Words(str) = ReadAs(shell, str)
<1>1. CASE shell = "stsh"
  <2> DEFINE W == WordsFrom(str, {}, 1)
             N == Len(W)
             args == ArgumentsOf(str, {})
  <2>1. Words(str) = W
    <3>1. Words(str) = stsh(str)
      BY <1>1 DEF Words
    <3> QED BY <3>1, StshWords
  <2>2. ReadAs(shell, str) = args
    BY <1>1 DEF ReadAs, QuotesOf
  <2>3. N \in Nat /\ Elements(W, N) /\ \A i \in 1 .. N : W[i] \in Seq(S)
    BY WordsAre
  <2>4. Elements(args, N) /\ \A i \in 1 .. N : args[i] = KeptOf(W[i], {}, 1, Len(W[i]))
    BY ArgumentsAre
  <2> HIDE DEF W, args, N
  <2>5. ASSUME NEW i \in 1 .. N PROVE args[i] = W[i]
    <3> DEFINE word == W[i]
    <3>1. word \in Seq(S) /\ args[i] = KeptOf(word, {}, 1, Len(word))
      BY <2>3, <2>4
    <3> HIDE DEF word
    <3>2. 1 \in 1 .. Len(word) + 1 /\ Len(word) \in 1 - 1 .. Len(word)
      BY <3>1
    <3>3. KeptOf(word, {}, 1, Len(word)) = SubSeq(word, 1, Len(word))
      BY <3>1, <3>2, KeptAll
    <3>4. SubSeq(word, 1, Len(word)) = word
      BY <3>1
    <3> QED BY <3>1, <3>3, <3>4 DEF word
  <2>6. args = W
    <3>1. args = [i \in 1 .. N |-> args[i]] /\ W = [i \in 1 .. N |-> W[i]]
      BY <2>3, <2>4 DEF Elements
    <3> QED BY <2>5, <3>1
  <2> QED BY <2>1, <2>2, <2>6
<1>2. CASE shell = "pierresh"
  <2> DEFINE q == {QT}
             W == WordsFrom(str, q, 1)
             N == Len(W)
             args == ArgumentsOf(str, q)
  <2>1. Words(str) = pierresh(str)
    BY <1>2 DEF Words
  <2>2. ReadAs(shell, str) = interpret(args)
    BY <1>2 DEF ReadAs, QuotesOf
  <2>3. W \in Seq(Seq(S))
    BY WordsAre
  <2>4. Elements(args, N) /\ \A i \in 1 .. N : args[i] = KeptOf(W[i], q, 1, Len(W[i]))
    BY ArgumentsAre
  <2>5. ASSUME NEW i \in 1 .. N PROVE args[i] = format(W[i])
    <3> DEFINE word == W[i]
    <3>1. N \in Nat /\ \A j \in 1 .. N : W[j] \in Seq(S)
      <4> HIDE DEF W
      <4> QED BY <2>3
    <3> HIDE DEF W, args, N
    <3>2. word \in Seq(S)
      BY <3>1
    <3>3. args[i] = KeptOf(word, q, 1, Len(word))
      BY <2>4
    <3> HIDE DEF word
    <3>4. format(word) = KeptOf(word, q, 1, Len(word))
      BY <3>2, FormatIs
    <3> QED BY <3>3, <3>4 DEF word
  <2>6. pierresh(str) = interpret(args)
    <3> HIDE DEF args
    <3> QED BY <2>3, <2>4, <2>5, PierreshWords
  <2> QED BY <2>1, <2>2, <2>6
<1> QED BY <1>1, <1>2

(* And so does the reading of a line.                                       *)
LEMMA ReadIs ==
    ASSUME NEW S, NEW str \in Seq(S), shell \in {"stsh", "pierresh"}
    PROVE  Read(str) = ReadAs(shell, str)
<1> DEFINE q == QuotesOf(shell)
           A == StartsFrom(str, q, 1)
           n == Cardinality(A)
           starts == InOrder(A)
           args == ArgumentsOf(str, q)
           words == [i \in DOMAIN starts |-> WordAt(str, starts[i])]
<1>1. \A k : Separates(str, k) <=> Sep(str, q, 1, k)
  <2>1. CASE shell = "pierresh"
    <3>1. q = {QT}
      BY <2>1 DEF QuotesOf
    <3>2. ASSUME NEW k PROVE Turned(str, q, 1, k) = Cardinality({j \in 1 .. k : str[j] = QT})
      <4>1. {j \in 1 .. k : str[j] \in {QT}} = {j \in 1 .. k : str[j] = QT}
        OBVIOUS
      <4> QED BY <3>1, <4>1 DEF Turned
    <3> HIDE DEF q
    <3> QED BY <2>1, <3>2 DEF Separates, Sep
  <2>2. CASE shell # "pierresh"
    <3>1. q = {}
      BY <2>2 DEF QuotesOf
    <3>2. ASSUME NEW k PROVE Turned(str, q, 1, k) % 2 = 0
      <4>1. {j \in 1 .. k : str[j] \in {}} = {}
        OBVIOUS
      <4>2. Turned(str, q, 1, k) = 0
        BY <3>1, <4>1, FS_EmptySet DEF Turned
      <4> QED BY <4>2
    <3> HIDE DEF q
    <3> QED BY <2>2, <3>2 DEF Separates, Sep
  <2> QED BY <2>1, <2>2
<1>2. Starts(str) = A
  <2>1. DOMAIN str = 1 .. Len(str)
    OBVIOUS
  <2> HIDE DEF q
  <2> QED BY <1>1, <2>1 DEF Starts, StartsFrom
<1>3. \A s : WordEnd(str, s) = EndFrom(str, q, 1, s)
  <2> HIDE DEF q
  <2>1. \A s : \A e \in s .. Len(str) :
            IsEnd(str, q, 1, s, e) <=> /\ \A k \in s .. e : ~Separates(str, k)
                                       /\ e = Len(str) \/ Separates(str, e + 1)
    BY <1>1 DEF IsEnd
  <2> QED BY <2>1 DEF WordEnd, EndFrom
<1>4. \A s : WordAt(str, s) = KeptOf(str, q, s, EndFrom(str, q, 1, s))
  <2>1. ASSUME NEW s, NEW e PROVE {k \in s .. e : shell = "pierresh" => str[k] # QT} = KeptPlaces(str, q, s, e)
    <3>1. \A k : (shell = "pierresh" => str[k] # QT) <=> str[k] \notin q
      BY DEF QuotesOf
    <3> HIDE DEF q
    <3> QED BY <3>1 DEF KeptPlaces
  <2> HIDE DEF q
  <2> QED BY <1>3, <2>1 DEF WordAt, KeptOf
<1>5. n \in Nat /\ DOMAIN starts = 1 .. n
  <2> HIDE DEF q
  <2> QED BY WordsAre
<1>6. args = [i \in 1 .. n |-> KeptOf(str, q, starts[i], EndFrom(str, q, 1, starts[i]))]
  <2> HIDE DEF q
  <2> QED BY DEF ArgumentsOf
<1>7. words = args
  <2> HIDE DEF q, starts, n, args
  <2> QED BY <1>4, <1>5, <1>6
<1>8. Read(str) = IF shell = "pierresh" THEN interpret(words) ELSE words
  <2> HIDE DEF q
  <2> QED BY <1>2 DEF Read
<1>9. ReadAs(shell, str) = IF shell = "pierresh" THEN interpret(args) ELSE args
  BY DEF ReadAs
<1> HIDE DEF words, args
<1> QED BY <1>7, <1>8, <1>9

(* What can be typed holds no backslash, and is no null pointer.            *)
LEMMA LettersAre == BSL \notin Letters /\ NULL \notin Seq(Letters) /\ QT # SP /\ QT # BSL
<1>1. Letters \subseteq Glyphs \ {BSL} /\ QT \notin {SP, BSL} /\ NULL \notin Seq(Glyphs)
  BY ConsoleAssumption
<1>2. Seq(Letters) \subseteq Seq(Glyphs)
  BY <1>1
<1> QED BY <1>1, <1>2

(* For every line that can be typed, the words a shell makes of it are the  *)
(* words its user reads, quotes, tokens and lists in between (stsh.c,       *)
(* pierresh.c, string.c, list.c).                                           *)
THEOREM WordsAreRead ==
    ASSUME NEW str \in Seq(Letters), shell \in {"stsh", "pierresh"}
    PROVE  Words(str) = Read(str)
<1>1. Words(str) = ReadAs(shell, str)
  BY LettersAre, WordsOf
<1>2. Read(str) = ReadAs(shell, str)
  BY ReadIs
<1> QED BY <1>1, <1>2
=============================================================================
