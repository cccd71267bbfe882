--------------------------- MODULE KeyboardProofs ---------------------------
(***************************************************************************)
(* Proofs about the keyboard driver's interrupt handler: what it types is   *)
(* what was struck, and between keys it is in step with the keyboard,       *)
(* however many keys are pressed and however many bytes wait.               *)
(*                                                                         *)
(* The unread bytes always are the rest of one key's code and whole codes   *)
(* behind it.  The invariant says so by the handler's own future: there is  *)
(* a run of its memory along the unread bytes at whose end it is at rest.   *)
(***************************************************************************)
EXTENDS Keyboard, SequenceTheorems, TLAPS

(* What the handler remembers between bytes, and how many characters it has *)
(* written.                                                                 *)
Memory(m) ==
    /\ m.e0 \in 0 .. 1 /\ m.e1 \in 0 .. 2
    /\ m.prev \in Nat /\ m.prev < 256 * 256
    /\ m.flags \subseteq 0 .. 119 /\ m.n \in Nat
    /\ m.e1 = 2 => m.prev <= 255

Present == [e0 |-> e0_code, e1 |-> e1_code, prev |-> e1_prev, flags |-> key_flags,
            n |-> Len(out)]

(* The handler from memory m with the byte b.                               *)
Breaks(m, b) == b >= 128 /\ (m.e1 # 0 \/ b # E1) /\ (m.e0 # 0 \/ b # E0)

Code(m, b) == IF Breaks(m, b) THEN b % 128 ELSE b

Fake(m, b) == m.e0 = 1 /\ Code(m, b) \in {42, 54}

KeycodeOf(m, c) ==
    IF m.e0 = 1 THEN translate_scancode(1, c)
    ELSE IF m.e1 = 2 THEN translate_scancode(2, m.prev + c * 256)
    ELSE IF m.e1 = 1 \/ c \in {E0, E1} THEN 0 ELSE translate_scancode(0, c)

Keycode(m, b) == KeycodeOf(m, Code(m, b))

Flags(m, b) ==
    IF Fake(m, b) THEN m.flags
    ELSE IF Breaks(m, b) THEN m.flags \ {Keycode(m, b)} ELSE m.flags \cup {Keycode(m, b)}

Typed(m, b) ==
    IF Fake(m, b) \/ Breaks(m, b) THEN <<>> ELSE getcharfromkc(Flags(m, b), Keycode(m, b))

NextE0(m, b) == IF m.e0 = 0 /\ m.e1 = 0 /\ Code(m, b) = E0 THEN 1 ELSE 0

NextOfE1(m, b) ==
    IF m.e0 = 1 THEN m.e1
    ELSE IF m.e1 = 0 THEN (IF Code(m, b) = E1 THEN 1 ELSE 0)
    ELSE IF m.e1 = 1 THEN 2 ELSE 0

NextPrev(m, b) ==
    IF m.e0 = 1 \/ m.e1 = 0 THEN m.prev
    ELSE IF m.e1 = 1 THEN Code(m, b) ELSE m.prev + Code(m, b) * 256

After(m, b) == [e0 |-> NextE0(m, b), e1 |-> NextOfE1(m, b), prev |-> NextPrev(m, b),
                flags |-> Flags(m, b), n |-> m.n + Len(Typed(m, b))]

Byte == 0 .. 255

Char == [keycode : Printing \cup {1}, index : 0 .. 1]

-----------------------------------------------------------------------------
(* The tables have no keycode above 119.                                    *)
LEMMA KeycodeRange ==
    ASSUME NEW c \in Nat, NEW set \in 0 .. 2
    PROVE  translate_scancode(set, c) \in 0 .. 119
<1>1. ASSUME c \in DOMAIN Extended PROVE Extended[c] \in 0 .. 119
  <2>1. c \in {28, 29, 53, 56, 71, 72, 73, 75, 77, 79, 80, 81, 82, 83}
    BY <1>1 DEF Extended
  <2>2. (75 - 75) \div 2 = 0 /\ (77 - 75) \div 2 = 1
    OBVIOUS
  <2> QED BY <2>1, <2>2 DEF Extended
<1> QED BY <1>1 DEF translate_scancode

(* The code left of a byte is a byte.                                       *)
LEMMA CodeRange ==
    ASSUME NEW m, NEW b \in Byte
    PROVE  Code(m, b) \in 0 .. 255
<1>1. b % 128 \in 0 .. 127
  BY DEF Byte
<1> QED BY <1>1 DEF Code, Byte

(* Two bytes make a number of 16 bits.                                      *)
LEMMA WordRange ==
    ASSUME NEW low \in 0 .. 255, NEW high \in 0 .. 255
    PROVE  low + high * 256 \in Nat /\ low + high * 256 < 256 * 256
<1>1. low + high * 256 \in Nat
  OBVIOUS
<1>2. low + high * 256 < 256 * 256
  OBVIOUS
<1> QED BY <1>1, <1>2

(* One byte leads from one memory to another and types at most one          *)
(* character, which its tables have.                                        *)
LEMMA TypedType ==
    ASSUME NEW m, NEW b
    PROVE  /\ Typed(m, b) = <<>> \/ \E c \in Char : Typed(m, b) = <<c>>
           /\ Typed(m, b) \in Seq(Char)
           /\ Len(Typed(m, b)) \in 0 .. 1
<1> DEFINE flags == Flags(m, b)
           keycode == Keycode(m, b)
           c == [keycode |-> keycode, index |-> index(flags)]
<1>1. index(flags) \in 0 .. 1
  BY DEF index
<1>2. CASE keycode \in Printing \cup {1}
  <2>1. c \in Char
    BY <1>1, <1>2 DEF Char
  <2>2. Typed(m, b) = <<>> \/ Typed(m, b) = <<c>>
    BY DEF Typed, getcharfromkc
  <2>3. /\ <<>> \in Seq(Char) /\ Len(<<>>) \in 0 .. 1
        /\ \A d \in Char : <<d>> \in Seq(Char) /\ Len(<<d>>) \in 0 .. 1
    OBVIOUS
  <2> HIDE DEF c
  <2> QED BY <2>1, <2>2, <2>3
<1>3. CASE keycode \notin Printing \cup {1}
  <2>1. Typed(m, b) = <<>>
    BY <1>3 DEF Typed, getcharfromkc
  <2> QED BY <2>1
<1> QED BY <1>2, <1>3

(* The static variables of the handler keep their ranges.                   *)
LEMMA AfterType ==
    ASSUME NEW m, Memory(m), NEW b \in Byte
    PROVE  Memory(After(m, b))
<1>1. Code(m, b) \in 0 .. 255
  BY CodeRange
<1>2. Keycode(m, b) \in 0 .. 119
  <2>1. m.prev + Code(m, b) * 256 \in Nat
    <3>1. m.prev \in Nat
      BY DEF Memory
    <3> QED BY <1>1, <3>1
  <2>2. /\ translate_scancode(1, Code(m, b)) \in 0 .. 119
        /\ translate_scancode(0, Code(m, b)) \in 0 .. 119
    <3>1. Code(m, b) \in Nat
      BY <1>1
    <3> QED BY <3>1, KeycodeRange
  <2>3. translate_scancode(2, m.prev + Code(m, b) * 256) \in 0 .. 119
    BY <2>1, KeycodeRange
  <2> QED BY <2>2, <2>3 DEF Keycode, KeycodeOf
<1>3. Flags(m, b) \subseteq 0 .. 119
  BY <1>2 DEF Flags, Memory
<1>4. NextE0(m, b) \in 0 .. 1 /\ NextOfE1(m, b) \in 0 .. 2
  BY DEF NextE0, NextOfE1, Memory
<1>5. /\ NextPrev(m, b) \in Nat /\ NextPrev(m, b) < 256 * 256
      /\ NextOfE1(m, b) = 2 => NextPrev(m, b) <= 255
  <2>1. CASE m.e0 = 1 \/ m.e1 = 0
    BY <2>1 DEF NextPrev, NextOfE1, Memory
  <2>2. CASE m.e0 = 0 /\ m.e1 = 1
    BY <1>1, <2>2 DEF NextPrev
  <2>3. CASE m.e0 = 0 /\ m.e1 = 2
    <3>1. m.prev \in 0 .. 255
      BY <2>3 DEF Memory
    <3>2. m.prev + Code(m, b) * 256 \in Nat /\ m.prev + Code(m, b) * 256 < 256 * 256
      BY <1>1, <3>1, WordRange
    <3>3. NextOfE1(m, b) = 0
      BY <2>3 DEF NextOfE1
    <3>4. NextPrev(m, b) = m.prev + Code(m, b) * 256
      BY <2>3 DEF NextPrev
    <3> QED BY <3>2, <3>3, <3>4
  <2> QED BY <2>1, <2>2, <2>3 DEF Memory
<1>6. m.n + Len(Typed(m, b)) \in Nat
  BY TypedType DEF Memory
<1> QED BY <1>3, <1>4, <1>5, <1>6 DEF After, Memory

(* The handler does what After and Typed say.                               *)
LEMMA HandlerStep ==
    ASSUME TypeOK, Memory(Present), irq_handler
    PROVE  /\ Head(wire) \in Byte
           /\ Present' = After(Present, Head(wire))
           /\ out' = out \o Typed(Present, Head(wire))
           /\ wire' = Tail(wire) /\ UNCHANGED <<held, struck>>
<1> DEFINE b == Head(wire)
           m == Present
           code == IF IsBreak(b) THEN b % 128 ELSE b
<1>1. /\ wire # <<>> /\ wire' = Tail(wire) /\ UNCHANGED <<held, struck>>
  BY DEF irq_handler
<1>2. b \in Byte
  <2>1. wire \in Seq(Byte)
    BY DEF TypeOK, Byte
  <2> QED BY <1>1, <2>1
<1>3. /\ m.e0 = e0_code /\ m.e1 = e1_code /\ m.prev = e1_prev /\ m.flags = key_flags
      /\ m.n = Len(out)
  BY DEF Present
<1>4. e0_code \in 0 .. 1 /\ e1_code \in 0 .. 2
  BY DEF TypeOK
<1>5. (IsBreak(b) <=> Breaks(m, b)) /\ code = Code(m, b)
  <2> HIDE DEF b, m
  <2>1. IsBreak(b) <=> Breaks(m, b)
    BY <1>3 DEF IsBreak, Breaks
  <2> QED BY <2>1 DEF Code
<1>6. out \in Seq(Char)
  BY DEF TypeOK, Char
<1>7. \/ /\ e0_code = 1 /\ code \in {42, 54} /\ e0_code' = 0
         /\ UNCHANGED <<e1_code, e1_prev, key_flags, out>>
      \/ /\ e0_code = 1 /\ code \notin {42, 54} /\ e0_code' = 0
         /\ Strike(translate_scancode(1, code), IsBreak(b))
         /\ UNCHANGED <<e1_code, e1_prev>>
      \/ /\ e0_code = 0 /\ e1_code = 2 /\ e1_code' = 0
         /\ e1_prev' = e1_prev + code * 256
         /\ Strike(translate_scancode(2, e1_prev + code * 256), IsBreak(b))
         /\ UNCHANGED e0_code
      \/ /\ e0_code = 0 /\ e1_code = 1 /\ e1_prev' = code /\ e1_code' = 2
         /\ Strike(0, IsBreak(b))
         /\ UNCHANGED e0_code
      \/ /\ e0_code = 0 /\ e1_code = 0
         /\ e0_code' = (IF code = E0 THEN 1 ELSE 0)
         /\ e1_code' = (IF code = E1 THEN 1 ELSE 0)
         /\ Strike(IF code \in {E0, E1} THEN 0 ELSE translate_scancode(0, code), IsBreak(b))
         /\ UNCHANGED e1_prev
  <2>1. \A kc, kd : kc = kd => (Strike(kc, IsBreak(b)) <=> Strike(kd, IsBreak(b)))
    OBVIOUS
  <2> QED BY <2>1 DEF irq_handler, NextE1
<1>8. Typed(m, b) \in Seq(Char) /\ Len(Typed(m, b)) \in Nat
  BY TypedType
<1>9. Present' = [e0 |-> e0_code', e1 |-> e1_code', prev |-> e1_prev',
                  flags |-> key_flags', n |-> Len(out')]
  BY DEF Present
<1> HIDE DEF b, m, code
<1>10. Len(out \o Typed(m, b)) = m.n + Len(Typed(m, b)) /\ out \o <<>> = out
  BY <1>3, <1>6, <1>8
<1>11. CASE e0_code = 1 /\ code \in {42, 54}
  <2>1. Fake(m, b)
    BY <1>3, <1>5, <1>11 DEF Fake
  <2>2. Typed(m, b) = <<>> /\ Flags(m, b) = key_flags
    BY <1>3, <2>1 DEF Typed, Flags
  <2>3. e0_code' = 0 /\ UNCHANGED <<e1_code, e1_prev, key_flags, out>>
    BY <1>7, <1>11
  <2>4. NextE0(m, b) = 0 /\ NextOfE1(m, b) = e1_code /\ NextPrev(m, b) = e1_prev
    BY <1>3, <1>11 DEF NextE0, NextOfE1, NextPrev
  <2>5. out' = out \o Typed(m, b) /\ Len(out') = m.n + Len(Typed(m, b))
    BY <1>10, <2>2, <2>3
  <2>6. Present' = After(m, b)
    BY <1>9, <2>2, <2>3, <2>4, <2>5 DEF After
  <2> QED BY <1>1, <1>2, <2>5, <2>6 DEF b, m
<1>12. CASE ~(e0_code = 1 /\ code \in {42, 54})
  <2>1. ~Fake(m, b)
    BY <1>3, <1>5, <1>12 DEF Fake
  <2>2. Strike(Keycode(m, b), IsBreak(b))
    BY <1>3, <1>4, <1>5, <1>7, <1>12 DEF Keycode, KeycodeOf
  <2>3. /\ NextE0(m, b) = e0_code' /\ NextOfE1(m, b) = e1_code'
        /\ NextPrev(m, b) = e1_prev'
    BY <1>3, <1>4, <1>5, <1>7, <1>12 DEF E0, E1, NextE0, NextOfE1, NextPrev
  <2>4. key_flags' = Flags(m, b)
    BY <1>3, <1>5, <2>1, <2>2 DEF Strike, Flags
  <2>5. out' = out \o Typed(m, b)
    <3>1. CASE Breaks(m, b)
      BY <1>5, <1>10, <2>2, <3>1 DEF Strike, Typed
    <3>2. CASE ~Breaks(m, b)
      BY <1>3, <1>5, <2>1, <2>2, <3>2 DEF Strike, Typed, Flags
    <3> QED BY <3>1, <3>2
  <2>6. Present' = After(m, b)
    BY <1>9, <1>10, <2>3, <2>4, <2>5 DEF After
  <2> QED BY <1>1, <1>2, <2>5, <2>6 DEF b, m
<1> QED BY <1>11, <1>12

-----------------------------------------------------------------------------
(***************************************************************************)
(* Bytes lead from one memory to another, and what is typed on the way is   *)
(* the text, from where the handler is in it.                               *)
(***************************************************************************)
Spells(m, b, text) ==
    \/ Typed(m, b) = <<>>
    \/ m.n + 1 \in 1 .. Len(text) /\ Typed(m, b) = <<text[m.n + 1]>>

IsRun(run, bytes, text) ==
    /\ \A i \in 1 .. Len(bytes) + 1 : Memory(run[i])
    /\ \A i \in 1 .. Len(bytes) :
           run[i + 1] = After(run[i], bytes[i]) /\ Spells(run[i], bytes[i], text)

Leads(bytes, text, from, to) ==
    \E run : IsRun(run, bytes, text) /\ run[1] = from /\ run[Len(bytes) + 1] = to

(* No bytes leave the handler where it is.                                  *)
LEMMA NoBytes ==
    ASSUME NEW text, NEW m, Memory(m)
    PROVE  Leads(<<>>, text, m, m)
<1>1. IsRun([i \in {1} |-> m], <<>>, text)
  BY DEF IsRun
<1> QED BY <1>1 DEF Leads

(* Sequences of one, two and three bytes that the handler reads step by     *)
(* step.                                                                    *)
LEMMA OneByte ==
    ASSUME NEW text, NEW m, Memory(m), NEW b \in Byte, Spells(m, b, text)
    PROVE  Leads(<<b>>, text, m, After(m, b))
<1> DEFINE run == [i \in 1 .. 2 |-> IF i = 1 THEN m ELSE After(m, b)]
<1>1. Memory(After(m, b))
  BY AfterType
<1>2. run[1] = m /\ run[2] = After(m, b) /\ Len(<<b>>) = 1 /\ <<b>>[1] = b
  OBVIOUS
<1> HIDE DEF run
<1>3. IsRun(run, <<b>>, text)
  BY <1>1, <1>2 DEF IsRun
<1> QED BY <1>2, <1>3 DEF Leads

(* The same for two bytes.                                                  *)
LEMMA TwoBytes ==
    ASSUME NEW text, NEW m, Memory(m), NEW a \in Byte, Spells(m, a, text),
           NEW b \in Byte, Spells(After(m, a), b, text)
    PROVE  Leads(<<a, b>>, text, m, After(After(m, a), b))
<1> DEFINE v == After(m, a)
           w == After(v, b)
           run == [i \in 1 .. 3 |-> IF i = 1 THEN m ELSE IF i = 2 THEN v ELSE w]
<1>1. Memory(v)
  BY AfterType
<1>2. Memory(w)
  BY <1>1, AfterType
<1>3. /\ run[1] = m /\ run[2] = v /\ run[3] = w
      /\ Len(<<a, b>>) = 2 /\ <<a, b>>[1] = a /\ <<a, b>>[2] = b
  OBVIOUS
<1>4. v = After(m, a) /\ w = After(v, b) /\ Spells(v, b, text)
  OBVIOUS
<1> HIDE DEF run, v, w
<1>5. IsRun(run, <<a, b>>, text)
  BY <1>1, <1>2, <1>3, <1>4 DEF IsRun
<1> QED BY <1>3, <1>4, <1>5 DEF Leads

(* The same for three bytes.                                                *)
LEMMA ThreeBytes ==
    ASSUME NEW text, NEW m, Memory(m), NEW a \in Byte, Spells(m, a, text),
           NEW b \in Byte, Spells(After(m, a), b, text),
           NEW c \in Byte, Spells(After(After(m, a), b), c, text)
    PROVE  Leads(<<a, b, c>>, text, m, After(After(After(m, a), b), c))
<1> DEFINE u == After(m, a)
           v == After(u, b)
           w == After(v, c)
           run == [i \in 1 .. 4 |-> IF i = 1 THEN m ELSE IF i = 2 THEN u
                                    ELSE IF i = 3 THEN v ELSE w]
<1>1. Memory(u)
  BY AfterType
<1>2. Memory(v)
  BY <1>1, AfterType
<1>3. Memory(w)
  BY <1>2, AfterType
<1>4. /\ run[1] = m /\ run[2] = u /\ run[3] = v /\ run[4] = w
      /\ Len(<<a, b, c>>) = 3
      /\ <<a, b, c>>[1] = a /\ <<a, b, c>>[2] = b /\ <<a, b, c>>[3] = c
  OBVIOUS
<1>5. /\ u = After(m, a) /\ v = After(u, b) /\ w = After(v, c)
      /\ Spells(u, b, text) /\ Spells(v, c, text)
  OBVIOUS
<1> HIDE DEF run, u, v, w
<1>6. IsRun(run, <<a, b, c>>, text)
  BY <1>1, <1>2, <1>3, <1>4, <1>5 DEF IsRun
<1> QED BY <1>4, <1>5, <1>6 DEF Leads

(* Reading one sequence and then another is reading both.                   *)
LEMMA Compose ==
    ASSUME NEW text, NEW a \in Seq(Byte), NEW b \in Seq(Byte), NEW m1, NEW m2, NEW m3,
           Leads(a, text, m1, m2), Leads(b, text, m2, m3)
    PROVE  Leads(a \o b, text, m1, m3)
<1>1. PICK f : IsRun(f, a, text) /\ f[1] = m1 /\ f[Len(a) + 1] = m2
  BY DEF Leads
<1>2. PICK g : IsRun(g, b, text) /\ g[1] = m2 /\ g[Len(b) + 1] = m3
  BY DEF Leads
<1> DEFINE la == Len(a)
           lb == Len(b)
           run == [i \in 1 .. la + lb + 1 |-> IF i <= la THEN f[i] ELSE g[i - la]]
<1>3. la \in Nat /\ lb \in Nat /\ Len(a \o b) = la + lb
  OBVIOUS
<1>4. /\ \A i \in 1 .. la : (a \o b)[i] = a[i]
      /\ \A i \in 1 .. lb : (a \o b)[i + la] = b[i]
  OBVIOUS
<1>5. /\ \A i \in 1 .. la + 1 : Memory(f[i])
      /\ \A i \in 1 .. la : f[i + 1] = After(f[i], a[i]) /\ Spells(f[i], a[i], text)
      /\ \A i \in 1 .. lb + 1 : Memory(g[i])
      /\ \A i \in 1 .. lb : g[i + 1] = After(g[i], b[i]) /\ Spells(g[i], b[i], text)
      /\ f[1] = m1 /\ f[la + 1] = m2 /\ g[1] = m2 /\ g[lb + 1] = m3
  BY <1>1, <1>2 DEF IsRun
<1> HIDE DEF la, lb
<1>6. /\ \A i \in 1 .. la : run[i] = f[i]
      /\ \A i \in 1 .. lb + 1 : run[la + i] = g[i]
  BY <1>3
<1>7. run[la + 1] = f[la + 1]
  BY <1>3, <1>5, <1>6
<1> HIDE DEF run
<1>8. ASSUME NEW i \in 1 .. la + lb + 1 PROVE Memory(run[i])
  <2>1. CASE i <= la
    BY <1>3, <1>5, <1>6, <2>1
  <2>2. CASE i > la
    <3>1. i - la \in 1 .. lb + 1 /\ la + (i - la) = i
      BY <1>3, <2>2
    <3>2. run[la + (i - la)] = g[i - la]
      BY <1>6, <3>1
    <3> QED BY <1>5, <3>1, <3>2
  <2> QED BY <1>3, <2>1, <2>2
<1>9. ASSUME NEW i \in 1 .. la + lb
      PROVE  /\ run[i + 1] = After(run[i], (a \o b)[i])
             /\ Spells(run[i], (a \o b)[i], text)
  <2>1. CASE i <= la
    <3>1. i \in 1 .. la
      BY <1>3, <2>1
    <3>2. run[i + 1] = f[i + 1]
      BY <1>3, <1>6, <1>7, <3>1
    <3> QED BY <1>4, <1>5, <1>6, <3>1, <3>2
  <2>2. CASE i > la
    <3>1. PICK j \in 1 .. lb : i = j + la
      <4>1. i - la \in 1 .. lb /\ i = (i - la) + la
        BY <1>3, <2>2
      <4> QED BY <4>1
    <3>2. run[i] = g[j] /\ run[i + 1] = g[j + 1]
      <4>1. i = la + j /\ i + 1 = la + (j + 1) /\ j \in 1 .. lb + 1 /\ j + 1 \in 1 .. lb + 1
        BY <1>3, <3>1
      <4> QED BY <1>6, <4>1
    <3>3. (a \o b)[i] = b[j]
      BY <1>4, <3>1 DEF la
    <3> QED BY <1>5, <3>2, <3>3
  <2> QED BY <1>3, <2>1, <2>2
<1>10. IsRun(run, a \o b, text)
  BY <1>3, <1>8, <1>9 DEF IsRun
<1>11. run[1] = m1 /\ run[la + lb + 1] = m3
  <2>1. run[1] = m1
    BY <1>3, <1>5, <1>6
  <2>2. la + lb + 1 = la + (lb + 1) /\ lb + 1 \in 1 .. lb + 1
    BY <1>3
  <2>3. run[la + (lb + 1)] = g[lb + 1]
    BY <1>6, <2>2
  <2> QED BY <1>5, <2>1, <2>2, <2>3
<1> QED BY <1>3, <1>10, <1>11 DEF Leads

(* The first byte is read.                                                  *)
LEMMA FirstByte ==
    ASSUME NEW text, NEW bytes \in Seq(Byte), bytes # <<>>, NEW m1, NEW m2,
           Leads(bytes, text, m1, m2)
    PROVE  /\ Memory(m1) /\ Spells(m1, Head(bytes), text)
           /\ Leads(Tail(bytes), text, After(m1, Head(bytes)), m2)
<1>1. PICK f : IsRun(f, bytes, text) /\ f[1] = m1 /\ f[Len(bytes) + 1] = m2
  BY DEF Leads
<1> DEFINE n == Len(bytes)
           run == [i \in 1 .. n |-> f[i + 1]]
<1>2. n \in Nat \ {0} /\ Len(Tail(bytes)) = n - 1 /\ Head(bytes) = bytes[1]
      /\ \A i \in 1 .. n - 1 : Tail(bytes)[i] = bytes[i + 1]
  OBVIOUS
<1>3. /\ \A i \in 1 .. n + 1 : Memory(f[i])
      /\ \A i \in 1 .. n : f[i + 1] = After(f[i], bytes[i]) /\ Spells(f[i], bytes[i], text)
      /\ f[1] = m1 /\ f[n + 1] = m2
  BY <1>1 DEF IsRun
<1> HIDE DEF n
<1>4. \A i \in 1 .. n : run[i] = f[i + 1]
  OBVIOUS
<1> HIDE DEF run
<1>5. \A i \in 1 .. n - 1 : /\ run[i + 1] = After(run[i], Tail(bytes)[i])
                            /\ Spells(run[i], Tail(bytes)[i], text)
  BY <1>2, <1>3, <1>4
<1>6. \A i \in 1 .. n : Memory(run[i])
  BY <1>2, <1>3, <1>4
<1>7. IsRun(run, Tail(bytes), text)
  <2>1. 1 .. Len(Tail(bytes)) + 1 = 1 .. n /\ 1 .. Len(Tail(bytes)) = 1 .. n - 1
    BY <1>2
  <2> QED BY <1>5, <1>6, <2>1 DEF IsRun
<1>8. run[1] = After(m1, Head(bytes)) /\ run[n - 1 + 1] = m2
  BY <1>2, <1>3, <1>4
<1> QED BY <1>2, <1>3, <1>7, <1>8 DEF Leads

(* A longer text is spelled as well.                                        *)
LEMMA LongerText ==
    ASSUME NEW text \in Seq(Char), NEW more \in Seq(Char), NEW bytes \in Seq(Byte),
           NEW m1, NEW m2, Leads(bytes, text, m1, m2)
    PROVE  Leads(bytes, text \o more, m1, m2)
<1>1. PICK f : IsRun(f, bytes, text) /\ f[1] = m1 /\ f[Len(bytes) + 1] = m2
  BY DEF Leads
<1>2. ASSUME NEW m, NEW b, Spells(m, b, text) PROVE Spells(m, b, text \o more)
  <2>1. CASE m.n + 1 \in 1 .. Len(text)
    <3>1. m.n + 1 \in 1 .. Len(text \o more) /\ (text \o more)[m.n + 1] = text[m.n + 1]
      BY <2>1
    <3> QED BY <1>2, <3>1 DEF Spells
  <2>2. CASE Typed(m, b) = <<>>
    BY <2>2 DEF Spells
  <2> QED BY <1>2, <2>1, <2>2 DEF Spells
<1>3. IsRun(f, bytes, text \o more)
  BY <1>1, <1>2 DEF IsRun
<1> QED BY <1>1, <1>3 DEF Leads

-----------------------------------------------------------------------------
(* Between keys the handler expects no more bytes.                          *)
Rest(m) == Memory(m) /\ m.e0 = 0 /\ m.e1 = 0

(* Two memories between keys that know of the same shift keys and the same  *)
(* characters.                                                              *)
Alike(m, w) == Rest(m) /\ Rest(w) /\ m.n = w.n /\ m.flags \cap {42, 54} = w.flags \cap {42, 54}

(* What the tables say of the codes of the keys in use.                     *)
LEMMA Tables ==
    /\ translate_scancode(0, 30) = 30 /\ translate_scancode(0, 42) = 42
    /\ translate_scancode(0, 54) = 54 /\ translate_scancode(1, 72) = 103
    /\ translate_scancode(2, 29 + 69 * 256) = 119
<1>1. Extended[72] = 103 /\ 72 \in DOMAIN Extended
  BY DEF Extended
<1>2. translate_scancode(1, 72) = 103
  BY <1>1 DEF translate_scancode
<1>3. translate_scancode(2, 29 + 69 * 256) = 119
  BY DEF translate_scancode
<1>4. /\ translate_scancode(0, 30) = 30 /\ translate_scancode(0, 42) = 42
      /\ translate_scancode(0, 54) = 54
  BY DEF translate_scancode
<1> QED BY <1>2, <1>3, <1>4

(* Keys that print nothing.                                                 *)
LEMMA Silent ==
    ASSUME NEW flags, NEW keycode \in {0, 42, 54, 103, 119}
    PROVE  getcharfromkc(flags, keycode) = <<>>
BY DEF getcharfromkc, Printing

(* A byte between keys that is no introduction of a longer code.            *)
GoesDown(m, k) ==
    /\ Rest(After(m, k)) /\ After(m, k).flags = m.flags \cup {k}
    /\ Typed(m, k) = getcharfromkc(m.flags \cup {k}, k)
    /\ After(m, k).n = m.n + Len(Typed(m, k))

GoesUp(m, k) ==
    /\ Rest(After(m, k + 128)) /\ After(m, k + 128).flags = m.flags \ {k}
    /\ Typed(m, k + 128) = <<>> /\ After(m, k + 128).n = m.n

(* A and the two shift keys have codes of one byte.                         *)
LEMMA PlainStep ==
    ASSUME NEW m, Rest(m), NEW k \in {30, 42, 54}
    PROVE  GoesDown(m, k) /\ GoesUp(m, k)
<1>1. m.e0 = 0 /\ m.e1 = 0 /\ Memory(m)
  BY DEF Rest
<1>2. k \in Byte /\ k + 128 \in Byte
  BY DEF Byte
<1>3. ~Breaks(m, k) /\ Breaks(m, k + 128)
  BY <1>1 DEF Breaks, E0, E1
<1>4. Code(m, k) = k /\ Code(m, k + 128) = k
  BY <1>3 DEF Code
<1>5. ~Fake(m, k) /\ ~Fake(m, k + 128)
  BY <1>1 DEF Fake
<1>6. Keycode(m, k) = k /\ Keycode(m, k + 128) = k
  BY <1>1, <1>4, Tables DEF Keycode, KeycodeOf, E0, E1
<1>7. /\ Flags(m, k) = m.flags \cup {k} /\ Flags(m, k + 128) = m.flags \ {k}
      /\ Typed(m, k) = getcharfromkc(m.flags \cup {k}, k) /\ Typed(m, k + 128) = <<>>
  BY <1>3, <1>5, <1>6 DEF Flags, Typed
<1>8. /\ NextE0(m, k) = 0 /\ NextOfE1(m, k) = 0
      /\ NextE0(m, k + 128) = 0 /\ NextOfE1(m, k + 128) = 0
  BY <1>1, <1>4 DEF NextE0, NextOfE1, E0, E1
<1>9. Memory(After(m, k)) /\ Memory(After(m, k + 128))
  BY <1>1, <1>2, AfterType
<1>10. m.n + 0 = m.n
  BY <1>1 DEF Memory
<1> QED BY <1>7, <1>8, <1>9, <1>10 DEF After, Rest, GoesDown, GoesUp

(* The codes behind E0: cursor up, and the fake shifts around it.           *)
LEMMA ExtendedCode ==
    ASSUME NEW text, NEW m, Rest(m), NEW b \in {42, 170, 72, 200}
    PROVE  \E w : Leads(<<E0, b>>, text, m, w) /\ Alike(m, w)
<1>1. m.e0 = 0 /\ m.e1 = 0 /\ Memory(m)
  BY DEF Rest
<1>2. E0 \in Byte /\ b \in Byte
  BY DEF Byte, E0
<1> DEFINE v == After(m, E0)
           w == After(v, b)
<1>3. v.e0 = 1 /\ v.e1 = 0 /\ v.flags = m.flags \cup {0} /\ v.n = m.n /\ Memory(v)
      /\ Typed(m, E0) = <<>>
  <2>1. ~Breaks(m, E0)
    BY <1>1 DEF Breaks
  <2>2. Code(m, E0) = E0 /\ ~Fake(m, E0)
    BY <1>1, <2>1 DEF Code, Fake
  <2>3. Keycode(m, E0) = 0
    BY <1>1, <2>2 DEF Keycode, KeycodeOf
  <2>4. Flags(m, E0) = m.flags \cup {0} /\ Typed(m, E0) = <<>>
    BY <2>1, <2>2, <2>3, Silent DEF Flags, Typed
  <2>5. NextE0(m, E0) = 1 /\ NextOfE1(m, E0) = 0
    BY <1>1, <2>2 DEF NextE0, NextOfE1, E0, E1
  <2>6. m.n + 0 = m.n
    BY <1>1 DEF Memory
  <2> QED BY <1>1, <1>2, <2>4, <2>5, <2>6, AfterType DEF After
<1> HIDE DEF v
<1>4. w.e0 = 0 /\ w.e1 = 0 /\ Memory(w) /\ w.n = m.n /\ Typed(v, b) = <<>>
      /\ w.flags \cap {42, 54} = m.flags \cap {42, 54}
  <2>1. Breaks(v, b) <=> b \in {170, 200}
    BY <1>3 DEF Breaks, E0, E1
  <2>2. Code(v, b) = IF b \in {42, 170} THEN 42 ELSE 72
    BY <2>1 DEF Code
  <2>3. Fake(v, b) <=> b \in {42, 170}
    BY <1>3, <2>2 DEF Fake
  <2>4. b \in {72, 200} => Keycode(v, b) = 103
    BY <1>3, <2>2, Tables DEF Keycode, KeycodeOf
  <2>5. Typed(v, b) = <<>>
    BY <2>3, <2>4, Silent DEF Typed
  <2>6. Flags(v, b) \cap {42, 54} = m.flags \cap {42, 54}
    BY <1>3, <2>3, <2>4 DEF Flags
  <2>7. NextE0(v, b) = 0 /\ NextOfE1(v, b) = 0
    BY <1>3 DEF NextE0, NextOfE1
  <2>8. v.n + 0 = m.n
    BY <1>1, <1>3 DEF Memory
  <2> QED BY <1>2, <1>3, <2>5, <2>6, <2>7, <2>8, AfterType DEF After
<1> HIDE DEF w
<1>5. Spells(m, E0, text) /\ Spells(v, b, text)
  BY <1>3, <1>4 DEF Spells
<1>6. Leads(<<E0, b>>, text, m, After(After(m, E0), b))
  BY <1>1, <1>2, <1>5, TwoBytes DEF v
<1>7. Alike(m, w)
  BY <1>1, <1>4 DEF Alike, Rest
<1> QED BY <1>6, <1>7 DEF v, w

(* The codes behind E1: one half of the code of the pause key.              *)
LEMMA PauseCode ==
    ASSUME NEW text, NEW m, Rest(m), NEW b \in {29, 157}, NEW c \in {69, 197},
           b = 29 <=> c = 69
    PROVE  \E w : Leads(<<E1, b, c>>, text, m, w) /\ Alike(m, w)
<1>1. m.e0 = 0 /\ m.e1 = 0 /\ Memory(m)
  BY DEF Rest
<1>2. E1 \in Byte /\ b \in Byte /\ c \in Byte
  BY DEF Byte, E1
<1> DEFINE u == After(m, E1)
           v == After(u, b)
           w == After(v, c)
<1>3. u.e0 = 0 /\ u.e1 = 1 /\ u.flags = m.flags \cup {0} /\ u.n = m.n /\ Memory(u)
      /\ Typed(m, E1) = <<>>
  <2>1. ~Breaks(m, E1)
    BY <1>1 DEF Breaks
  <2>2. Code(m, E1) = E1 /\ ~Fake(m, E1)
    BY <1>1, <2>1 DEF Code, Fake
  <2>3. Keycode(m, E1) = 0
    BY <1>1, <2>2 DEF Keycode, KeycodeOf
  <2>4. Flags(m, E1) = m.flags \cup {0} /\ Typed(m, E1) = <<>>
    BY <2>1, <2>2, <2>3, Silent DEF Flags, Typed
  <2>5. NextE0(m, E1) = 0 /\ NextOfE1(m, E1) = 1
    BY <1>1, <2>2 DEF NextE0, NextOfE1, E0, E1
  <2>6. m.n + 0 = m.n
    BY <1>1 DEF Memory
  <2> QED BY <1>1, <1>2, <2>4, <2>5, <2>6, AfterType DEF After
<1> HIDE DEF u
<1>4. v.e0 = 0 /\ v.e1 = 2 /\ v.prev = 29 /\ Memory(v) /\ v.n = m.n /\ Typed(u, b) = <<>>
      /\ v.flags \cap {42, 54} = m.flags \cap {42, 54}
  <2>1. Breaks(u, b) <=> b = 157
    BY <1>3 DEF Breaks, E0, E1
  <2>2. Code(u, b) = 29 /\ ~Fake(u, b)
    BY <1>3, <2>1 DEF Code, Fake
  <2>3. Keycode(u, b) = 0
    BY <1>3 DEF Keycode, KeycodeOf
  <2>4. Typed(u, b) = <<>>
    BY <2>3, Silent DEF Typed
  <2>5. Flags(u, b) \cap {42, 54} = m.flags \cap {42, 54}
    BY <1>3, <2>2, <2>3 DEF Flags
  <2>6. NextE0(u, b) = 0 /\ NextOfE1(u, b) = 2 /\ NextPrev(u, b) = 29
    BY <1>3, <2>2 DEF NextE0, NextOfE1, NextPrev
  <2>7. u.n + 0 = m.n
    BY <1>1, <1>3 DEF Memory
  <2> QED BY <1>2, <1>3, <2>4, <2>5, <2>6, <2>7, AfterType DEF After
<1> HIDE DEF v
<1>5. w.e0 = 0 /\ w.e1 = 0 /\ Memory(w) /\ w.n = m.n /\ Typed(v, c) = <<>>
      /\ w.flags \cap {42, 54} = m.flags \cap {42, 54}
  <2>1. Breaks(v, c) <=> c = 197
    BY <1>4 DEF Breaks, E0, E1
  <2>2. Code(v, c) = 69 /\ ~Fake(v, c)
    BY <1>4, <2>1 DEF Code, Fake
  <2>3. Keycode(v, c) = 119
    BY <1>4, <2>2, Tables DEF Keycode, KeycodeOf
  <2>4. Typed(v, c) = <<>>
    BY <2>3, Silent DEF Typed
  <2>5. Flags(v, c) \cap {42, 54} = m.flags \cap {42, 54}
    BY <1>4, <2>2, <2>3 DEF Flags
  <2>6. NextE0(v, c) = 0 /\ NextOfE1(v, c) = 0
    BY <1>4 DEF NextE0, NextOfE1
  <2>7. v.n + 0 = m.n
    BY <1>1, <1>4 DEF Memory
  <2> QED BY <1>2, <1>4, <2>4, <2>5, <2>6, <2>7, AfterType DEF After
<1> HIDE DEF w
<1>6. Spells(m, E1, text) /\ Spells(u, b, text) /\ Spells(v, c, text)
  BY <1>3, <1>4, <1>5 DEF Spells
<1>7. Leads(<<E1, b, c>>, text, m, After(After(After(m, E1), b), c))
  BY <1>1, <1>2, <1>6, ThreeBytes DEF u, v
<1>8. Alike(m, w)
  BY <1>1, <1>5 DEF Alike, Rest
<1> QED BY <1>7, <1>8 DEF u, v, w

-----------------------------------------------------------------------------
(* The codes of the keys, and when fake shifts go with them.                *)
LEMMA Codes ==
    /\ Make("a") = <<30>> /\ Make("lshift") = <<42>> /\ Make("rshift") = <<54>>
    /\ Make("up") = FakeShift(170) \o <<E0, 72>>
    /\ Make("pause") = <<E1, 29, 69, E1, 157, 197>>
    /\ Break("a") = <<158>> /\ Break("lshift") = <<170>> /\ Break("rshift") = <<182>>
    /\ Break("up") = <<E0, 200>> \o FakeShift(42)
    /\ Break("pause") = <<>>
<1>1. /\ DOMAIN Plain = {"a", "lshift", "rshift"}
      /\ Plain["a"] = 30 /\ Plain["lshift"] = 42 /\ Plain["rshift"] = 54
  BY DEF Plain
<1>2. /\ "a" \in DOMAIN Plain /\ "lshift" \in DOMAIN Plain /\ "rshift" \in DOMAIN Plain
      /\ "up" \notin DOMAIN Plain /\ "pause" \notin DOMAIN Plain
  BY <1>1
<1>3. Make("a") = <<30>> /\ Make("lshift") = <<42>> /\ Make("rshift") = <<54>>
  BY <1>1, <1>2 DEF Make
<1>4. Break("a") = <<158>> /\ Break("lshift") = <<170>> /\ Break("rshift") = <<182>>
  BY <1>1, <1>2 DEF Break
<1>5. /\ Make("up") = FakeShift(170) \o <<E0, 72>>
      /\ Make("pause") = <<E1, 29, 69, E1, 157, 197>>
  BY <1>2 DEF Make
<1>6. Break("up") = <<E0, 200>> \o FakeShift(42) /\ Break("pause") = <<>>
  BY <1>2 DEF Break
<1> QED BY <1>3, <1>4, <1>5, <1>6

(* Between keys, with n characters typed and these keys down.               *)
AtRest(m, down, n) ==
    /\ Rest(m) /\ m.n = n
    /\ 42 \in m.flags <=> "lshift" \in down
    /\ 54 \in m.flags <=> "rshift" \in down

(* The keys up and pause change nothing that a later key depends on.        *)
LEMMA AlikeAtRest ==
    ASSUME NEW m, NEW w, NEW down, NEW n, NEW k \in {"up", "pause"},
           AtRest(m, down, n), Alike(m, w)
    PROVE  AtRest(w, down \cup {k}, n) /\ AtRest(w, down \ {k}, n)
<1>1. Rest(w) /\ w.n = n
  BY DEF AtRest, Alike
<1>2. (42 \in w.flags <=> 42 \in m.flags) /\ (54 \in w.flags <=> 54 \in m.flags)
  BY DEF Alike
<1> QED BY <1>1, <1>2 DEF AtRest

(* Fake shifts change nothing.                                              *)
LEMMA FakeCode ==
    ASSUME NEW text, NEW m, Rest(m), NEW b \in {42, 170}
    PROVE  /\ FakeShift(b) \in Seq(Byte)
           /\ \E w : Leads(FakeShift(b), text, m, w) /\ Alike(m, w)
<1>1. <<E0, b>> \in Seq(Byte) /\ <<>> \in Seq(Byte)
  BY DEF Byte, E0
<1>2. Leads(<<>>, text, m, m) /\ Alike(m, m)
  BY NoBytes DEF Rest, Alike
<1>3. \E w : Leads(<<E0, b>>, text, m, w) /\ Alike(m, w)
  BY ExtendedCode
<1> QED BY <1>1, <1>2, <1>3 DEF FakeShift

(* Being alike passes on.                                                   *)
LEMMA AlikeTransitive ==
    ASSUME NEW m, NEW v, NEW w, Alike(m, v), Alike(v, w)
    PROVE  Alike(m, w)
BY DEF Alike

(* The code of a key that goes down leads the handler from rest to rest,    *)
(* and it types the character.                                              *)
LEMMA MakeCode ==
    ASSUME struck \in Seq(Char), NEW m, AtRest(m, held, Len(struck)),
           NEW k \in {"a", "lshift", "rshift", "up", "pause"}
    PROVE  /\ Make(k) \in Seq(Byte) /\ Struck(k) \in Seq(Char)
           /\ \E w : /\ Leads(Make(k), struck \o Struck(k), m, w)
                     /\ AtRest(w, held \cup {k}, Len(struck \o Struck(k)))
<1> DEFINE text == struck \o Struck(k)
<1>1. Rest(m) /\ Memory(m) /\ m.n = Len(struck)
  BY DEF AtRest, Rest
<1>2. CASE k = "a"
  <2> DEFINE c == [keycode |-> 30, index |-> IF held \cap Shifts # {} THEN 1 ELSE 0]
  <2>1. Struck(k) = <<c>>
    BY <1>2 DEF Struck, Plain
  <2>2. c \in Char
    BY DEF Char, Printing
  <2>3. held \cap Shifts # {} <=> {42, 54} \cap (m.flags \cup {30}) # {}
    BY DEF AtRest, Shifts
  <2>4. index(m.flags \cup {30}) = IF held \cap Shifts # {} THEN 1 ELSE 0
    BY <2>3 DEF index
  <2>5. Typed(m, 30) = <<c>>
    <3>1. Typed(m, 30) = getcharfromkc(m.flags \cup {30}, 30)
      BY <1>1, PlainStep DEF GoesDown
    <3>2. 30 \in Printing
      BY DEF Printing
    <3> QED BY <2>4, <3>1, <3>2 DEF getcharfromkc
  <2> HIDE DEF c
  <2>6. <<c>> \in Seq(Char) /\ Len(<<c>>) = 1
    BY <2>2
  <2>7. Len(text) = Len(struck) + 1 /\ text[Len(struck) + 1] = c
    BY <2>1, <2>2
  <2>8. Spells(m, 30, text)
    <3>1. m.n + 1 \in 1 .. Len(text) /\ text[m.n + 1] = c
      BY <1>1, <2>7
    <3> QED BY <2>5, <3>1 DEF Spells
  <2>9. 30 \in Byte /\ <<30>> \in Seq(Byte)
    BY DEF Byte
  <2>10. Leads(Make(k), text, m, After(m, 30))
    BY <1>1, <1>2, <2>8, <2>9, OneByte, Codes
  <2>11. /\ Rest(After(m, 30)) /\ After(m, 30).flags = m.flags \cup {30}
         /\ After(m, 30).n = m.n + Len(Typed(m, 30))
    BY <1>1, PlainStep DEF GoesDown
  <2>12. AtRest(After(m, 30), held \cup {k}, Len(text))
    <3>1. After(m, 30).n = Len(text)
      BY <1>1, <2>5, <2>6, <2>7, <2>11
    <3> HIDE DEF text
    <3> QED BY <1>2, <2>11, <3>1 DEF AtRest
  <2> QED BY <1>2, <2>1, <2>6, <2>9, <2>10, <2>12, Codes
<1>3. CASE k # "a"
  <2>1. Struck(k) = <<>> /\ <<>> \in Seq(Char) /\ struck \o <<>> = struck
    BY <1>3 DEF Struck
  <2>2. CASE k \in {"lshift", "rshift"}
    <3> DEFINE b == IF k = "lshift" THEN 42 ELSE 54
    <3>1. b \in {42, 54} /\ b \in {30, 42, 54} /\ Make(k) = <<b>>
      BY <2>2, Codes
    <3>2. b \in Byte /\ <<b>> \in Seq(Byte)
      BY <3>1 DEF Byte
    <3>3. (b = 42 <=> k = "lshift") /\ (b = 54 <=> k = "rshift")
      BY <2>2
    <3> HIDE DEF b
    <3>4. Typed(m, b) = <<>>
      <4>1. Typed(m, b) = getcharfromkc(m.flags \cup {b}, b)
        <5>1. GoesDown(m, b)
          BY <1>1, <3>1, PlainStep
        <5> QED BY <5>1 DEF GoesDown
      <4>2. b \in {0, 42, 54, 103, 119}
        BY <3>1
      <4> QED BY <4>1, <4>2, Silent
    <3>5. Leads(<<b>>, struck, m, After(m, b))
      BY <1>1, <3>2, <3>4, OneByte DEF Spells
    <3>6. /\ Rest(After(m, b)) /\ After(m, b).flags = m.flags \cup {b}
          /\ After(m, b).n = m.n + Len(Typed(m, b))
      <4>1. GoesDown(m, b)
        BY <1>1, <3>1, PlainStep
      <4> QED BY <4>1 DEF GoesDown
    <3>7. After(m, b).n = Len(struck)
      BY <1>1, <3>4, <3>6
    <3>8. AtRest(After(m, b), held \cup {k}, Len(struck))
      BY <3>1, <3>3, <3>6, <3>7 DEF AtRest
    <3> QED BY <2>1, <3>1, <3>2, <3>5, <3>8
  <2>3. CASE k = "up"
    <3>1. <<E0, 72>> \in Seq(Byte)
      BY DEF Byte, E0
    <3>2. PICK v : Leads(FakeShift(170), struck, m, v) /\ Alike(m, v)
      BY <1>1, FakeCode
    <3>3. PICK w : Leads(<<E0, 72>>, struck, v, w) /\ Alike(v, w)
      <4>1. Rest(v)
        BY <3>2 DEF Alike
      <4>2. 72 \in {42, 170, 72, 200}
        OBVIOUS
      <4> QED BY <4>1, <4>2, ExtendedCode
    <3>4. FakeShift(170) \in Seq(Byte)
      BY <1>1, FakeCode
    <3>5. Leads(Make(k), struck, m, w) /\ Make(k) \in Seq(Byte)
      <4>1. Leads(FakeShift(170) \o <<E0, 72>>, struck, m, w)
        BY <3>1, <3>2, <3>3, <3>4, Compose
      <4>2. FakeShift(170) \o <<E0, 72>> \in Seq(Byte)
        BY <3>1, <3>4
      <4>3. Make(k) = FakeShift(170) \o <<E0, 72>>
        BY <2>3, Codes
      <4> QED BY <4>1, <4>2, <4>3
    <3>6. AtRest(w, held \cup {k}, Len(struck))
      BY <2>3, <3>2, <3>3, AlikeTransitive, AlikeAtRest
    <3> QED BY <2>1, <3>5, <3>6
  <2>4. CASE k = "pause"
    <3>1. /\ <<E1, 29, 69>> \in Seq(Byte) /\ <<E1, 157, 197>> \in Seq(Byte)
          /\ <<E1, 29, 69, E1, 157, 197>> \in Seq(Byte)
      BY DEF Byte, E1
    <3>2. PICK v : Leads(<<E1, 29, 69>>, struck, m, v) /\ Alike(m, v)
      BY <1>1, PauseCode
    <3>3. PICK w : Leads(<<E1, 157, 197>>, struck, v, w) /\ Alike(v, w)
      <4>1. Rest(v)
        BY <3>2 DEF Alike
      <4>2. 157 \in {29, 157} /\ 197 \in {69, 197} /\ (157 = 29 <=> 197 = 69)
        OBVIOUS
      <4> QED BY <4>1, <4>2, PauseCode
    <3>4. <<E1, 29, 69>> \o <<E1, 157, 197>> = <<E1, 29, 69, E1, 157, 197>>
      <4> DEFINE s == <<E1, 29, 69>>
                 t == <<E1, 157, 197>>
                 u == <<E1, 29, 69, E1, 157, 197>>
      <4>1. Len(s) = 3 /\ Len(t) = 3 /\ Len(u) = 6
        OBVIOUS
      <4>2. \A i \in 1 .. 6 : (s \o t)[i] = u[i]
        OBVIOUS
      <4>3. s \o t \in Seq(Byte) /\ Len(s \o t) = 6
        BY <3>1
      <4> HIDE DEF s, t, u
      <4>4. s \o t = u
        <5>1. u \in Seq(Byte) /\ Len(s \o t) = Len(u) /\ 1 .. Len(s \o t) = 1 .. 6
          BY <3>1, <4>1, <4>3 DEF u
        <5>2. \A i \in 1 .. Len(s \o t) : (s \o t)[i] = u[i]
          BY <4>2, <5>1
        <5> QED BY <4>3, <5>1, <5>2, SeqEqual
      <4> QED BY <4>4 DEF s, t, u
    <3>5. Leads(Make(k), struck, m, w)
      <4>1. Leads(<<E1, 29, 69>> \o <<E1, 157, 197>>, struck, m, w)
        <5> DEFINE s == <<E1, 29, 69>>
                   t == <<E1, 157, 197>>
        <5>1. s \in Seq(Byte) /\ t \in Seq(Byte)
          BY <3>1
        <5>2. Leads(s, struck, m, v) /\ Leads(t, struck, v, w)
          BY <3>2, <3>3
        <5> HIDE DEF s, t
        <5>3. Leads(s \o t, struck, m, w)
          BY <5>1, <5>2, Compose
        <5> QED BY <5>3 DEF s, t
      <4>2. Make(k) = <<E1, 29, 69, E1, 157, 197>>
        BY <2>4, Codes
      <4> QED BY <3>4, <4>1, <4>2
    <3>6. AtRest(w, held \cup {k}, Len(struck))
      BY <2>4, <3>2, <3>3, AlikeTransitive, AlikeAtRest
    <3> QED BY <2>1, <2>4, <3>1, <3>5, <3>6, Codes
  <2> QED BY <1>3, <2>2, <2>3, <2>4
<1> QED BY <1>2, <1>3

(* So does the code of a key that goes up, which types nothing.             *)
LEMMA BreakCode ==
    ASSUME NEW m, NEW n, AtRest(m, held, n), NEW text,
           NEW k \in {"a", "lshift", "rshift", "up", "pause"}
    PROVE  /\ Break(k) \in Seq(Byte)
           /\ \E w : Leads(Break(k), text, m, w) /\ AtRest(w, held \ {k}, n)
<1>1. Rest(m) /\ Memory(m) /\ m.n = n
  BY DEF AtRest, Rest
<1>2. CASE k \in {"a", "lshift", "rshift"}
  <2> DEFINE b == IF k = "lshift" THEN 42 ELSE IF k = "rshift" THEN 54 ELSE 30
  <2>1. b \in {30, 42, 54} /\ Break(k) = <<b + 128>>
    BY <1>2, Codes
  <2>2. (b = 42 <=> k = "lshift") /\ (b = 54 <=> k = "rshift")
    BY <1>2
  <2> HIDE DEF b
  <2>3. b + 128 \in Byte /\ <<b + 128>> \in Seq(Byte)
    BY <2>1 DEF Byte
  <2>4. /\ Rest(After(m, b + 128)) /\ After(m, b + 128).flags = m.flags \ {b}
        /\ Typed(m, b + 128) = <<>> /\ After(m, b + 128).n = m.n
    <3>1. GoesUp(m, b)
      BY <1>1, <2>1, PlainStep
    <3> QED BY <3>1 DEF GoesUp
  <2>5. Leads(<<b + 128>>, text, m, After(m, b + 128))
    BY <1>1, <2>3, <2>4, OneByte DEF Spells
  <2>6. AtRest(After(m, b + 128), held \ {k}, n)
    BY <2>2, <2>4 DEF AtRest
  <2> QED BY <2>1, <2>3, <2>5, <2>6
<1>3. CASE k = "up"
  <2>1. <<E0, 200>> \in Seq(Byte)
    BY DEF Byte, E0
  <2>2. PICK v : Leads(<<E0, 200>>, text, m, v) /\ Alike(m, v)
    BY <1>1, ExtendedCode
  <2>3. PICK w : Leads(FakeShift(42), text, v, w) /\ Alike(v, w)
    <3>1. Rest(v)
      BY <2>2 DEF Alike
    <3> QED BY <3>1, FakeCode
  <2>4. FakeShift(42) \in Seq(Byte)
    BY <1>1, FakeCode
  <2>5. Leads(Break(k), text, m, w) /\ Break(k) \in Seq(Byte)
    <3>1. Leads(<<E0, 200>> \o FakeShift(42), text, m, w)
      BY <2>1, <2>2, <2>3, <2>4, Compose
    <3>2. <<E0, 200>> \o FakeShift(42) \in Seq(Byte)
      BY <2>1, <2>4
    <3>3. Break(k) = <<E0, 200>> \o FakeShift(42)
      BY <1>3, Codes
    <3> QED BY <3>1, <3>2, <3>3
  <2>6. AtRest(w, held \ {k}, n)
    BY <1>3, <2>2, <2>3, AlikeTransitive, AlikeAtRest
  <2> QED BY <2>5, <2>6
<1>4. CASE k = "pause"
  <2>1. Leads(<<>>, text, m, m)
    BY <1>1, NoBytes
  <2>2. Alike(m, m)
    BY <1>1 DEF Alike
  <2>3. AtRest(m, held \ {k}, n)
    BY <1>4, <2>2, AlikeAtRest
  <2>4. Break(k) = <<>> /\ <<>> \in Seq(Byte)
    BY <1>4, Codes
  <2> QED BY <2>1, <2>3, <2>4
<1> QED BY <1>2, <1>3, <1>4

-----------------------------------------------------------------------------
(***************************************************************************)
(* The inductive invariant: what has been written is the beginning of what  *)
(* was struck, and the unread bytes lead the handler to rest with the rest  *)
(* of it.                                                                   *)
(***************************************************************************)
Inv ==
    /\ TypeOK /\ struck \in Seq(Char)
    /\ Len(out) <= Len(struck) /\ \A i \in 1 .. Len(out) : out[i] = struck[i]
    /\ \E m : Leads(wire, struck, Present, m) /\ AtRest(m, held, Len(struck))

(* At the start nothing is struck, sent or seen.                            *)
LEMMA InitInv == Init => Inv
<1> SUFFICES ASSUME Init PROVE Inv
  OBVIOUS
<1>1. TypeOK
  <2>1. <<>> \in Seq(0 .. 255) /\ <<>> \in Seq([keycode : Printing \cup {1}, index : 0 .. 1])
    OBVIOUS
  <2> QED BY <2>1 DEF Init, TypeOK
<1>2. struck \in Seq(Char) /\ out = <<>> /\ struck = <<>> /\ wire = <<>> /\ held = {}
  BY DEF Init
<1>3. Present.e0 = 0 /\ Present.e1 = 0 /\ Present.n = 0 /\ Present.flags = {}
      /\ Memory(Present)
  BY DEF Init, Present, Memory
<1>4. AtRest(Present, held, Len(struck))
  BY <1>2, <1>3 DEF AtRest, Rest
<1>5. Leads(wire, struck, Present, Present)
  BY <1>2, <1>3, NoBytes
<1>6. Len(out) <= Len(struck) /\ \A i \in 1 .. Len(out) : out[i] = struck[i]
  BY <1>2
<1> QED BY <1>1, <1>2, <1>4, <1>5, <1>6 DEF Inv

(* A key's code is behind the bytes that wait.                              *)
LEMMA KeyStep ==
    ASSUME Inv, NEW k \in Keys, Press(k) \/ Release(k)
    PROVE  Inv'
<1>1. PICK m : Leads(wire, struck, Present, m) /\ AtRest(m, held, Len(struck))
  BY DEF Inv
<1>2. TypeOK /\ struck \in Seq(Char) /\ wire \in Seq(Byte) /\ out \in Seq(Char)
      /\ Len(out) <= Len(struck) /\ \A i \in 1 .. Len(out) : out[i] = struck[i]
  BY DEF Inv, TypeOK, Byte, Char
<1>3. k \in {"a", "lshift", "rshift", "up", "pause"}
  BY KeysAssumption
<1>4. UNCHANGED driver
  BY DEF Press, Release
<1>5. Present' = Present /\ out' = out
  BY <1>4 DEF Present, driver
<1>6. PICK code, more :
          /\ code \in Seq(Byte) /\ more \in Seq(Char)
          /\ wire' = wire \o code /\ struck' = struck \o more
          /\ held' \subseteq Keys
          /\ \E w : Leads(code, struck \o more, m, w) /\ AtRest(w, held', Len(struck \o more))
  <2>1. CASE Press(k)
    <3>1. wire' = wire \o Make(k) /\ struck' = struck \o Struck(k) /\ held' = held \cup {k}
      BY <2>1 DEF Press
    <3>2. held' \subseteq Keys
      BY <1>2, <3>1 DEF TypeOK
    <3>3. /\ Make(k) \in Seq(Byte) /\ Struck(k) \in Seq(Char)
          /\ \E w : /\ Leads(Make(k), struck \o Struck(k), m, w)
                    /\ AtRest(w, held', Len(struck \o Struck(k)))
      BY <1>1, <1>2, <1>3, <3>1, MakeCode
    <3> QED BY <3>1, <3>2, <3>3
  <2>2. CASE Release(k)
    <3>1. wire' = wire \o Break(k) /\ struck' = struck /\ held' = held \ {k}
      BY <2>2 DEF Release
    <3>2. held' \subseteq Keys
      BY <1>2, <3>1 DEF TypeOK
    <3>3. <<>> \in Seq(Char) /\ struck \o <<>> = struck
      BY <1>2
    <3>4. /\ Break(k) \in Seq(Byte)
          /\ \E w : Leads(Break(k), struck, m, w) /\ AtRest(w, held', Len(struck))
      BY <1>1, <1>3, <3>1, BreakCode
    <3> QED BY <3>1, <3>2, <3>3, <3>4
  <2> QED BY <2>1, <2>2
<1>7. PICK w : Leads(code, struck', m, w) /\ AtRest(w, held', Len(struck'))
  BY <1>6
<1>8. Leads(wire, struck', Present, m)
  BY <1>1, <1>2, <1>6, LongerText
<1>9. Leads(wire', struck', Present', w)
  BY <1>2, <1>5, <1>6, <1>7, <1>8, Compose
<1>10. TypeOK'
  <2>1. wire' \in Seq(0 .. 255)
    BY <1>2, <1>6 DEF Byte
  <2> QED BY <1>2, <1>4, <1>6, <2>1 DEF TypeOK, driver
<1>11. /\ struck' \in Seq(Char) /\ Len(out') <= Len(struck')
       /\ \A i \in 1 .. Len(out') : out'[i] = struck'[i]
  <2>1. /\ struck' \in Seq(Char) /\ Len(struck') = Len(struck) + Len(more)
        /\ \A i \in 1 .. Len(struck) : struck'[i] = struck[i]
        /\ Len(more) \in Nat /\ Len(struck) \in Nat /\ Len(out) \in Nat
    BY <1>2, <1>6
  <2> QED BY <1>2, <1>5, <2>1
<1> QED BY <1>7, <1>9, <1>10, <1>11 DEF Inv

(* The handler reads the first of the bytes.                                *)
LEMMA ReadStep ==
    ASSUME Inv, irq_handler
    PROVE  Inv'
<1>1. PICK m : Leads(wire, struck, Present, m) /\ AtRest(m, held, Len(struck))
  BY DEF Inv
<1>2. TypeOK /\ struck \in Seq(Char) /\ wire \in Seq(Byte) /\ out \in Seq(Char)
      /\ Len(out) <= Len(struck) /\ \A i \in 1 .. Len(out) : out[i] = struck[i]
  BY DEF Inv, TypeOK, Byte, Char
<1>3. wire # <<>>
  BY DEF irq_handler
<1> DEFINE b == Head(wire)
           typed == Typed(Present, b)
<1>4. /\ Memory(Present) /\ Spells(Present, b, struck)
      /\ Leads(Tail(wire), struck, After(Present, b), m)
  BY <1>1, <1>2, <1>3, FirstByte
<1>5. /\ b \in Byte /\ Present' = After(Present, b) /\ out' = out \o typed
      /\ wire' = Tail(wire) /\ UNCHANGED <<held, struck>>
  BY <1>2, <1>4, HandlerStep
<1>6. Leads(wire', struck', Present', m) /\ AtRest(m, held', Len(struck'))
  BY <1>1, <1>4, <1>5
<1>7. Memory(Present')
  BY <1>4, <1>5, AfterType
<1>8. out' \in Seq(Char)
  BY <1>2, <1>5, TypedType
<1>9. wire' \in Seq(Byte)
  BY <1>2, <1>3, <1>5
<1>10. TypeOK'
  <2>1. /\ e0_code' \in 0 .. 1 /\ e1_code' \in 0 .. 2 /\ e1_prev' \in Nat
        /\ e1_prev' < 256 * 256 /\ key_flags' \subseteq 0 .. 119
    BY <1>7 DEF Memory, Present
  <2> QED BY <1>2, <1>5, <1>8, <1>9, <2>1 DEF TypeOK, Byte, Char
<1>11. Len(out') <= Len(struck') /\ \A i \in 1 .. Len(out') : out'[i] = struck'[i]
  <2>1. CASE typed = <<>>
    BY <1>2, <1>5, <2>1
  <2>2. CASE Present.n + 1 \in 1 .. Len(struck) /\ typed = <<struck[Present.n + 1]>>
    <3>1. Present.n = Len(out) /\ Len(out) \in Nat
      BY <1>2 DEF Present
    <3> DEFINE c == struck[Len(out) + 1]
    <3>2. out' = out \o <<c>> /\ Len(out) + 1 <= Len(struck) /\ c \in Char
      <4>1. typed = <<c>>
        BY <2>2, <3>1
      <4>2. Len(out) + 1 <= Len(struck)
        BY <2>2, <3>1
      <4>3. c \in Char
        BY <1>2, <3>1, <4>2
      <4> QED BY <1>5, <4>1, <4>2, <4>3
    <3> HIDE DEF c, b, typed
    <3>3. /\ Len(out') = Len(out) + 1 /\ out'[Len(out) + 1] = c
          /\ \A i \in 1 .. Len(out) : out'[i] = out[i]
      BY <1>2, <3>1, <3>2
    <3> QED BY <1>2, <1>5, <3>1, <3>2, <3>3 DEF c
  <2> QED BY <1>4, <2>1, <2>2 DEF Spells
<1> QED BY <1>2, <1>5, <1>6, <1>10, <1>11 DEF Inv

(* Every step keeps the invariant.                                          *)
LEMMA Step ==
    ASSUME Inv, [Next]_vars
    PROVE  Inv'
<1>1. CASE irq_handler
  BY <1>1, ReadStep
<1>2. ASSUME NEW k \in Keys, Press(k) \/ Release(k) PROVE Inv'
  BY <1>2, KeyStep
<1>3. CASE UNCHANGED vars
  <2>1. Present' = Present
    BY <1>3 DEF Present, vars, driver
  <2> QED BY <1>3, <2>1 DEF Inv, TypeOK, vars, driver
<1> QED BY <1>1, <1>2, <1>3 DEF Next

(* The driver's variables stay in their ranges, and it never writes a       *)
(* character that its tables do not have.                                   *)
THEOREM TypeCorrect == Spec => []TypeOK
<1>1. Inv /\ [Next]_vars => Inv'
  BY Step
<1>2. Inv => TypeOK
  BY DEF Inv
<1> QED BY InitInv, <1>1, <1>2, PTL DEF Spec

(* With no byte left, the handler is where the bytes lead it: at rest.      *)
LEMMA NothingUnread ==
    ASSUME Inv, wire = <<>>
    PROVE  AtRest(Present, held, Len(struck))
<1>1. PICK m : Leads(wire, struck, Present, m) /\ AtRest(m, held, Len(struck))
  BY DEF Inv
<1>2. Present = m
  BY <1>1 DEF Leads
<1> QED BY <1>1, <1>2

(* What the driver writes is what was struck, in order and with the shift   *)
(* state of the moment.                                                     *)
THEOREM TypedCorrect == Spec => []TypedAsStruck
<1>1. Inv /\ [Next]_vars => Inv'
  BY Step
<1>2. ASSUME Inv PROVE TypedAsStruck
  <2>1. struck \in Seq(Char) /\ out \in Seq(Char)
        /\ Len(out) <= Len(struck) /\ \A i \in 1 .. Len(out) : out[i] = struck[i]
    BY <1>2 DEF Inv, TypeOK, Char
  <2>2. out = SubSeq(struck, 1, Len(out))
    <3>1. SubSeq(struck, 1, Len(out)) \in Seq(Char) /\ Len(SubSeq(struck, 1, Len(out))) = Len(out)
      BY <2>1
    <3>2. \A i \in 1 .. Len(out) : SubSeq(struck, 1, Len(out))[i] = struck[i]
      BY <2>1
    <3> QED BY <2>1, <3>1, <3>2, SeqEqual
  <2>3. ASSUME wire = <<>> PROVE out = struck
    <3>1. Len(out) = Len(struck)
      BY <1>2, <2>3, NothingUnread DEF AtRest, Present
    <3> QED BY <2>1, <3>1, SeqEqual
  <2> QED BY <2>1, <2>2, <2>3 DEF TypedAsStruck
<1> QED BY InitInv, <1>1, <1>2, PTL DEF Spec

(* Between keys the handler waits for no more bytes and knows which shift   *)
(* keys are down.                                                           *)
THEOREM StaysInStep == Spec => []InStep
<1>1. Inv /\ [Next]_vars => Inv'
  BY Step
<1>2. ASSUME Inv PROVE InStep
  <2>1. SUFFICES ASSUME wire = <<>>
                 PROVE  /\ e0_code = 0 /\ e1_code = 0
                        /\ \A k \in Shifts : Plain[k] \in key_flags <=> k \in held
    BY DEF InStep
  <2>2. AtRest(Present, held, Len(struck))
    BY <1>2, <2>1, NothingUnread
  <2>3. /\ e0_code = 0 /\ e1_code = 0
        /\ 42 \in key_flags <=> "lshift" \in held
        /\ 54 \in key_flags <=> "rshift" \in held
    BY <2>2 DEF AtRest, Rest, Present
  <2>4. Plain["lshift"] = 42 /\ Plain["rshift"] = 54
    BY DEF Plain
  <2> QED BY <2>3, <2>4 DEF Shifts
<1> QED BY InitInv, <1>1, <1>2, PTL DEF Spec
=============================================================================
