------------------------------ MODULE Strings ------------------------------
(***************************************************************************)
(* The string operations the shells are built from (string.c of the         *)
(* library).  A string is a sequence of characters, a set of characters     *)
(* stands for a string that is only searched.  The static pointer sp is a   *)
(* position in the string, 0 when it is null; a delimiter that is           *)
(* overwritten with '\0' is where the token before it ends.                 *)
(***************************************************************************)
EXTENDS Lists, FiniteSets

(* Mutant: of the characters that quote only the first is seen.             *)
Quoted_Once(str, start, n, quotes) == \E k \in start .. n : str[k] \in quotes

(* esc, which every quoting character turns over, at position n.            *)
Quoted(str, start, n, quotes) ==
    Cardinality({k \in start .. n : str[k] \in quotes}) % 2 = 1

First(positions, otherwise) ==
    IF positions = {} THEN otherwise
    ELSE CHOOSE n \in positions : \A k \in positions : n <= k

(* A character that is also an escEscChar quotes nothing, and it has no     *)
(* effect on the characters after it.                                       *)
strtokncesc(str, sp, delimiters, escChars, escEscChars) ==
    LET start == First({n \in sp .. Len(str) : str[n] \notin delimiters}, Len(str) + 1)
        end   == First({n \in start .. Len(str) :
                            /\ str[n] \in delimiters
                            /\ ~Quoted(str, start, n, escChars \ escEscChars)},
                       Len(str) + 1)
    IN IF sp = 0 \/ start > Len(str)
       THEN [token |-> NULL, sp |-> 0]
       ELSE [token |-> SubSeq(str, start, end - 1),
             sp    |-> IF end > Len(str) THEN end ELSE end + 1]

strtoknc(str, sp, delimiters) == strtokncesc(str, sp, delimiters, {}, {})

(* The tokens of repeated calls, up to the one that returns null.           *)
Tokens(str, Token(_, _)) ==
    LET from[sp \in 0 .. Len(str) + 1] ==
            LET t == Token(str, sp)
            IN IF t.token = NULL THEN <<>> ELSE <<t.token>> \o from[t.sp]
    IN from[1]

(* The list is filled token by token; the first is put in also when it is   *)
(* null.                                                                    *)
split(str, delimiters, escChars, escEscChars) ==
    LET Token(s, sp) == strtokncesc(s, sp, delimiters, escChars, escEscChars)
        tokens == Tokens(str, Token)
        parts  == IF tokens = <<>> THEN <<NULL>> ELSE tokens
        lst    == list_new(<<>>)
        filled[i \in 0 .. Len(parts)] ==
            IF i = 0 THEN lst.heap ELSE list_append(filled[i - 1], lst.ptr, parts[i]).heap
    IN list_toarray(filled[Len(parts)], lst.ptr)

(* Every occurrence of pattern without a character of escChars before it is *)
(* replaced.  The result is the one of the second pass; the first, which    *)
(* computes its length, counts short behind an escape character, so escape  *)
(* characters must not occur in str.                                        *)
replaceAll(str, pattern, repl, escChars) ==
    LET Matches(i) ==
            /\ i + Len(pattern) - 1 <= Len(str)
            /\ SubSeq(str, i, i + Len(pattern) - 1) = pattern
            /\ i > 1 => str[i - 1] \notin escChars
        from[i \in 1 .. Len(str) + 1] ==
            IF i > Len(str) THEN <<>>
            ELSE IF Matches(i) THEN repl \o from[i + Len(pattern)]
            ELSE <<str[i]>> \o from[i + 1]
    IN from[1]
=============================================================================
