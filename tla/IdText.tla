------------------------------- MODULE IdText --------------------------------
(***************************************************************************)
(* The texts of an ID of utils/snowflake/id_worker.go.  Somebody writes an *)
(* ID as Base58, as Base32 or as JSON, and somebody else reads it.  A text *)
(* is a sequence of bytes, since the maps that decode it are indexed by    *)
(* bytes.  Numbers are far from 2^63.                                      *)
(***************************************************************************)
EXTENDS IdParts, Sequences
LOCAL INSTANCE SequencesExt

CONSTANT Parts  \* the times, nodes and steps of the IDs that are written

ASSUME TextAssumption == \A r \in Parts : ID(r) \in Nat

VARIABLES
    id,         \* the ID
    text,       \* the text, <<>> before it is written
    kind,       \* how it is written
    result      \* what was read: Unread before, Err for an error

textVars == <<id, text, kind, result>>

Unread == -2
Err == -1
Quote == 34
Zero0 == 48

encodeBase32Map == <<121, 98, 110, 100, 114, 102, 103, 56, 101, 106, 107, 109, 99, 112, 113, 120,
                     111, 116, 49, 117, 119, 105, 115, 122, 97, 51, 52, 53, 104, 55, 54, 57>>
\* 1-9, a-z without l, A-Z without I and O
encodeBase58Map == <<49, 50, 51, 52, 53, 54, 55, 56, 57>> \o [i \in 1 .. 11 |-> 96 + i]
                   \o [i \in 1 .. 14 |-> 108 + i] \o [i \in 1 .. 8 |-> 64 + i]
                   \o [i \in 1 .. 5 |-> 73 + i] \o [i \in 1 .. 11 |-> 79 + i]
digits == [i \in 1 .. 10 |-> Zero0 + i - 1]

(* init marks the first entries of a map as invalid, as many as there are  *)
(* characters, then gives each character its place; the others are zero.   *)
DecodeMap(encode) ==
    [b \in 0 .. 255 |->
        IF b \in ToSet(encode) THEN (CHOOSE i \in DOMAIN encode : encode[i] = b) - 1
        ELSE IF b < Len(encode) THEN 255 ELSE 0]
decodeBase32Map == DecodeMap(encodeBase32Map)
decodeBase58Map == DecodeMap(encodeBase58Map)

RECURSIVE Loop(_, _)
\* The characters of a number, the last one first.
Loop(f, encode) ==
    IF f < Len(encode) THEN <<encode[f + 1]>>
    ELSE <<encode[(f % Len(encode)) + 1]>> \o Loop(f \div Len(encode), encode)
\* Faulty: leaves the characters the wrong way round.
Base58Unreversed(f) == Loop(f, encodeBase58Map)
Base58(f) == Reverse(Loop(f, encodeBase58Map))
Base32(f) == Reverse(Loop(f, encodeBase32Map))
String(f) == Reverse(Loop(f, digits))

Parsed(b, decode, base) ==
    IF \E i \in DOMAIN b : decode[b[i]] = 255 THEN Err
    ELSE FoldLeft(LAMBDA n, x : n * base + decode[x], 0, b)
ParseBase32(b) == Parsed(b, decodeBase32Map, 32)
ParseBase58(b) == Parsed(b, decodeBase58Map, 58)

(* strconv.ParseInt of a text without a sign                               *)
ParseInt(b) ==
    IF b = <<>> \/ ~(ToSet(b) \subseteq ToSet(digits)) THEN Err
    ELSE FoldLeft(LAMBDA n, x : n * 10 + x - Zero0, 0, b)
MarshalJSON(f) == <<Quote>> \o String(f) \o <<Quote>>
UnmarshalJSON(b) ==
    IF Len(b) < 3 \/ b[1] # Quote \/ b[Len(b)] # Quote THEN Err
    ELSE ParseInt(SubSeq(b, 2, Len(b) - 1))

------------------------------------------------------------------------------
InitText == id \in Parts /\ text = <<>> /\ kind = "" /\ result = Unread

Write ==
    /\ text = <<>>
    /\ \/ text' = Base58(ID(id)) /\ kind' = "base58"
       \/ text' = Base32(ID(id)) /\ kind' = "base32"
       \/ text' = MarshalJSON(ID(id)) /\ kind' = "json"
    /\ UNCHANGED <<id, result>>

Read ==
    /\ text # <<>> /\ result = Unread
    /\ result' = CASE kind = "base58" -> ParseBase58(text)
                   [] kind = "base32" -> ParseBase32(text)
                   [] kind = "json" -> UnmarshalJSON(text)
    /\ UNCHANGED <<id, text, kind>>

NextText == Write \/ Read
SpecText == InitText /\ [][NextText]_textVars

------------------------------------------------------------------------------
(* TextsReadBack: an ID written in any of the three forms is read as the   *)
(* same number, and its time, node and step are the ones it was made of.   *)
TextsReadBack ==
    result # Unread =>
        /\ result = ID(id)
        /\ [time |-> Time(result), node |-> Node(result), step |-> Step(result)] = id
==============================================================================
