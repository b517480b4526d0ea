------------------------------ MODULE Tokenize ------------------------------
(***************************************************************************)
(* From chat messages to the tokens the router matches on (tokenize.py).   *)
(* Text is a sequence of bytes, which UTF-8 lets one do: the encoding of a *)
(* concatenation is that of its parts.  A token is the bytes folded into   *)
(* it, which the code packs into an integer.                               *)
(***************************************************************************)
EXTENDS Integers, SequencesExt

CONSTANTS
  marker,   \* for every role, the bytes of <|role|>
  Fold      \* bytes to a token; 4 in the code

ASSUME FoldAssumption == Fold \in Nat \ {0}

\* The content of a message is a sequence of blocks of text; a string is one.
render_messages(messages) ==
  FlattenSeq([i \in DOMAIN messages |->
                marker[messages[i].role] \o FlattenSeq(messages[i].content)])

Zeros(data) == [i \in 1 .. (-Len(data)) % Fold |-> 0]
\* Mutant: rjust() for ljust().
PaddedInFront(data) == Zeros(data) \o data
Padded(data) == data \o Zeros(data)

\* ByteTokenizer.encode: the last token is filled up with zeros.
encode(data) ==
  [k \in 1 .. Len(Padded(data)) \div Fold |->
     SubSeq(Padded(data), (k - 1) * Fold + 1, k * Fold)]
=============================================================================
