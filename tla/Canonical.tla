------------------------------ MODULE Canonical ------------------------------
(***************************************************************************)
(* What the conversions of requests (RequestCodec) and of answers          *)
(* (StreamCodec) have in common: the protocols, and the helpers on         *)
(* canonical content of proxy/codec/canonical.go.                          *)
(*                                                                         *)
(* Everything that goes through a sequence from the first element to the   *)
(* last is a flattening, of which Folding and ProxyProofs have the laws.   *)
(***************************************************************************)
EXTENDS Integers, Sequences, SequencesExt

Protocols == {"responses", "anthropic", "chat"}

MapSeq(Op(_), s) == [i \in DOMAIN s |-> Op(s[i])]
FlatMap(Op(_), s) == FlattenSeq(MapSeq(Op, s))
Keep(s, Test(_)) == FlatMap(LAMBDA x : IF Test(x) THEN <<x>> ELSE <<>>, s)

OfType(content, type) == Keep(content, LAMBDA c : c.type = type)
Join(content) == FlatMap(LAMBDA c : c.text, content)
TextOf(content, type) == Join(OfType(content, type))
=============================================================================
