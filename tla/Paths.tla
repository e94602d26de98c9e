-------------------------------- MODULE Paths --------------------------------
(* Paths of fields as the strings they are joined to (strings.Join) and    *)
(* compared as (strings.HasPrefix).                                        *)
EXTENDS Integers, Sequences, SequencesExt

Join(path, sep) == FoldLeft(LAMBDA acc, step : acc \o sep \o step, Head(path), Tail(path))
HasPrefix(s, t) == Len(t) <= Len(s) /\ SubSeq(s, 1, Len(t)) = t
=============================================================================
