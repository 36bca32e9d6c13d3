--------------------------- MODULE StreamMeaning ----------------------------
(***************************************************************************)
(* What a graph of operators is to do with a value, told from its wiring   *)
(* and not from the tasks that carry the value through it.                 *)
(***************************************************************************)
EXTENDS StreamGraph, SequencesExt, FiniteSetsExt

\* What an operator promises of a value, whatever the order: each branch of a
\* split has it, exactly one branch of a case, the result or the error of a
\* process.
Promised(n, v) ==
  LET At(i, x) == <<<<n, i>>, x>> IN
  CASE op[n] = "map" -> SetToBag({At(1, 1 - v)})
    [] op[n] = "filter" -> IF v = 0 THEN EmptyBag ELSE SetToBag({At(1, v)})
    [] op[n] = "flatmap" -> SetToBag({At(1, 0), At(1, 1)})
    [] op[n] = "iterable" -> IF v = 0 THEN EmptyBag ELSE SetToBag({At(1, 1)})
    [] op[n] = "keyby" -> SetToBag({At(1, v + 2)})
    [] op[n] \in {"merge", "link", "split"} -> SetToBag({<<s, v>> : s \in Outs(n)})
    [] op[n] \in {"process", "sinkResult"} -> SetToBag({At(2 - v, v)})
    [] op[n] = "sink" -> IF v # 0 THEN EmptyBag ELSE SetToBag({At(1, v)})
    [] op[n] = "result" -> EmptyBag
    [] op[n] = "case" -> SetToBag({At(1 + v, v)})

\* What the sinks are to be given of a value emitted into a stream.
RECURSIVE Meaning(_, _)
Meaning(s, v) ==
  LET n == downstream[s] IN
  IF n = 0 THEN EmptyBag
  ELSE FoldSet(LAMBDA o, b : b (+) Meaning(o[1], o[2]),
               IF op[n] \in Ends THEN SetToBag({<<n, v>>}) ELSE EmptyBag,
               BagToSet(Promised(n, v)))

Pending(t) == FoldSeq(LAMBDA c, b : b (+) Meaning(c.s, c.v), EmptyBag, task[t].agenda)

Scaled(b, F(_)) == FoldSet(LAMBDA e, r : r (+) [x \in DOMAIN F(e) |-> F(e)[x] * b[e]], EmptyBag, DOMAIN b)

\* Nothing is lost and nothing doubled on the way, whatever the links and the
\* interleaving: what the sinks have, what is still to be done and what a pool
\* rejected, stopped or for a cancelled context, make up exactly what the emitted values mean.
Conserved ==
  phase \notin {"wiring", "failed"} =>
    received (+) FoldSet(LAMBDA t, b : b (+) Pending(t), EmptyBag, TaskId)
             (+) Scaled(lost, LAMBDA o : Meaning(o[1], o[2]))
      = Scaled(emitted, LAMBDA o : Meaning(o[1], o[2]))
=============================================================================
