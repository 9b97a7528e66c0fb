------------------------------ MODULE Results ------------------------------
(***************************************************************************)
(* How a call ends: with a value, with an error, or in a panic.            *)
(***************************************************************************)
EXTENDS Integers, Sequences

Ok(v) == [status |-> "Ok", val |-> v]
Err   == [status |-> "Err", val |-> <<>>]
Panic == [status |-> "Panic", val |-> <<>>]

IsOk(res) == res.status = "Ok"

(* The operator "?": a failure is the result, a value goes on to next. *)
AndThen(res, next(_)) ==
  CHOOSE out \in {IF IsOk(r) THEN next(r.val) ELSE r : r \in {res}} : TRUE

(* collect::<Result<_, _>>: the values, or the first failure. *)
Collect(results) ==
  LET failed == {i \in DOMAIN results : ~IsOk(results[i])}
  IN  IF failed = {} THEN Ok([i \in DOMAIN results |-> results[i].val])
      ELSE results[CHOOSE i \in failed : \A j \in failed : i <= j]
=============================================================================
