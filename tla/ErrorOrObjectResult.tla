------------------------ MODULE ErrorOrObjectResult -------------------------
(***************************************************************************)
(* The result type of common/ErrorOrObjectResult.hpp: an object, or the    *)
(* code of the error that prevented it.  getObject of an error result      *)
(* asserts; where the code calls it unchecked, the caller's model says so. *)
(***************************************************************************)

(* The two public constructors. *)
ObjectResult(object) ==
  [mIsEmpty |-> FALSE, mResultCode |-> "kSuccess", mObject |-> object]

ErrorResult(code) == [mIsEmpty |-> TRUE, mResultCode |-> code]

isSucceeded(result) == result.mResultCode = "kSuccess" /\ ~result.mIsEmpty

isFailed(result) == ~isSucceeded(result)

(* The assertion of getObject. *)
getObjectAsserts(result) == result.mIsEmpty

getObject(result) == result.mObject
=============================================================================
