------------------------------ MODULE Safe_Queue ------------------------------
(***************************************************************************)
(* Safe_Queue<T> (Include/Safe_Queue.h): a std::queue behind a mutex of    *)
(* its own.  Every method holds that mutex from its first statement to its *)
(* last, so a call is one step; the exception is pop(), which gives the    *)
(* mutex back while it sleeps in cond_var.wait.  A caller that finds the   *)
(* queue empty inside pop() is therefore a state of the caller, and the    *)
(* caller's module says when it sleeps and when it looks again.            *)
(*                                                                         *)
(* Nothing in the class notifies cond_var: push() only stores the element. *)
(* A sleeping caller can still look again, because a condition variable    *)
(* may wake spuriously, but nothing obliges it to.                         *)
(***************************************************************************)
EXTENDS Sequences

VARIABLE works   \* the stored elements, front first

empty == works = <<>>

\* Mutant of push: the element goes to the front.
pushFront(work) == works' = <<work>> \o works

push(work) == works' = Append(works, work)

\* What pop() does once the predicate of cond_var.wait holds: the caller
\* binds `front` and the element leaves the queue.
front == Head(works)

pop ==
  /\ ~empty
  /\ works' = Tail(works)
===============================================================================
