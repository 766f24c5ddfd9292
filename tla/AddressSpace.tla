---------------------------- MODULE AddressSpace ----------------------------
(***************************************************************************)
(* What the memory manager and the GTT promise their callers together: the *)
(* graphics address space is a growing row of pages.  Inserting an object  *)
(* appends its pages at the end, all of them at once and in their order,   *)
(* and what has been inserted is never moved or replaced.                  *)
(***************************************************************************)
EXTENDS Integers, SequencesExt

CONSTANT Frames

VARIABLE space  \* space[a + 1]: the frame the device reaches at page a

Init == space = <<>>

\* The new object is what space' has beyond space: pages of memory, none of
\* them twice or in an earlier object.
Insert ==
  /\ IsStrictPrefix(space, space')
  /\ space' \in Seq(Frames)
  /\ IsInjective(space')

Spec == Init /\ [][Insert]_space
=============================================================================
