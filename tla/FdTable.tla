------------------------------ MODULE FdTable ------------------------------
(***************************************************************************)
(* What an open-file table promises, without its slots: a map from         *)
(* descriptors to open files.  open hands out the lowest free descriptor,  *)
(* nothing else touches a descriptor that stays open, and what close or    *)
(* umount takes away can be handed out again.                              *)
(***************************************************************************)
EXTENDS Integers

CONSTANT MaxOpenFiles

VARIABLE files    \* from open descriptors to what identifies their files

Init == files = [fd \in {} |-> 0]

LowestFree(fd) ==
  /\ fd \in (1..MaxOpenFiles) \ DOMAIN files
  /\ 1..(fd - 1) \subseteq DOMAIN files

Open(fd) ==
  /\ LowestFree(fd)
  /\ DOMAIN files' = DOMAIN files \cup {fd}
  /\ files' = [i \in DOMAIN files' |->
                 IF i = fd THEN files'[fd] ELSE files[i]]

Close(fds) == files' = [i \in DOMAIN files \ fds |-> files[i]]

Next ==
  \/ \E fd \in 1..MaxOpenFiles : Open(fd)
  \/ \E fds \in SUBSET DOMAIN files : Close(fds)

Spec == Init /\ [][Next]_files
=============================================================================
