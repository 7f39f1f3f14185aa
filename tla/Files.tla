-------------------------------- MODULE Files --------------------------------
(***************************************************************************)
(* What the block map of an inode is for: a file is a sequence of blocks.  *)
(* A write replaces a block or appends one, truncation empties the file,   *)
(* and a write to one file is no change of another.                        *)
(***************************************************************************)
EXTENDS Naturals, Sequences

CONSTANTS Ino, Value, MAXFILE

VARIABLE file

Init == file = [f \in Ino |-> <<>>]

\* One block of f, perhaps a new last one, gets a value.
Write(f) ==
  LET old == file[f]
      new == file'[f]
  IN
  /\ Len(new) \in {Len(old), Len(old) + 1}
  /\ Len(new) <= MAXFILE
  /\ \E i \in DOMAIN new :
       /\ new[i] \in Value
       /\ \A j \in DOMAIN new \ {i} : j \in DOMAIN old /\ new[j] = old[j]

Truncate(f) == file'[f] = <<>>

Next ==
  \E f \in Ino :
    /\ file' \in [Ino -> Seq(Value)]
    /\ \A g \in Ino \ {f} : file'[g] = file[g]
    /\ Write(f) \/ Truncate(f)

Spec == Init /\ [][Next]_file
=============================================================================
