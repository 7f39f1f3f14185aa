------------------------------- MODULE MCProcs -------------------------------
(***************************************************************************)
(* The process table on two CPUs (syscalls lab), and processes that share  *)
(* memory copy-on-write (cow lab).  One of the two runs; the variables of  *)
(* the other keep their initial values.                                    *)
(*                                                                         *)
(* Copy-on-write is run with three processes of one page that fork, store  *)
(* and exit, with two of two pages that make all calls, and with two of    *)
(* one page that write different values.                                   *)
(***************************************************************************)
EXTENDS ProcTable, Cow, TLC

CONSTANTS c1, c2, p1, p2, p3, g1, g2, g3, v0, v1

VARIABLE part     \* what runs

IsCow == part \in {"cow_procs", "cow_pages", "cow_values"}

\* What the programs of a run of copy-on-write do not do.
TwoOnly  == loc'[p3] = "unused"
OnePage  == \A p \in Proc : end'[p] <= 1
NoCalls  == \A p \in Proc : val'[p] = NoValue /\ (loc[p] = "user" => sz'[p] = sz[p])
OneValue == (\A g \in Page : mem'[g] # v1) /\ (\A p \in Proc : val'[p] # v1)

Within ==
  CASE part = "cow_procs"  -> OnePage /\ OneValue /\ NoCalls
    [] part = "cow_pages"  -> TwoOnly /\ OneValue
    [] part = "cow_values" -> TwoOnly /\ OnePage

StartOne ==
  /\ part \in {"proc", "cow_procs", "cow_pages", "cow_values"}
  /\ Init /\ CowInit

RunOne ==
  \/ part = "proc" /\ (Next \/ Halted) /\ UNCHANGED <<part, cowvars>>
  \/ IsCow /\ CowNext /\ Within /\ UNCHANGED <<part, vars>>

Processes == StartOne /\ [][RunOne]_<<part, vars, cowvars>>

Symmetric == Permutations({p2, p3}) \cup Permutations(Page)
=============================================================================
