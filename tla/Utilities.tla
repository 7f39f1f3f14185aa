------------------------------ MODULE Utilities ------------------------------
(***************************************************************************)
(* The programs of xv6-lab-utilities: primes (a chain of processes joined  *)
(* by pipes), pingpong (two processes and two pipes), find and xargs.      *)
(*                                                                         *)
(* Pipes are external: a read waits until there is something to read or    *)
(* all write ends are closed.  What these programs write fits in a pipe.   *)
(***************************************************************************)
EXTENDS Integers, Sequences, FiniteSets, SequencesExt

CONSTANTS LAST,     \* primes sieves 2 .. LAST; it is 35 in the program
          Tree,     \* the parent of each file and directory that find meets
          Dirs,     \* the directories among them
          Top,      \* the directory where it starts
          Wanted,   \* the files with the name it looks for
          MaxOpen,  \* descriptors that find can have open at once
          Inputs,   \* what xargs may read, as sequences of characters
          Fixed     \* the arguments of xargs itself

VARIABLES
  program,
  out,     \* what was printed, or executed
  procs,   \* processes of the program: where they are and what they hold
  pipes    \* contents and open write ends

vars == <<program, out, procs, pipes>>

Pipe(s, n) == [data |-> s, writers |-> n]

-----------------------------------------------------------------------------
(* primes: process k reads from pipe k and writes to pipe k + 1 *)

PrimesInit ==
  /\ program = "primes"
  /\ procs = <<[pc |-> "loop", size |-> LAST - 1]>>
  /\ pipes = <<Pipe([i \in 1 .. LAST - 1 |-> i + 1], 0)>>

\* fork; the parent goes on to wait for the child.  If fork fails it waits for nobody.
PrimesFork(k) ==
  /\ k = Len(procs) /\ procs[k].pc = "loop" /\ procs[k].size > 0
  /\ \/ procs' = Append([procs EXCEPT ![k].pc = "wait"], [procs[k] EXCEPT !.pc = "read"])
     \/ procs' = [procs EXCEPT ![k].pc = "exit"]
  /\ UNCHANGED <<program, out, pipes>>

\* The child reads all, prints the first and passes on what that does not divide.
PrimesSieve(k) ==
  LET buff  == pipes[k - 1].data
      prime == buff[1]
      rest  == SelectSeq(buff, LAMBDA x : x % prime # 0)
  IN
  /\ k \in DOMAIN procs /\ procs[k].pc = "read"
  /\ pipes[k - 1].data # <<>>
  /\ out' = Append(out, prime)
  /\ pipes' = Append([pipes EXCEPT ![k - 1].data = <<>>], Pipe(rest, 0))
  /\ procs' = [procs EXCEPT ![k].pc = "loop", ![k].size = Len(rest)]
  /\ UNCHANGED program

\* size is 0, or the child has exited.
PrimesExit(k) ==
  /\ \/ procs[k].pc = "loop" /\ procs[k].size = 0
     \/ procs[k].pc = "wait" /\ procs[k + 1].pc = "exit"
  /\ procs' = [procs EXCEPT ![k].pc = "exit"]
  /\ UNCHANGED <<program, out, pipes>>

Primes ==
  /\ program = "primes"
  /\ \E k \in DOMAIN procs : PrimesFork(k) \/ PrimesSieve(k) \/ PrimesExit(k)

-----------------------------------------------------------------------------
(* pingpong: pipe 1 is fd, pipe 2 is fdc; process 1 is the parent *)

PingInit ==
  /\ program = "pingpong"
  /\ procs = <<"fork", "none">>
  /\ pipes = <<Pipe(<<>>, 1), Pipe(<<>>, 1)>>

\* Both processes have all ends open.  If fork fails the program ends.
PingFork ==
  /\ procs[1] = "fork"
  /\ \/ procs' = <<"write", "close">> /\ pipes' = <<Pipe(<<>>, 2), Pipe(<<>>, 2)>>
     \/ procs' = <<"exit", "none">> /\ UNCHANGED pipes
  /\ UNCHANGED <<program, out>>

\* Process p closes its write end of pipe i.
CloseEnd(p, i, at, to) ==
  /\ procs[p] = at
  /\ pipes' = [pipes EXCEPT ![i].writers = @ - 1]
  /\ procs' = [procs EXCEPT ![p] = to]
  /\ UNCHANGED <<program, out>>

Send(p, i, at, to) ==
  /\ procs[p] = at
  /\ pipes' = [pipes EXCEPT ![i].data = Append(@, p)]
  /\ procs' = [procs EXCEPT ![p] = to]
  /\ UNCHANGED <<program, out>>

\* A read that finds nothing and no writer returns 0: an empty line is printed.
Receive(p, i, at, to) ==
  LET q == pipes[i] IN
  /\ procs[p] = at
  /\ q.data # <<>> \/ q.writers = 0
  /\ out' = Append(out, <<p, IF q.data = <<>> THEN 0 ELSE Head(q.data)>>)
  /\ pipes' = [pipes EXCEPT ![i].data = IF @ = <<>> THEN @ ELSE Tail(@)]
  /\ procs' = [procs EXCEPT ![p] = to]
  /\ UNCHANGED program

PingParent ==
  \/ Send(1, 1, "write", "close") \/ CloseEnd(1, 2, "close", "read")
  \/ Receive(1, 2, "read", "last") \/ CloseEnd(1, 1, "last", "exit")

PingChild ==
  \/ CloseEnd(2, 1, "close", "read") \/ Receive(2, 1, "read", "write")
  \/ Send(2, 2, "write", "last") \/ CloseEnd(2, 2, "last", "exit")

PingPong == program = "pingpong" /\ (PingFork \/ PingParent \/ PingChild)

-----------------------------------------------------------------------------
(* find: a stack of open directories; another process removes files *)

Entries(d) == {x \in DOMAIN Tree : Tree[x] = d}

FindInit ==
  /\ program = "find"
  /\ procs = [there |-> DOMAIN Tree, stack |-> <<Entries(Top)>>]
  /\ pipes = <<>>

\* An entry of the directory on top: removed meanwhile, a directory, or a file.
\* stat opens it to look at it; what cannot be opened is left out.
search ==
  LET s == procs.stack IN
  /\ s # <<>>
  /\ \E x \in Head(s) :
       LET here == x \in procs.there /\ Len(s) < MaxOpen
           down == IF here /\ x \in Dirs THEN <<Entries(x)>> ELSE <<>>
       IN /\ procs' = [procs EXCEPT !.stack = down \o <<Head(s) \ {x}>> \o Tail(s)]
          /\ out' = IF here /\ x \notin Dirs /\ x \in Wanted THEN Append(out, x) ELSE out
  /\ UNCHANGED <<program, pipes>>

\* All entries read: close.
SearchEnd ==
  /\ procs.stack # <<>> /\ Head(procs.stack) = {}
  /\ procs' = [procs EXCEPT !.stack = Tail(@)]
  /\ UNCHANGED <<program, out, pipes>>

Unlink ==
  /\ \E x \in procs.there \ Dirs : procs' = [procs EXCEPT !.there = @ \ {x}]
  /\ UNCHANGED <<program, out, pipes>>

Find == program = "find" /\ (search \/ SearchEnd \/ Unlink)

-----------------------------------------------------------------------------
(* xargs: the words of a line lie one behind the other in buf, each ended by *)
(* a nul; args has the position where each begins.                           *)

XargsInit ==
  /\ program = "xargs"
  /\ \E input \in Inputs :
       procs = [input |-> input, read |-> 0, buf |-> <<>>, args |-> <<1>>]
  /\ pipes = <<>>

Nul == "\\0"

\* The word at a: up to the nul.
WordAt(buf, a) == SubSeq(buf, a, (CHOOSE e \in a .. Len(buf) :
                    buf[e] = Nul /\ \A d \in a .. e - 1 : buf[d] # Nul) - 1)

\* Mutant: the words of the line before are kept.
xargsKeeping ==
  LET s  == procs
      ch == s.input[s.read + 1]
      b  == Append(s.buf, IF ch \in {" ", "nl"} THEN Nul ELSE ch)
  IN
  /\ program = "xargs" /\ s.read < Len(s.input)
  /\ IF ch = "nl" THEN out' = Append(out, Fixed \o [i \in DOMAIN s.args |-> WordAt(b, s.args[i])])
     ELSE UNCHANGED out
  /\ procs' = [s EXCEPT !.read = @ + 1, !.buf = b,
                        !.args = IF ch \in {" ", "nl"} THEN Append(@, Len(b) + 1) ELSE @]
  /\ UNCHANGED <<program, pipes>>

xargs ==
  LET s  == procs
      ch == s.input[s.read + 1]
      b  == Append(s.buf, IF ch \in {" ", "nl"} THEN Nul ELSE ch)
  IN
  /\ program = "xargs" /\ s.read < Len(s.input)
  /\ CASE ch = " "  -> /\ procs' = [s EXCEPT !.read = @ + 1, !.buf = b,
                                             !.args = Append(@, Len(b) + 1)]
                       /\ UNCHANGED out
       [] ch = "nl" -> /\ out' = Append(out,
                            Fixed \o [i \in DOMAIN s.args |-> WordAt(b, s.args[i])])
                       /\ procs' = [s EXCEPT !.read = @ + 1, !.buf = <<>>, !.args = <<1>>]
       [] OTHER     -> /\ procs' = [s EXCEPT !.read = @ + 1, !.buf = b]
                       /\ UNCHANGED out
  /\ UNCHANGED <<program, pipes>>

-----------------------------------------------------------------------------
Init == out = <<>> /\ (PrimesInit \/ PingInit \/ FindInit \/ XargsInit)

Ended ==
  CASE program = "primes"   -> \A k \in DOMAIN procs : procs[k].pc = "exit"
    [] program = "pingpong" -> procs \in {<<"exit", "exit">>, <<"exit", "none">>}
    [] program = "find"     -> procs.stack = <<>>
    [] program = "xargs"    -> procs.read = Len(procs.input)

Next == Primes \/ PingPong \/ Find \/ xargs \/ (Ended /\ UNCHANGED vars)

\* Every process goes on, and xargs and find come to the end of what they read.
Spec == Init /\ [][Next]_vars /\ WF_vars(Primes) /\ WF_vars(PingPong) /\ WF_vars(xargs)
          /\ WF_vars(program = "find" /\ (search \/ SearchEnd))

-----------------------------------------------------------------------------
IsPrime(n) == n > 1 /\ \A d \in 2 .. n - 1 : n % d # 0

\* The directories on the way from the top to x, x included.
RECURSIVE Path(_)
Path(x) == IF x = Top THEN <<>> ELSE Path(Tree[x]) \o <<x>>

\* The arguments for a line.
RECURSIVE Words(_)
Words(s) ==
  IF " " \notin ToSet(s) THEN <<s>>
  ELSE LET e == CHOOSE e \in DOMAIN s : s[e] = " " /\ \A d \in 1 .. e - 1 : s[d] # " "
       IN <<SubSeq(s, 1, e - 1)>> \o Words(SubSeq(s, e + 1, Len(s)))

\* The lines of an input, without the last one if it does not end.
RECURSIVE Lines(_)
Lines(s) ==
  IF "nl" \notin ToSet(s) THEN <<>>
  ELSE LET e == CHOOSE e \in DOMAIN s : s[e] = "nl" /\ \A d \in 1 .. e - 1 : s[d] # "nl"
       IN <<SubSeq(s, 1, e - 1)>> \o Lines(SubSeq(s, e + 1, Len(s)))

\* What the programs print.  primes: the primes in order, all of them unless a
\* fork fails.  pingpong: each process what the other wrote, ping before pong.
\* find: every file of that name that stays and that it can get to with the
\* descriptors it has, and none twice.  xargs: each line's words, after its own
\* arguments.
Prints ==
  /\ program = "primes" =>
       /\ \A i \in DOMAIN out : IsPrime(out[i]) /\ \A j \in 1 .. i - 1 : out[j] < out[i]
       /\ (\E k \in DOMAIN procs : procs[k].pc = "loop" /\ procs[k].size = 0) =>
            ToSet(out) = {n \in 2 .. LAST : IsPrime(n)}
  /\ program = "pingpong" => IsPrefix(out, <<<<2, 1>>, <<1, 2>>>>)
  /\ program = "find" =>
       /\ Cardinality(ToSet(out)) = Len(out) /\ ToSet(out) \subseteq Wanted
       /\ Ended => {x \in Wanted \cap procs.there : Len(Path(x)) < MaxOpen} \subseteq ToSet(out)
  /\ program = "xargs" =>
       LET lines == Lines(SubSeq(procs.input, 1, procs.read)) IN
       out = [i \in DOMAIN lines |-> Fixed \o Words(lines[i])]

=============================================================================
