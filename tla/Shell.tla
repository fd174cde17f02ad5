------------------------------- MODULE Shell --------------------------------
(***************************************************************************)
(* cli_shell.c: the loop that reads a line, splits it into argv, forks a   *)
(* child that becomes the program named first, and waits.  A word is what  *)
(* strtok finds.  Beside the shell, programs run, stop, go on and end; a   *)
(* fork or an exec may fail.                                               *)
(***************************************************************************)
EXTENDS Integers, Sequences, FiniteSets

CONSTANTS MAX_ARGS,
          CommandLines,       \* sequences of words
          Pids,
          NO_WORD,            \* NULL
          STALE               \* a slot that was never set

ASSUME ShellAssumption == /\ MAX_ARGS \in Nat \ {0}
                          /\ \A line \in CommandLines :
                               /\ line \in Seq({line[w] : w \in DOMAIN line})
                               /\ \A w \in 1 .. Len(line) :
                                    line[w] \notin {NO_WORD, STALE}

VARIABLES argv,
          at,           \* the shell: "prompt", "parsed", "waiting" or "done"
          waited,       \* the pid waitpid waits for
          processes,    \* pid -> [phase, stopped, argv]: the children that are
                        \* not reaped; argv is their copy until they exec
          command,      \* for the properties: the words of the last line,
          left          \* and the children the shell no longer waits for

shellVars == <<argv, at, waited, processes, command, left>>

Places == 0 .. MAX_ARGS - 1
ShellInit == /\ argv = [p \in Places |-> STALE]
             /\ at = "prompt" /\ waited \in Pids
             /\ processes = [p \in {} |-> STALE]
             /\ command = << >> /\ left = {}

EndOfInput == /\ at = "prompt" /\ at' = "done"
              /\ UNCHANGED <<argv, waited, processes, command, left>>

\* Slip: the words are stored, and not the NULL behind the last.
WordsAlone(words) == [p \in Places |-> IF p < Len(words) THEN words[p + 1]
                                       ELSE argv[p]]
\* strtok returns NULL once, when the words are used up, if there is a place.
parse_line(words) == [p \in Places |-> IF p < Len(words) THEN words[p + 1]
                                       ELSE IF p = Len(words) THEN NO_WORD
                                       ELSE argv[p]]

ReadLine(words) ==
  /\ at = "prompt"
  /\ argv' = parse_line(words) /\ command' = words
  /\ at' = IF argv'[0] = NO_WORD THEN "prompt" ELSE "parsed"
  /\ UNCHANGED <<waited, processes, left>>

-----------------------------------------------------------------------------
(* execute                                                                 *)

ForkFails == /\ at = "parsed" /\ at' = "prompt"
             /\ UNCHANGED <<argv, waited, processes, command, left>>

Others(p) == [q \in DOMAIN processes \ {p} |-> processes[q]]
Becomes(p, what) == [q \in DOMAIN processes \cup {p} |->
                       IF q = p THEN what ELSE processes[q]]
Child(ph, s, a) == [phase |-> ph, stopped |-> s, argv |-> a]
NoArgv == << >>

fork == /\ at = "parsed" /\ at' = "waiting"
        /\ \E p \in Pids \ DOMAIN processes :
             /\ waited' = p
             /\ processes' = Becomes(p, Child("child", FALSE, argv))
        /\ UNCHANGED <<argv, command, left>>

\* Slip: waitpid comes back at once.
ReturnAtOnce(p) == TRUE
Ended(p) == processes[p].phase = "zombie"
Reports(p) == Ended(p) \/ processes[p].stopped

\* WUNTRACED: a child that is stopped, not ended, is reported as well.
waitpid ==
  /\ at = "waiting" /\ Reports(waited)
  /\ at' = "prompt"
  /\ processes' = IF Ended(waited) THEN Others(waited) ELSE processes
  /\ left' = IF processes[waited].stopped THEN left \cup {waited} ELSE left
  /\ UNCHANGED <<argv, waited, command>>

ShellStep == \/ EndOfInput \/ \E words \in CommandLines : ReadLine(words)
             \/ ForkFails \/ fork \/ waitpid

-----------------------------------------------------------------------------
(* The children.                                                           *)

Runs(p) == processes[p].phase # "zombie" /\ ~processes[p].stopped
Turns(p, what) == /\ processes' = Becomes(p, what)
                  /\ UNCHANGED <<argv, at, waited, command, left>>

\* execvp, and exit(1) when it comes back
Execute(p) == /\ processes[p].phase = "child" /\ Runs(p)
              /\ \E ph \in {"program", "zombie"} :
                   Turns(p, Child(ph, FALSE, NoArgv))
End(p) == /\ processes[p].phase # "zombie"         \* a kill ends either
          /\ Turns(p, Child("zombie", FALSE, NoArgv))
Stop(p) == Runs(p) /\ Turns(p, [processes[p] EXCEPT !.stopped = TRUE])
Continue(p) == /\ processes[p].stopped
               /\ Turns(p, [processes[p] EXCEPT !.stopped = FALSE])

ChildStep == \E p \in DOMAIN processes :
               Execute(p) \/ End(p) \/ Stop(p) \/ Continue(p)

ShellNext == ShellStep \/ ChildStep
ShellSpec == ShellInit /\ [][ShellNext]_shellVars

-----------------------------------------------------------------------------
ShellTypeOK == /\ at \in {"prompt", "parsed", "waiting", "done"}
               /\ waited \in Pids /\ left \subseteq Pids
               /\ DOMAIN processes \subseteq Pids
               /\ command \in CommandLines \cup {<< >>}

\* The words an exec finds in an argv: those before the first NULL.
ArgsOf(a) == LET ends == {p \in Places : a[p] = NO_WORD}
                 end == CHOOSE p \in ends : \A q \in ends : p <= q
             IN IF ends = {} THEN STALE ELSE [w \in 1 .. end |-> a[w - 1]]

\* While the shell waits for a child that has not become its program yet, the
\* child will run the line the shell last read, word for word.  If the line
\* leaves no place for the NULL, the child's argv still holds the words the
\* line begins with, and nothing of an earlier line.
ArgsAreTheLine ==
  at = "waiting" /\ processes[waited].phase = "child" =>
    LET a == processes[waited].argv
    IN  IF Len(command) < MAX_ARGS THEN ArgsOf(a) = command
        ELSE \A p \in Places : a[p] = command[p + 1]

\* A child stays behind the shell's back only if it was seen stopped: every
\* other one is waited for and reaped before the next prompt.
Reaped == DOMAIN processes \subseteq
            left \cup (IF at = "waiting" THEN {waited} ELSE {})

-----------------------------------------------------------------------------
(* What a comment says and the code does not do.                           *)

\* "the parent blocks until that specific child finishes before returning
\* from execute() and looping back to the prompt" (89-90).
BlocksUntilFinished ==
  [][at = "waiting" /\ at' = "prompt" =>
       processes[waited].phase = "zombie"]_shellVars
=============================================================================
