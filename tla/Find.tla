---------------------------------- MODULE Find --------------------------------
(* src/lab2/lab4_main.c: find, a walk over a tree of directories that writes  *)
(* the paths it meets, or starts a command on those of a given name.          *)
(* system_call returns what the kernel does, so that a failure is -errno and  *)
(* is taken for one only when it is -1.  No directory is ever closed.         *)
EXTENDS Integers, Sequences, FiniteSets, SequencesExt

CONSTANTS Trees,                     \* what may stand below "."
          MaxOpen                    \* directories the kernel lets the process open

(* A tree has its directories from 1, the root, on; an entry is a name and    *)
(* the directory it names, 0 for a file.  A place is a directory and the       *)
(* number of an entry in it.                                                   *)
Places(t) == UNION {{d} \X (DOMAIN t.dirs[d]) : d \in DOMAIN t.dirs}
Names(t) == {t.dirs[e[1]][e[2]].name : e \in Places(t)}
Leads(t, e) == IF t.dirs[e[1]][e[2]].name \in {".", ".."} THEN 0 ELSE t.dirs[e[1]][e[2]].dir

(* Every directory but the root is in one other, and numbered behind it.       *)
(* Some cannot be opened.                                                      *)
IsTree(t) ==
    /\ t.dirs \in Seq(Seq([name : Names(t), dir : 0..Len(t.dirs)])) \ {<<>>}
    /\ t.denied \subseteq DOMAIN t.dirs
    /\ \A e \in Places(t) : Leads(t, e) # 0 => e[1] < Leads(t, e)
    /\ \A d \in DOMAIN t.dirs \ {1} : \E e \in Places(t) : {f \in Places(t) : Leads(t, f) = d} = {e}

ASSUME FindAssumption == MaxOpen \in Nat /\ \A t \in Trees : IsTree(t)

VARIABLES fd_pc, tree,
          mode, file_name,           \* "-n" and "-e" have a name to look for
          frames,                    \* the calls of rec: directory, place in it, output
          opened,                    \* descriptors in use
          reported,                  \* the entries written, or run the command on
          said                       \* "The file ... Does not exist"

findVars == <<fd_pc, tree, mode, file_name, frames, opened, reported, said>>

FindInit ==
    /\ fd_pc = "start" /\ tree = [dirs |-> <<>>, denied |-> {}] /\ mode = "all" /\ file_name = "."
    /\ frames = <<>> /\ opened = 0 /\ reported = <<>> /\ said = FALSE

OpensDir(t, d) == d \notin t.denied /\ opened < MaxOpen

(* SYS_OPEN and the call of rec.  On a directory that does not open SYS_GETDENTS *)
(* fails for ever: neither -1 nor 0 is returned, and the loop goes on.         *)
rec(t, d, calls) ==
    IF OpensDir(t, d)
    THEN /\ frames' = Append(calls, [dir |-> d, pos |-> 1, output |-> 0])
         /\ opened' = opened + 1
         /\ fd_pc' = "walking"
    ELSE frames' = calls /\ fd_pc' = "spinning" /\ UNCHANGED opened

start_find ==
    /\ fd_pc = "start"
    /\ tree' \in Trees
    /\ mode' \in {"all", "-n", "-e"}
    /\ file_name' \in {"other"} \cup Names(tree')
    /\ rec(tree', 1, <<>>)
    /\ UNCHANGED <<reported, said>>

Here == Last(frames)
Entry == tree.dirs[Here.dir][Here.pos]
Matches(name) == mode = "all" \/ name = file_name

(* Mutants: only directories of the name looked for are entered; the current  *)
(* and the parent directory are entered too.                                   *)
Descends_named == Entry.name \notin {".", ".."} /\ Entry.dir # 0 /\ Matches(Entry.name)
Descends_dots == Entry.dir # 0

Descends == Entry.name \notin {".", ".."} /\ Entry.dir # 0

(* One entry: its path, or the command, then what is below it. *)
next_entry ==
    LET found == Entry.name \notin {".", ".."} /\ Matches(Entry.name)
        output == IF found /\ mode = "-e" THEN 1 ELSE Here.output
        moved == [frames EXCEPT ![Len(frames)].pos = @ + 1, ![Len(frames)].output = output]
    IN
    /\ fd_pc = "walking" /\ Here.pos <= Len(tree.dirs[Here.dir])
    /\ reported' = IF found THEN Append(reported, <<Here.dir, Here.pos>>) ELSE reported
    /\ IF Descends
       THEN rec(tree, Entry.dir, moved)
       ELSE frames' = moved /\ UNCHANGED <<fd_pc, opened>>
    /\ UNCHANGED <<tree, mode, file_name, said>>

(* Mutant: what a directory returns is dropped. *)
return_from_rec_dropping ==
    /\ fd_pc = "walking" /\ Here.pos > Len(tree.dirs[Here.dir])
    /\ IF Len(frames) > 1
       THEN /\ frames' = Front(frames)
            /\ UNCHANGED <<fd_pc, said>>
       ELSE /\ frames' = <<>> /\ fd_pc' = "ended"
            /\ said' = (mode = "-e" /\ Here.output = 0)
    /\ UNCHANGED <<tree, mode, file_name, opened, reported>>

(* The end of a directory: the caller's output becomes that of the directory; *)
(* main, after the whole walk, says when the output is 0.                      *)
return_from_rec ==
    /\ fd_pc = "walking" /\ Here.pos > Len(tree.dirs[Here.dir])
    /\ IF Len(frames) > 1
       THEN /\ frames' = [Front(frames) EXCEPT ![Len(frames) - 1].output = Here.output]
            /\ UNCHANGED <<fd_pc, said>>
       ELSE /\ frames' = <<>> /\ fd_pc' = "ended"
            /\ said' = (mode = "-e" /\ Here.output = 0)
    /\ UNCHANGED <<tree, mode, file_name, opened, reported>>

FindNext == start_find \/ next_entry \/ return_from_rec

-----------------------------------------------------------------------------
Entries == Places(tree)
Name(e) == tree.dirs[e[1]][e[2]].name
Below(e) == Leads(tree, e)

(* rec (lab4_main.c): when the walk ends, every entry of every directory that *)
(* matches has been reported, once, and each behind the entry of the          *)
(* directory it is in and behind the entries before it.                        *)
EveryEntryOnce ==
    /\ IsInjective(reported)
    /\ fd_pc = "ended" =>
        /\ Range(reported) = {e \in Entries : Name(e) \notin {".", ".."} /\ Matches(Name(e))}
        /\ \A i, j \in DOMAIN reported :
               \/ reported[i][1] = reported[j][1] /\ reported[i][2] < reported[j][2]
               \/ Below(reported[i]) = reported[j][1]
               => i < j

Subs(d) == {p \in DOMAIN tree.dirs[d] : Below(<<d, p>>) # 0}

(* The walk leaves from the root by the last subdirectory of each directory.  *)
WithLast(X) ==
    \A d \in X : \A p \in Subs(d) : (\A q \in Subs(d) : q <= p) => Below(<<d, p>>) \in X

LastDirs ==
    {d \in DOMAIN tree.dirs : \A X \in SUBSET DOMAIN tree.dirs : 1 \in X /\ WithLast(X) => d \in X}

(* rec (lab4_main.c:77): what a directory returns replaces what was found     *)
(* before it.  The file is said not to exist when no directory has it, but    *)
(* also when nothing matched after the last subdirectory of any directory     *)
(* on the way by last subdirectories: a command may have been run all the same. *)
MissingIsSaid ==
    fd_pc = "ended" =>
        (said <=> /\ mode = "-e"
                  /\ \A d \in LastDirs : \A p \in DOMAIN tree.dirs[d] :
                        (Name(<<d, p>>) = file_name /\ Name(<<d, p>>) \notin {".", ".."}) =>
                            \E q \in Subs(d) : q >= p)

(* main (lab4_main.c): the walk ends when every directory can be opened and   *)
(* there are descriptors for all of them at a time, since none is given back; *)
(* otherwise it stops at one it cannot open and calls SYS_GETDENTS for ever.  *)
FindEnds ==
    fd_pc = "walking" ~>
        fd_pc = IF tree.denied = {} /\ Len(tree.dirs) <= MaxOpen THEN "ended" ELSE "spinning"
===============================================================================
