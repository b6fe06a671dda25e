--------------------------------- MODULE MCTools ------------------------------
(* Trees of up to three directories, the last with one that does not open,    *)
(* two short files, lines of up to five characters.                            *)
EXTENDS Tools

File(name) == [name |-> name, dir |-> 0]
Dir(name, d) == [name |-> name, dir |-> d]

MCTrees == {
    [dirs |-> << <<Dir(".", 1), File("f"), Dir("d", 2), Dir("..", 1)>>, <<File("g"), Dir("..", 1)>> >>,
     denied |-> {}],
    [dirs |-> << <<Dir("d", 2), File("f"), Dir("e", 3)>>, <<File("f")>>, <<File("g")>> >>,
     denied |-> {}],
    [dirs |-> << <<Dir("f", 2), File("g")>>, <<Dir("f", 3)>>, <<File("f"), File("g")>> >>,
     denied |-> {}],
    [dirs |-> << <<File("f"), Dir("d", 2)>>, <<Dir("d", 3)>>, <<Dir("d", 4)>>, <<File("f")>> >>,
     denied |-> {}],
    [dirs |-> << <<File("f"), Dir("d", 2), File("g")>>, <<File("f")>> >>, denied |-> {2}]}

MCArgvs == {<<>>, <<"-l", "-w">>, <<"-c", "-n">>, <<"-i", "-w", "-l">>, <<"-w", "-i">>,
            <<"-i", "missing", "-n">>, <<"-i", "-i", "-n">>}

MCDisk == [a |-> <<"a1", "a2", "a3">>, b |-> <<"b1">>]
===============================================================================
