--------------------------------- MODULE HexEdit ------------------------------
(* src/lab10/hexeditplus.c: a menu of operations on the bytes of files.  A    *)
(* byte is a value that tells where it came from: a byte of a file, the i-th  *)
(* byte of a number that was typed, "zero" in a hole, "garbage" in memory     *)
(* nobody has written.  No scanf is looked at: what it does not read keeps    *)
(* the value it had.                                                           *)
EXTENDS Integers, Sequences, FiniteSets, FiniteSetsExt, SequencesExt

CONSTANTS Disk,                      \* the files at the start, as sequences of bytes
          MaxChoices,                \* bound: operations chosen
          MaxLocation,               \* bound: locations typed
          MaxLength,                 \* bound: lengths typed
          MaxDescriptors             \* files the process may have open

ASSUME HexEditAssumption ==
    /\ {MaxChoices, MaxLocation, MaxLength, MaxDescriptors} \subseteq Nat
    /\ Disk \in [DOMAIN Disk -> Seq(UNION {Range(Disk[name]) : name \in DOMAIN Disk})]

VARIABLES he_pc, choices,
          choice,                    \* of the menu; 0 for every number it does not have
          input,                     \* what scanf meets: "fine", "word" or "end"
          disk,                      \* the files
          fileName, unitSize,
          descriptors,               \* files open
          asked,                     \* what the last operation was given
          display                    \* the units written by the last file_display

hexVars == <<he_pc, choices, choice, input, disk, fileName, unitSize, descriptors, asked, display>>

Files == DOMAIN Disk
Nothing == [op |-> "none", source |-> "none", from |-> 0, to |-> 0, length |-> 0]

HexEditInit ==
    /\ he_pc = "menu" /\ choices = 0 /\ choice = 0 /\ input = "fine" /\ disk = Disk
    /\ fileName = "none"             \* malloc'ed, not written: the name of no file
    /\ unitSize = 0 /\ descriptors = 0
    /\ asked = Nothing /\ display = <<>>

(* What the input may be after a scanf that asks for numbers.  All of them    *)
(* were read when it is fine; a word that is no number stays, for the next    *)
(* scanf to stumble over, and at the end nothing is read any more.            *)
InputKinds == {"fine", "word", "end"}
InputAfter(now) == IF now = "fine" THEN InputKinds ELSE {now}

(* main calls through its table whatever the choice is; when none could be    *)
(* read it is the last one again.  now is the input the operation meets.      *)
choose(n, now) ==
    /\ he_pc = "menu" /\ choices < MaxChoices
    /\ now \in InputAfter(input)
    /\ now # "fine" => n = choice
    /\ choices' = choices + 1 /\ choice' = n

quit ==
    /\ choose(6, "fine") /\ input' = "fine"
    /\ he_pc' = "ended"
    /\ UNCHANGED <<disk, fileName, unitSize, descriptors, asked, display>>

(* The table's entry for 0, the choice before any was read, is a null pointer.*)
no_such_choice ==
    /\ \E now \in InputKinds : choose(0, now) /\ input' = now
    /\ he_pc' = "undefined"
    /\ UNCHANGED <<disk, fileName, unitSize, descriptors, asked, display>>

(* Any word will do for a name, the one that was no number included; at the   *)
(* end of the input the name stays.                                            *)
set_file_name ==
    /\ \E now \in InputKinds :
           /\ choose(1, now)
           /\ \/ now # "end" /\ input' = "fine" /\ fileName' \in Files \cup {"missing"}
              \/ now # "word" /\ input' = "end" /\ UNCHANGED fileName
    /\ UNCHANGED <<he_pc, disk, unitSize, descriptors, asked, display>>

(* The message asks for 1, 2 or 4; all of 1 to 5 are taken.  temp is what was *)
(* typed or, when nothing could be read, what was in the memory.              *)
set_unit_size ==
    /\ \E now \in InputKinds : choose(2, now) /\ input' \in InputAfter(now)
    /\ \E temp \in 0..6 : unitSize' = IF temp > 5 \/ temp < 1 THEN unitSize ELSE temp
    /\ UNCHANGED <<he_pc, disk, fileName, descriptors, asked, display>>

Opens(name, held) == name \in Files /\ held < MaxDescriptors

(* read and write at a place of a file; -1 stands for a location that lseek   *)
(* refuses.                                                                    *)
ReadAt(content, location, n) ==
    SubSeq(content, location + 1, Min({Len(content), location + n}))

WrittenAt(content, location, bytes) ==
    IF bytes = <<>> THEN content
    ELSE [i \in 1..Max({Len(content), location + Len(bytes)}) |->
            IF i \in (location + 1)..(location + Len(bytes)) THEN bytes[i - location]
            ELSE IF i <= Len(content) THEN content[i] ELSE "zero"]

Locations == -1..MaxLocation

(* Mutant: length counts bytes. *)
Units_of_bytes(read, length) ==
    LET width == IF unitSize \in {1, 2} THEN unitSize ELSE 4
        kept == SubSeq(read, 1, Min({Len(read), length}))
    IN  [u \in 1..length |->
           [i \in 1..width |->
              LET at == (u - 1) * unitSize + i
              IN  IF at <= Len(kept) THEN kept[at] ELSE "garbage"]]

(* The units on the screen: of 1 and 2 bytes, or of 4 bytes for every other   *)
(* size, taken every unitSize bytes from what was read; beyond that stands    *)
(* what was in the memory.                                                     *)
Units(read, length) ==
    LET width == IF unitSize \in {1, 2} THEN unitSize ELSE 4
    IN  [u \in 1..length |->
           [i \in 1..width |->
              LET at == (u - 1) * unitSize + i
              IN  IF at <= Len(read) THEN read[at] ELSE "garbage"]]

(* lseek is not looked at here: a location it refuses leaves the file at 0.   *)
(* With no unit size nothing is read and nothing is shown.  A length that     *)
(* could not be read may be anything, more than there is memory for as well.  *)
file_display ==
    /\ \E now \in InputKinds :
           /\ choose(3, now)
           /\ input' \in (IF Opens(fileName, descriptors) THEN InputAfter(now) ELSE {now})
    /\ IF Opens(fileName, descriptors)
       THEN \/ /\ he_pc' = he_pc
               /\ \E location \in Locations, length \in 0..MaxLength :
                      LET at == IF location = -1 THEN 0 ELSE location
                      IN  IF unitSize = 0
                          THEN /\ display' = <<>>
                               /\ asked' = [Nothing EXCEPT !.op = "display"]
                          ELSE /\ display' = Units(ReadAt(disk[fileName], at, unitSize * length),
                                                   length)
                               /\ asked' = [op |-> "display", source |-> fileName, from |-> at,
                                            to |-> 0, length |-> length]
            \/ /\ input' # "fine" /\ unitSize # 0 /\ he_pc' = "undefined"
               /\ UNCHANGED <<display, asked>>
       ELSE UNCHANGED <<he_pc, display, asked>>
    /\ UNCHANGED <<disk, fileName, unitSize, descriptors>>

(* The bytes of val; a unit of five takes one that is behind it. *)
Val == <<"val1", "val2", "val3", "val4", "garbage">>

(* What is written of it: what was in the memory when it could not be read. *)
ValRead(read) == IF read THEN Val ELSE [i \in 1..5 |-> "garbage"]

(* The location and the number are read first; a location that could not be   *)
(* read is whatever was in the memory.  One that is refused leaves the file   *)
(* open.                                                                       *)
file_modify ==
    /\ \E now \in InputKinds : choose(4, now) /\ input' \in InputAfter(now)
    /\ \E location \in Locations :
           IF unitSize = 0 \/ ~ Opens(fileName, descriptors)
           THEN asked' = Nothing /\ UNCHANGED <<disk, descriptors>>
           ELSE IF location = -1
           THEN /\ descriptors' = descriptors + 1
                /\ asked' = Nothing /\ UNCHANGED disk
           ELSE /\ disk' = [disk EXCEPT ![fileName] =
                              WrittenAt(@, location, SubSeq(ValRead(input' = "fine"), 1, unitSize))]
                /\ asked' = [op |-> "modify", source |-> "none", from |-> 0, to |-> location,
                             length |-> unitSize]
                /\ UNCHANGED descriptors
    /\ UNCHANGED <<he_pc, fileName, unitSize, display>>

(* What the box holds after length bytes of the source were read into it. *)
Box(source, from, length) ==
    LET read == ReadAt(disk[source], from, length)
    IN  [i \in 1..length |-> IF i <= Len(read) THEN read[i] ELSE "garbage"]

(* Mutant: the place in the source is used for the destination too. *)
copy_to_source_offset(source, from, to, length) ==
    /\ disk' = [disk EXCEPT ![fileName] = WrittenAt(@, from, Box(source, from, length))]
    /\ asked' = [op |-> "copy", source |-> source, from |-> from, to |-> to, length |-> length]
    /\ UNCHANGED <<he_pc, descriptors>>

(* The write takes all of length from the box, however little was read. *)
copy(source, from, to, length) ==
    /\ disk' = [disk EXCEPT ![fileName] = WrittenAt(@, to, Box(source, from, length))]
    /\ asked' = [op |-> "copy", source |-> source, from |-> from, to |-> to, length |-> length]
    /\ UNCHANGED <<he_pc, descriptors>>

(* The box is made before length is read: its size is whatever the memory     *)
(* held.  It is too small, or missing (no file is written but for a copy of   *)
(* nothing), or large enough.  What an early return has opened stays open.    *)
(* The name takes any word; the name, the places and the length that could    *)
(* not be read are whatever was in the memory.                                 *)
file_copy ==
    /\ \E now \in InputKinds :
           choose(5, now) /\ input' \in (IF now = "end" THEN {"end"} ELSE InputKinds)
    /\ \E source \in Files \cup {"missing"}, from, to \in Locations, length \in 0..MaxLength :
           LET src == Opens(source, descriptors)
               held == descriptors + (IF src THEN 1 ELSE 0)
               dest == Opens(fileName, held)
               fails(n) == asked' = Nothing /\ descriptors' = n /\ UNCHANGED <<he_pc, disk>>
           IN
           \/ ~ (src /\ dest) /\ fails(held + (IF dest THEN 1 ELSE 0))
           \/ src /\ dest /\ (from = -1 \/ to = -1) /\ fails(held + 1)
           \/ src /\ dest /\ from # -1 /\ to # -1 /\ copy(source, from, to, length)
           \/ src /\ dest /\ from # -1 /\ to # -1 /\ length > 0 /\ fails(held + 1)
           \/ /\ src /\ dest /\ from # -1 /\ to # -1 /\ length > 0
              /\ he_pc' = "undefined"
              /\ asked' = Nothing /\ UNCHANGED <<disk, descriptors>>
    /\ UNCHANGED <<fileName, unitSize, display>>

HexEditNext ==
    \/ quit \/ no_such_choice \/ set_file_name \/ set_unit_size
    \/ file_display \/ file_modify \/ file_copy

-----------------------------------------------------------------------------
(* Byte i of a file before the step. *)
Was(name, i) == IF i <= Len(disk[name]) THEN disk[name][i] ELSE "zero"

(* file_modify and file_copy (hexeditplus.c): only the named file changes, it *)
(* never gets shorter, and only in the bytes from the location the operation  *)
(* used on (the one typed, or what the memory held when none could be read);  *)
(* what comes from another file is the byte at the same distance in the       *)
(* source.  Memory nobody wrote reaches a file behind the end of the source,  *)
(* as the fifth byte of a unit, and as the number when not all was read that  *)
(* file_modify asked for.  An operation that reports an error changes nothing.*)
WritesWhatWasAsked ==
    [][\A name \in Files :
          /\ Len(disk'[name]) >= Len(disk[name])
          /\ \A i \in DOMAIN disk'[name] :
                 LET place == i - asked'.to          \* in what was asked for
                 IN  \/ disk'[name][i] = Was(name, i)
                     \/ /\ name = fileName /\ place \in 1..asked'.length
                        /\ asked'.op = "copy" =>
                               disk'[name][i] =
                                   IF asked'.from + place <= Len(disk[asked'.source])
                                   THEN disk[asked'.source][asked'.from + place] ELSE "garbage"
                        /\ asked'.op = "modify" =>
                               disk'[name][i] =
                                   IF input' = "fine" THEN Val[place] ELSE "garbage"
                        /\ asked'.op \in {"copy", "modify"}]_hexVars

(* file_display (hexeditplus.c): with a unit of 1, 2 or 4 bytes what is shown *)
(* is the file from the location used on, in order and without gaps, and      *)
(* memory nobody wrote only behind its end.                                    *)
ShownAsOnDisk ==
    [][LET width == unitSize
           shown(n) == display'[((n - 1) \div width) + 1][((n - 1) % width) + 1]
       IN  (asked'.op = "display" /\ display' # display /\ width \in {1, 2, 4}) =>
               \A n \in 1..(width * asked'.length) :
                   shown(n) = IF asked'.from + n <= Len(disk[asked'.source])
                              THEN disk[asked'.source][asked'.from + n] ELSE "garbage"]_hexVars
===============================================================================
