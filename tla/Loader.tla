------------------------------- MODULE Loader -------------------------------
(***************************************************************************)
(* loader_init of src/core/loader.c: the parser of elfboot.cfg stores the  *)
(* entries, and the menu shows them and boots one.                         *)
(***************************************************************************)
EXTENDS BootMenuProps, FiniteSets

CONSTANT Configs

VARIABLES config, line, boot_entry, boot_list, fields, freed, nulled, spoiled,
          short

C == INSTANCE BootConfig

parser == <<config, line, boot_entry, boot_list, fields, freed, nulled, spoiled,
            short>>
lvars  == <<mvars, parser>>

(* MaxEntries is a bound on the arrays of the menu.                        *)
ASSUME ConfigsAssumption ==
  /\ Configs \subseteq Seq(C!Kinds)
  /\ \A text \in Configs :
       Cardinality({i \in DOMAIN text : text[i] = "}"}) <= MaxEntries

LoaderInit == C!ParserInit /\ MenuInit

(* loader_parse_entries runs before anything else does.                    *)
ParseEntries ==
  /\ C!Parse
  /\ UNCHANGED <<boot_options, autoboot, boot_timeout, pc, xpos, ypos, todo,
                 column, then, listed, c, screen, counted, typed, reentered>>

(* An allocation of loader_init_boot_entries or of the parser that fails   *)
(* leaves a shorter list, or none.                                         *)
Menu == C!Parsed /\ MenuNext /\ UNCHANGED parser

LoaderNext == ParseEntries \/ Menu

LoaderSpec == LoaderInit /\ [][LoaderNext]_lvars

(* The program runs unless it waits for a key, and the timer interrupts    *)
(* whatever the program does.  No key has to come.                         *)
FairSpec ==
  /\ LoaderSpec
  /\ WF_lvars(ParseEntries)
  /\ WF_lvars(C!Parsed /\ Program /\ UNCHANGED parser)
  /\ WF_lvars(C!Parsed /\ Tick /\ UNCHANGED parser)

-----------------------------------------------------------------------------
(* What elfboot.cfg says, read as a whole.                                 *)

(* The line e closes the block of the title b.                             *)
Closes(b, e) ==
  /\ b < e /\ config[e] = "}"
  /\ \A i \in b + 1 .. e - 1 : config[i] \notin C!Titles \cup {"}"}

Ends(b)  == {e \in DOMAIN config : Closes(b, e)}
Blocks   == {b \in DOMAIN config : config[b] = "bootentry" /\ Ends(b) # {}}
Ordinal(b) == Cardinality({a \in Blocks : a <= b})

(* The last of some lines of the block of b.                               *)
LastLine(b, L) ==
  LET own == {i \in L : \E e \in Ends(b) : b < i /\ i < e}
  IN  CHOOSE i \in own \cup {0} : \A k \in own : k <= i

Lines(kinds) == {i \in DOMAIN config : config[i] \in kinds}

(* A path counts behind a line of its block that names a protocol.         *)
PathLines(b) ==
  Lines({"kernel"}) \cup
  {i \in Lines({"path"}) : \E k \in Lines({"kernel"}) : b < k /\ k < i}

AsWritten(b) ==
  [prot    |-> LastLine(b, Lines({"kernel"})) # 0,
   kernel  |-> LastLine(b, PathLines(b)),
   initrd  |-> LastLine(b, Lines({"initrd"})),
   cmdline |-> LastLine(b, Lines({"cmdline"}))]

(* No title comes while the block of a named one is open.                  *)
AllClosed ==
  \A b, t \in DOMAIN config :
    config[b] = "bootentry" /\ b < t /\ config[t] \in C!Titles =>
      \E e \in b + 1 .. t - 1 : config[e] = "}"

-----------------------------------------------------------------------------
(* Properties *)

(* When memory lasts, the list holds the closed blocks of elfboot.cfg in   *)
(* their order, each with the options of its own block, the last of a kind *)
(* counting, whatever malformed blocks lie between (loader.c:210-253).     *)
EntriesAsWritten ==
  C!Parsed /\ ~ spoiled /\ ~ short =>
    /\ boot_number = Cardinality(Blocks)
    /\ Len(boot_list) = boot_number
    /\ \A b \in Blocks : boot_list[Ordinal(b)] = b /\ fields[b] = AsWritten(b)

(* An entry that is freed was on no list and is not used again, at         *)
(* whatever line memory fails, unless a block is left open: only then does *)
(* loader_free_entry (loader.c:223) run.                                   *)
ClosedBlocksSafe ==
  AllClosed => freed = {} /\ ~ nulled /\ ~ spoiled

(* The parser comes to an end of every text without a comment line.        *)
ParserEnds ==
  (\A i \in DOMAIN config : config[i] # "#") ~> (C!Parsed \/ spoiled)

(* What boots is the block of elfboot.cfg at the place of the highlighted  *)
(* line, through the list, the copy of it to boot_options (loader.c:633)   *)
(* and every move of the selection.                                        *)
BootsWhatIsWritten ==
  pc = "boot" /\ ~ short =>
    \A b \in Blocks :
      Ordinal(b) = boot_choice + 1 =>
        \E k \in DOMAIN boot_list :
          boot_options[boot_choice] = k /\ boot_list[k] = b

(* The parser makes of elfboot.cfg the entries that are written there, and *)
(* uses no entry it has freed unless a block was left open.                *)
ParsedAsWritten == EntriesAsWritten /\ ClosedBlocksSafe

(* The entry that boots is the one written in elfboot.cfg, highlighted and *)
(* confirmed by enter, or the first one at the end of the count.           *)
BootsChosen == MenuTypeOK /\ BootsWhatIsWritten /\ HighlightIsChoice /\ BootIsConfirmed

(* The interrupt and the program never draw at the same time, and what is  *)
(* redrawn after a count covers what was there.                            *)
DrawsInPlace == InterruptDrawsAlone /\ RedrawInPlace

(* The parser and the menu come to an end (loader_init).                   *)
LoaderEnds == ParserEnds /\ MenuEnds
==============================================================================
