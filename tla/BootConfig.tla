----------------------------- MODULE BootConfig -----------------------------
(***************************************************************************)
(* The parser of elfboot.cfg in src/core/loader.c: one step for each line, *)
(* with the entry the lines are about in boot_entry.                       *)
(*                                                                         *)
(* A line is its kind, an entry the number of its bootentry line, and the  *)
(* text of an option the number of the line it was copied from.  Nobody    *)
(* writes the byte that ends the text (loader.c:257-262): where it is not  *)
(* zero the lines go on with what the memory holds, a longer text.         *)
(* Allocations may fail.                                                   *)
(***************************************************************************)
EXTENDS Integers, Sequences

CONSTANTS
  Configs       (* the texts of elfboot.cfg, as sequences of kinds          *)

Titles  == {"bootentry", "unnamed"}   \* unnamed: without a name in quotes
Options == {"kernel", "path", "initrd", "cmdline", "unknown"}
                                      \* path: a kernel without a protocol
Kinds   == Titles \cup Options \cup {"}", "#", "text"}

NoEntry == 0                          \* a null boot_entry

VARIABLES
  config,        (* the text                                                *)
  line,          (* the line the parser is at                               *)
  boot_entry,
  boot_list,     (* the entries stored, in order                            *)
  boot_number, boot_choice,
  fields,        (* the members of the entry made at a line                 *)
  freed,         (* history: the entries freed                              *)
  nulled,        (* history: an entry on no list was unlinked               *)
  spoiled,       (* history: a freed entry was used                         *)
  short          (* history: an allocation failed                           *)

pvars == <<config, line, boot_entry, boot_list, boot_number, boot_choice,
           fields, freed, nulled, spoiled, short>>

Empty == [prot |-> FALSE, kernel |-> 0, initrd |-> 0, cmdline |-> 0]

ParserInit ==
  /\ config \in Configs
  /\ line = 1
  /\ boot_entry = NoEntry
  /\ boot_list = <<>> /\ boot_number = 0 /\ boot_choice = 0
  /\ fields = [i \in DOMAIN config |-> Empty]
  /\ freed = {} /\ nulled = FALSE /\ spoiled = FALSE /\ short = FALSE

Parsed == line > Len(config)
Kind   == config[line]

(* The parser stops for the model where it uses an entry it has freed.     *)
At(kinds) == ~ Parsed /\ ~ spoiled /\ Kind \in kinds
Usable    == boot_entry \notin freed

UseFreed ==
  /\ At(Titles \cup Options \cup {"}"}) /\ ~ Usable
  /\ spoiled' = TRUE
  /\ UNCHANGED <<config, line, boot_entry, boot_list, boot_number, boot_choice,
                 fields, freed, nulled, short>>

(* A comment line: continue, without a next line.                          *)
Comment == At({"#"}) /\ UNCHANGED pvars

(* Mutant: an option without an entry holds the parser up.                 *)
SkipTextOnly ==
  /\ At({"text"})
  /\ line' = line + 1
  /\ UNCHANGED <<config, boot_entry, boot_list, boot_number, boot_choice,
                 fields, freed, nulled, spoiled, short>>

(* A line of no known kind, or one of an entry where there is none.        *)
Skip ==
  /\ At({"text"}) \/ (At(Options \cup {"}"}) /\ boot_entry = NoEntry)
  /\ line' = line + 1
  /\ UNCHANGED <<config, boot_entry, boot_list, boot_number, boot_choice,
                 fields, freed, nulled, spoiled, short>>

(* A bootentry line frees an entry left open; when there is no name, or no *)
(* memory for it, boot_entry stays as it was.                              *)
Title ==
  /\ At(Titles) /\ Usable
  /\ freed' = freed \cup ({boot_entry} \ {NoEntry})
  /\ nulled' = (nulled \/ boot_entry # NoEntry)
  /\ \/ /\ Kind = "bootentry"                            \* loader_create_entry
        /\ boot_entry' = line
        /\ short' = short
     \/ /\ boot_entry' = NoEntry                         \* which fails
        /\ Kind = "bootentry"
        /\ short' = TRUE
     \/ /\ boot_entry' = boot_entry                      \* loader_parse_name
        /\ short' = (short \/ Kind = "bootentry")
  /\ line' = line + 1
  /\ UNCHANGED <<config, boot_list, boot_number, boot_choice, fields, spoiled>>

(* loader_parse_kernel, loader_parse_initrd, loader_parse_cmdline          *)
Set(kind, entry) ==
  CASE kind = "kernel"  -> [entry EXCEPT !.prot = TRUE, !.kernel = line]
    [] kind = "path"    -> [entry EXCEPT !.kernel = IF entry.prot THEN line ELSE @]
    [] kind = "initrd"  -> [entry EXCEPT !.initrd = line]
    [] kind = "cmdline" -> [entry EXCEPT !.cmdline = line]
    [] OTHER            -> entry

(* bstrdup fails and leaves a null pointer, after the protocol is set.     *)
SetFails(kind, entry) ==
  CASE kind = "kernel"             -> [entry EXCEPT !.prot = TRUE, !.kernel = 0]
    [] kind = "path" /\ entry.prot -> [entry EXCEPT !.kernel = 0]
    [] kind = "initrd"             -> [entry EXCEPT !.initrd = 0]
    [] kind = "cmdline"            -> [entry EXCEPT !.cmdline = 0]
    [] OTHER                       -> entry

Option ==
  /\ At(Options) /\ boot_entry # NoEntry /\ Usable
  /\ \/ /\ fields' = [fields EXCEPT ![boot_entry] = Set(Kind, @)]
        /\ short' = short
     \/ /\ fields' = [fields EXCEPT ![boot_entry] = SetFails(Kind, @)]
        /\ short' = TRUE
  /\ line' = line + 1
  /\ UNCHANGED <<config, boot_entry, boot_list, boot_number, boot_choice, freed,
                 nulled, spoiled>>

(* Mutant: the entry stored stays the one the lines are about.             *)
StillOpen == boot_entry
NoneOpen  == NoEntry

(* loader_store_entry                                                      *)
Close ==
  /\ At({"}"}) /\ boot_entry # NoEntry /\ Usable
  /\ boot_list' = Append(boot_list, boot_entry)
  /\ boot_number' = boot_number + 1
  /\ boot_choice' = boot_choice + 1
  /\ boot_entry' = NoneOpen
  /\ line' = line + 1
  /\ UNCHANGED <<config, fields, freed, nulled, spoiled, short>>

Parse == UseFreed \/ Comment \/ Skip \/ Title \/ Option \/ Close
==============================================================================
