---------------------------- MODULE MCBootModules ----------------------------
(***************************************************************************)
(* A map with a name that occurs twice and one that is hidden, and text in *)
(* memory with a name of the map and one of its own; modules with every    *)
(* kind of section, symbol and relocation, and kernels of both protocols,  *)
(* good and bad.                                                           *)
(***************************************************************************)
EXTENDS BootModules

Line(name, addr) == [name |-> name, addr |-> addr]
MCMapLines == <<Line("bmalloc", 1), Line("_end", 2), Line("outb", 3), Line("outb", 4)>>
MCHidden == {"_end"}
MCLeftovers == {<<>>, <<Line("outb", 9), Line("gone", 8)>>}

Sec(kind) == [kind |-> kind, info |-> 0, rels |-> <<>>]
RelSec(info, rels) == [kind |-> "rel", info |-> info, rels |-> rels]
Rel(offset, sym, kind) == [offset |-> offset, sym |-> sym, kind |-> kind]
Sym(name, sec) == [name |-> name, sec |-> sec]

(* .text, .rel.text, .bss and two tables; the table of symbols has a       *)
(* number of local symbols in sh_info that is no section.                  *)
Driver(kinds) ==
  [tables |-> TRUE,
   secs |-> <<Sec("bits"),
              RelSec(1, [k \in DOMAIN kinds |-> Rel(k, k, kinds[k])]),
              Sec("nobits"), [Sec("bits") EXCEPT !.info = 9], Sec("nobits")>>,
   syms |-> <<Sym("state", 3), Sym("outb", SHN_UNDEF), Sym("init_module", 1),
              Sym("exit_module", 1), Sym("file.c", SHN_ABS)>>]

Plain == Driver(<<"R_386_32", "R_386_PC32">>)
Odd   == Driver(<<"R_386_32", "R_386_GOT32", "R_386_32">>)
NoSym == [Plain EXCEPT !.syms[2] = Sym("_end", SHN_UNDEF)]
Gone  == [Plain EXCEPT !.syms[2] = Sym("gone", SHN_UNDEF)]
NoIni == [Plain EXCEPT !.syms[3] = Sym("setup", 1)]
Bare  == [Plain EXCEPT !.tables = FALSE]

Names == {"tty", "pit", "kbd", "lxboot", "mboot1"}
Disc(name, object) == [n \in Names |-> IF n = name THEN object ELSE Plain]
MCDiscs ==
  {Disc("tty", Plain), Disc("pit", Odd), Disc("kbd", NoSym), Disc("kbd", Gone), Disc("pit", NoIni),
   Disc("kbd", Bare)}

MCWanted == <<"tty", "pit", "kbd">>
MCLoaderModules == <<"mboot1", "mboot2", "lxboot">>

Head_(version, setup) == [magic |-> TRUE, version |-> version, high |-> TRUE, setup |-> setup]
Linux(head, length, initrd) ==
  [prot |-> 3, head |-> head, length |-> length, initrd |-> initrd, magics |-> {}, headers |-> {}]
Multi(prot, magics, headers) ==
  [prot |-> prot, head |-> NoHeader, length |-> 4, initrd |-> 0, magics |-> magics,
   headers |-> headers]

MCKernels ==
  {Linux(Head_(2, 1), 4, 1), Linux(Head_(2, 0), 9, 2), Linux(Head_(1, 1), 4, 1),
   Linux(Head_(2, 1), 4, 0), Linux(NoHeader, 4, 1),
   Multi(1, {1, 2}, {1, 3}), Multi(1, {0, 1}, {1}), Multi(2, {}, {}), Multi(0, {}, {})}

MCSigns == {NoHeader, Head_(2, 2)}
MCHeaps == <<3, 5>>
==============================================================================
