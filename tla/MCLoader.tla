------------------------------ MODULE MCLoader ------------------------------
(* A count of two seconds of two ticks; columns as the logo of 52 and the  *)
(* message of 48 characters give them.                                     *)
EXTENDS Loader, SequencesExt

K == {"bootentry", "unnamed", "kernel", "path", "}"}

(* Three entries; options that come twice, too early or outside a block;   *)
(* a block without a name, one never closed, comments; all short texts.    *)
MCConfigs ==
  { <<"bootentry", "kernel", "initrd", "cmdline", "}", "bootentry", "kernel", "}",
      "bootentry", "kernel", "}">>,
    <<"kernel", "bootentry", "path", "kernel", "path", "initrd", "initrd", "}",
      "unnamed", "kernel", "}", "bootentry", "unknown", "cmdline", "text", "}">>,
    <<"bootentry", "}", "bootentry", "kernel", "bootentry", "cmdline", "}">>,
    <<"bootentry", "kernel", "unnamed", "initrd", "}">>,
    <<"bootentry", "}", "#", "bootentry", "}">> }
  \cup (BoundedSeq(K, 4) \ {<<"}", "}", "}", "}">>})

OneEntry == { <<"bootentry", "kernel", "}">>, <<"bootentry", "}", "bootentry", "}">> }
==============================================================================
