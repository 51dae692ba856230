-------------------------------- MODULE MCData --------------------------------
(***************************************************************************)
(* The local database and what stands around it (MCAppStore), and an alias *)
(* of ~/.ssh/config (SshConfig), each on its own bounds: `sheet` says      *)
(* whether this behaviour is about the alias or is one of MCAppStore; the  *)
(* other stays at one of its initial states.                               *)
(***************************************************************************)
EXTENDS MCAppStore

VARIABLES
    sheet,
    shHome, shLines, shSaid, shFiles, shLoad, shWalk, shMatch, shOdd, shFlags, shDue, shCalled,
    shResolved

shVars == <<shHome, shLines, shSaid, shFiles, shLoad, shWalk, shMatch, shOdd, shFlags, shDue,
            shCalled, shResolved>>

Sh == INSTANCE SshConfig WITH
    MaxLines <- 6, MaxSaid <- 2, MaxDepth <- 2, MaxFiles <- 3,
    home <- shHome, lines <- shLines, said <- shSaid, files <- shFiles, load <- shLoad,
    walk <- shWalk, match <- shMatch, odd <- shOdd, flags <- shFlags, due <- shDue,
    called <- shCalled, resolved <- shResolved

-----------------------------------------------------------------------------

DataInit ==
    /\ sheet \in {"none", "alias"}
    /\ (sheet # "none" => part = "store" /\ table = "saved_query") /\ AppInit
    /\ (sheet # "alias" => shHome = TRUE) /\ Sh!Init

AppStep == sheet = "none" /\ AppNext /\ UNCHANGED <<sheet, shVars>>
AliasStep == sheet = "alias" /\ Sh!Next /\ UNCHANGED <<sheet, AppVars>>

DataNext == AppStep \/ AliasStep

DataSpec == DataInit /\ [][DataNext]_<<sheet, AppVars, shVars>>

-----------------------------------------------------------------------------

\* An alias resolves exactly when nothing that ssh would obey for it is passed over, and then to
\* what ssh would use: the first value in force wins, wherever Includes nest in blocks that do or do
\* not apply (ssh_config.rs, "never a silent skip").
AliasTrue == sheet = "alias" => Sh!AliasTrue
=============================================================================
