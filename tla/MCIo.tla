-------------------------------- MODULE MCIo --------------------------------
(***************************************************************************)
(* Two parts of the kernel that share no state: the blocks of files and    *)
(* the console's input.  A behaviour exercises one of them; the other      *)
(* stays as it was initialised.                                            *)
(***************************************************************************)
EXTENDS FileBlocks, Console

VARIABLE part

iovars == <<part, fbvars, convars>>

MCImages == {<< <<1, 1>> >>, << <<1, 1>>, <<2, 2>>, <<1, 2>> >>,
             << <<1, 1>>, <<2, 2>>, <<2, 2>>, <<2, 1>> >>}

IoInit ==
    /\ part \in {"files", "console"}
    /\ FbInit /\ ConInit
    /\ part # "files" => disk = mkfs(<< <<1, 1>> >>)
    /\ part = "files" => ncpu = 1

IoNext ==
    \/ part = "files" /\ FbNext /\ UNCHANGED <<part, convars>>
    \/ part = "console" /\ ConNext /\ UNCHANGED <<part, fbvars>>

IoSpec == IoInit /\ [][IoNext]_iovars
=============================================================================
