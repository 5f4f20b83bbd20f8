------------------------------- MODULE Startup -------------------------------
(***************************************************************************)
(* main before the accept loop: SetServerStartupParams, SetupServer with   *)
(* LaunchTlsSocket, and the two ways out when one of them fails            *)
(* (src/src/main.c, src/src/networking.c, src/src/tls_adapter.c).          *)
(*                                                                         *)
(* default.conf is read by getline into a buffer as large as the file, and *)
(* strtok_r moves the pointer that the next getline is given: every line   *)
(* is written behind the part of the last one that was consumed.  Bytes    *)
(* are counted: a line is its length and what the loop finds in it.  The   *)
(* values of port and host are assumed to fit their arrays.                *)
(***************************************************************************)
EXTENDS Naturals, FiniteSets

CONSTANTS ConfSizes,  \* lengths default.conf may have
          KeyLine     \* length of the shortest line with a key and a value

ASSUME StartupAssumption ==
    /\ ConfSizes \subseteq Nat
    /\ KeyLine \in Nat \ {0}

\* The seven keys of default.conf; integrity_test has a bit for each.
Keys == {"port:", "host:", "backlog:", "default_document:", "root_folder:",
         "crt_file_path:", "pkey_file_path:"}

\* The calls of LaunchTlsSocket that can fail: the seed, the certificate, the
\* key, the pair of both, the defaults of the configuration and the bind.
LAUNCH_STEPS == 6

VARIABLES
    pc,         \* where main is
    conf_size,  \* what ftell reported of default.conf
    unread,     \* bytes of it not read yet
    allocation, \* bytes of the buffer conf points into
    size,       \* what getline believes the buffer at conf to hold
    conf,       \* the distance of conf from the start of the buffer
    line,       \* length of the line getline has just read
    seg_start,  \* "null", "live", "stale" once getline moved the buffer, "freed"
    params,     \* keys that were found
    launched,   \* steps of LaunchTlsSocket that succeeded
    crash       \* what ended the process

buffer == <<allocation, size, conf, seg_start>>
vars   == <<pc, conf_size, unread, buffer, line, params, launched, crash>>

TypeOK ==
    /\ pc \in {"open", "getline", "tokens", "integrity", "launch", "run", "exited", "crashed"}
    /\ conf_size \in ConfSizes
    /\ unread \in Nat /\ allocation \in Nat /\ size \in Nat /\ line \in Nat
    /\ conf \in 0 .. conf_size
    /\ seg_start \in {"null", "live", "stale", "freed"}
    /\ params \subseteq Keys
    /\ launched \in 0 .. LAUNCH_STEPS
    /\ crash \in {"none", "null_token", "realloc", "free"}

Init ==
    /\ pc = "open"
    /\ conf_size \in ConfSizes /\ unread = conf_size
    /\ allocation = 0 /\ size = 0 /\ conf = 0 /\ line = 0 /\ seg_start = "null"
    /\ params = {} /\ launched = 0 /\ crash = "none"

Crash(reason) == pc' = "crashed" /\ crash' = reason

-----------------------------------------------------------------------------
(* SetServerStartupParams.  A failure makes main call FreeServerParams and  *)
(* return.                                                                  *)

\* Mutant: malloc without room for the terminator.
AllocateSizeOnly(bytes) == allocation' = bytes /\ size' = bytes

Allocate(bytes) == allocation' = bytes + 1 /\ size' = bytes

OpenConf ==
    /\ pc = "open"
    /\ \/ pc' = "exited" /\ UNCHANGED buffer
       \/ pc' = "getline" /\ Allocate(conf_size) /\ conf' = 0 /\ seg_start' = "live"
    /\ UNCHANGED <<conf_size, unread, line, params, launched, crash>>

(***************************************************************************)
(* getline wants a byte more than the line.  When size says that it does   *)
(* not fit it calls realloc on conf, which is only the start of the        *)
(* allocation as long as nothing was consumed; the buffer may then move.   *)
(***************************************************************************)
Fits(length) == length + 1 <= size

Getline ==
    /\ pc = "getline"
    /\ \E length \in 1 .. unread :
         /\ line' = length /\ unread' = unread - length
         /\ \/ /\ Fits(length) /\ pc' = "tokens"
               /\ UNCHANGED <<buffer, crash>>
            \/ /\ ~Fits(length) /\ conf = 0 /\ pc' = "tokens"
               /\ allocation' = 2 * size /\ size' = 2 * size
               /\ seg_start' \in {seg_start, "stale"}
               /\ UNCHANGED <<conf, crash>>
            \/ /\ ~Fits(length) /\ conf > 0 /\ Crash("realloc")
               /\ UNCHANGED buffer
    /\ UNCHANGED <<conf_size, params, launched>>

\* What getline allocates when it is told that there is no buffer.
FIRST_SIZE == 120

\* The end of the file, or a read error.  For an empty file size is 0, and getline
\* calls realloc before it finds that there is nothing to read.
GetlineEnds ==
    /\ pc = "getline" /\ pc' = "integrity"
    /\ \/ size > 0 /\ UNCHANGED buffer
       \/ /\ size = 0
          /\ allocation' = FIRST_SIZE /\ size' = FIRST_SIZE
          /\ seg_start' \in {seg_start, "stale"}
          /\ UNCHANGED conf
    /\ UNCHANGED <<conf_size, unread, line, params, launched, crash>>

\* Mutant: size is kept at what is left of the file.
ConsumeShrinking(bytes) == conf' = conf + bytes /\ size' = size - bytes

\* Mutant: the pointer is put behind the terminator of what was consumed.
ConsumeWithTerminator(bytes) == conf' = conf + bytes + 1 /\ UNCHANGED size

Consume(bytes) == conf' = conf + bytes /\ UNCHANGED size

(***************************************************************************)
(* The strtok_r calls of one turn of the loop: a key with a value consumes *)
(* the whole line, any other line its first token only; strcmp, strcpy and *)
(* atoi are given NULL for a line of blanks or a key without a value.      *)
(***************************************************************************)
Tokens ==
    /\ pc = "tokens"
    /\ \/ /\ line >= KeyLine
          /\ \E key \in Keys : params' = params \cup {key}
          /\ Consume(line)
          /\ pc' = "getline" /\ UNCHANGED crash
       \/ /\ \E bytes \in 1 .. line : Consume(bytes)
          /\ pc' = "getline" /\ UNCHANGED <<params, crash>>
       \/ /\ Crash("null_token")
          /\ UNCHANGED <<conf, size, params>>
    /\ line' = 0
    /\ UNCHANGED <<conf_size, unread, allocation, seg_start, launched>>

\* Mutant: the last bit is forgotten.
SixKeysFound == Cardinality(params) >= 6

AllKeysFound == params = Keys

\* fclose, free(seg_start) and the test of integrity_test; then LogInit and
\* ServerTlsBaseInit, which cannot fail.
Integrity ==
    /\ pc = "integrity"
    /\ \/ /\ seg_start = "live"
          /\ pc' = IF AllKeysFound THEN "launch" ELSE "exited"
          /\ seg_start' = "freed"
          /\ UNCHANGED crash
       \/ /\ seg_start = "stale" /\ Crash("free")
          /\ UNCHANGED seg_start
    /\ UNCHANGED <<conf_size, unread, allocation, size, conf, line, params, launched>>

-----------------------------------------------------------------------------
(* SetupServer: the first step of LaunchTlsSocket that fails ends main,     *)
(* without FreeServerParams.                                                *)

LaunchTlsSocket ==
    /\ pc = "launch"
    /\ \/ /\ launched < LAUNCH_STEPS
          /\ \/ launched' = launched + 1 /\ UNCHANGED pc
             \/ pc' = "exited" /\ UNCHANGED launched
       \/ launched = LAUNCH_STEPS /\ pc' = "run" /\ UNCHANGED launched
    /\ UNCHANGED <<conf_size, unread, buffer, line, params, crash>>

Next == OpenConf \/ Getline \/ GetlineEnds \/ Tokens \/ Integrity \/ LaunchTlsSocket

Spec == Init /\ [][Next]_vars

-----------------------------------------------------------------------------
(* Properties.                                                              *)

(***************************************************************************)
(* getline never writes behind the buffer, whatever lines the file has and *)
(* however much of each was consumed: the line and its terminator, which   *)
(* start at conf and not at the start of the buffer, end inside it,        *)
(* although size is never reduced by what conf has moved.                  *)
(***************************************************************************)
LineStaysInBuffer == pc = "tokens" => conf + line + 1 <= allocation

(***************************************************************************)
(* getline never has to grow a buffer whose start conf has left: realloc   *)
(* is only called for a file of one line or none, and only then is         *)
(* seg_start freed twice.                                                  *)
(***************************************************************************)
OnlyOneLineIsReallocated ==
    /\ crash # "realloc"
    /\ seg_start = "stale" \/ crash = "free" => unread = 0 /\ size > conf_size

(***************************************************************************)
(* RunServer, which takes the length of default_document and root_folder   *)
(* for every connection without a test, is only reached with every         *)
(* parameter set and every TLS step done; and once they are all set the    *)
(* loader has no way to end the process but a bad line.                    *)
(***************************************************************************)
RunsFullyConfigured ==
    /\ pc = "run" => params = Keys /\ launched = LAUNCH_STEPS
    /\ params = Keys => crash \in {"none", "null_token"}

=============================================================================
