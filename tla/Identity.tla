------------------------------ MODULE Identity ------------------------------
(***************************************************************************)
(* The identity files of src/wg_handshake_probe.c across crashes and I/O   *)
(* errors: load_or_create_private_key with its temporary file, sync and    *)
(* rename, export_public_key, and load_peer_config with its template.      *)
(* run_probe does them in this order and starts again on every run; the    *)
(* Moonlight tunnel reads the same files.                                  *)
(*                                                                         *)
(* A file is absent, torn (anything that is not its full content) or holds *)
(* a key.  Data survives a crash once sceIoSyncByFd has returned; a rename *)
(* is atomic and durable (an assumption on the Vita's file system).        *)
(***************************************************************************)
EXTENDS Naturals

CONSTANT MaxKeys    \* bound: private keys ever generated

ASSUME KeysAssumption == MaxKeys \in Nat \ {0}

Keys == 1..MaxKeys

Absent == 0

Torn == MaxKeys + 1

Paths == {"key", "tmp", "pub", "conf"}

VARIABLES
    private_file,   \* wg-private.key
    temporary,      \* wg-private-<time>.tmp of the current run
    public_file,    \* wg-public.key
    config,         \* wg-peer.conf
    dirty,          \* paths with data that has not reached the disk
    pc,             \* where run_probe is
    private_key,    \* its private_key[32], 0 before it has one
    nextKey,        \* the next fresh random key
    announced,      \* history: keys whose public half a run has reported
    blind           \* history: open and stat both failed on an existing key

files == <<private_file, temporary, public_file, config, dirty>>
history == <<announced, blind>>
vars == <<files, pc, private_key, nextKey, history>>

Contents == Keys \cup {Absent, Torn}

\* Every file has one of its contents, run_probe is at one of its steps.
TypeOK ==
    /\ private_file \in Contents /\ temporary \in Contents
    /\ public_file \in Contents
    /\ config \in {"absent", "torn", "template", "filled"}
    /\ dirty \subseteq Paths /\ blind \in BOOLEAN
    /\ pc \in {"idle", "open", "stat", "random", "tmp_open", "tmp_write",
               "tmp_sync", "rename", "pub_open", "pub_write", "pub_sync",
               "config", "conf_open", "conf_write", "conf_sync", "ready"}
    /\ private_key \in Keys \cup {0} /\ nextKey \in 1..(MaxKeys + 1)
    /\ announced \subseteq Keys

Init ==
    /\ private_file = Absent /\ temporary = Absent
    /\ public_file = Absent /\ config = "absent" /\ dirty = {}
    /\ pc = "idle" /\ private_key = 0 /\ nextKey = 1
    /\ announced = {} /\ blind = FALSE

\* run_probe gives up: it clears its copy of the key.
GiveUp == pc' = "idle" /\ private_key' = 0

Goto(label) == pc' = label /\ UNCHANGED private_key

Start ==
    /\ pc = "idle"
    /\ Goto("open")
    /\ temporary' = Absent    \* the name carries the time: a new file
    /\ dirty' = dirty \ {"tmp"}
    /\ UNCHANGED <<private_file, public_file, config, nextKey, history>>

-----------------------------------------------------------------------------
(* load_or_create_private_key                                              *)

\* Open and read 33 bytes: exactly 32 is a key, anything else an error.
OpenKey ==
    /\ pc = "open"
    /\ \/ /\ private_file \in Keys
          /\ pc' = "pub_open" /\ private_key' = private_file
       \/ private_file /= Absent /\ GiveUp      \* torn, or a failed read
       \/ Goto("stat")                            \* absent, or a failed open
    /\ UNCHANGED <<files, nextKey, history>>

\* Mutant of StatKey: any failed open means there is no key.
StatKeySkipped ==
    /\ pc = "stat"
    /\ Goto("random")
    /\ UNCHANGED <<files, nextKey, history>>

\* A key that exists and could not be opened is not replaced.
StatKey ==
    /\ pc = "stat"
    /\ \/ private_file /= Absent /\ GiveUp /\ UNCHANGED blind
       \/ /\ Goto("random")
          /\ blind' = (blind \/ private_file /= Absent)
    /\ UNCHANGED <<files, nextKey, announced>>

GenerateKey ==
    /\ pc = "random"
    /\ \/ /\ nextKey <= MaxKeys
          /\ private_key' = nextKey /\ nextKey' = nextKey + 1
          /\ pc' = "tmp_open"
       \/ GiveUp /\ UNCHANGED nextKey
    /\ UNCHANGED <<files, history>>

\* write_exact_file on the temporary path: open, write, sync, close.
OpenTemporary ==
    /\ pc = "tmp_open"
    /\ \/ temporary' = Torn /\ dirty' = dirty \cup {"tmp"} /\ Goto("tmp_write")
       \/ GiveUp /\ UNCHANGED <<temporary, dirty>>
    /\ UNCHANGED <<private_file, public_file, config, nextKey, history>>

WriteTemporary ==
    /\ pc = "tmp_write"
    /\ \/ temporary' = private_key /\ Goto("tmp_sync")
       \/ GiveUp /\ UNCHANGED temporary           \* short or failed write
    /\ UNCHANGED <<private_file, public_file, config, dirty, nextKey, history>>

\* Mutant of SyncTemporary: renames without a sync.
SyncTemporarySkipped ==
    /\ pc = "tmp_sync"
    /\ Goto("rename")
    /\ UNCHANGED <<files, nextKey, history>>

SyncTemporary ==
    /\ pc = "tmp_sync"
    /\ \/ dirty' = dirty \ {"tmp"} /\ Goto("rename")
       \/ GiveUp /\ UNCHANGED dirty
    /\ UNCHANGED <<private_file, temporary, public_file, config, nextKey,
                   history>>

RenameKey ==
    /\ pc = "rename"
    /\ temporary' = Absent                        \* renamed, or removed
    /\ \/ /\ private_file' = temporary /\ Goto("pub_open")
          /\ dirty' = IF "tmp" \in dirty THEN (dirty \ {"tmp"}) \cup {"key"}
                                         ELSE dirty \ {"key"}
       \/ UNCHANGED <<private_file, dirty>> /\ GiveUp
    /\ UNCHANGED <<public_file, config, nextKey, history>>

-----------------------------------------------------------------------------
(* export_public_key: truncates and rewrites the file in place.            *)

\* Mutant of OpenPublic: an exported file is never written again.
OpenPublicOnce ==
    /\ pc = "pub_open"
    /\ \/ /\ public_file = Absent
          /\ public_file' = Torn /\ dirty' = dirty \cup {"pub"}
          /\ Goto("pub_write")
       \/ /\ public_file /= Absent /\ Goto("pub_sync")
          /\ UNCHANGED <<public_file, dirty>>
    /\ UNCHANGED <<private_file, temporary, config, nextKey, history>>

OpenPublic ==
    /\ pc = "pub_open"
    /\ \/ public_file' = Torn /\ dirty' = dirty \cup {"pub"} /\ Goto("pub_write")
       \/ GiveUp /\ UNCHANGED <<public_file, dirty>>
    /\ UNCHANGED <<private_file, temporary, config, nextKey, history>>

WritePublic ==
    /\ pc = "pub_write"
    /\ \/ public_file' = private_key /\ Goto("pub_sync")
       \/ GiveUp /\ UNCHANGED public_file
    /\ UNCHANGED <<private_file, temporary, config, dirty, nextKey, history>>

\* Once it returns, run_probe shows the key to the user.
SyncPublic ==
    /\ pc = "pub_sync"
    /\ \/ /\ dirty' = dirty \ {"pub"} /\ Goto("config")
          /\ announced' = announced \cup {private_key}
       \/ GiveUp /\ UNCHANGED <<dirty, announced>>
    /\ UNCHANGED <<private_file, temporary, public_file, config, nextKey, blind>>

-----------------------------------------------------------------------------
(* load_peer_config                                                        *)

LoadConfig ==
    /\ pc = "config"
    /\ \/ config = "filled" /\ Goto("ready")      \* on to the handshake
       \/ config /= "absent" /\ GiveUp            \* pending or invalid
       \/ Goto("conf_open")                       \* absent, or a failed open
    /\ UNCHANGED <<files, nextKey, history>>

\* Mutant of CreateTemplate: without O_EXCL.
CreateTemplateTruncates ==
    /\ pc = "conf_open"
    /\ config' = "torn" /\ dirty' = dirty \cup {"conf"} /\ Goto("conf_write")
    /\ UNCHANGED <<private_file, temporary, public_file, nextKey, history>>

\* create_config_template: O_EXCL never opens a file that exists.
CreateTemplate ==
    /\ pc = "conf_open"
    /\ \/ /\ config = "absent"
          /\ config' = "torn" /\ dirty' = dirty \cup {"conf"}
          /\ Goto("conf_write")
       \/ GiveUp /\ UNCHANGED <<config, dirty>>
    /\ UNCHANGED <<private_file, temporary, public_file, nextKey, history>>

WriteTemplate ==
    /\ pc = "conf_write"
    /\ \/ config' = "template" /\ Goto("conf_sync")
       \/ GiveUp /\ UNCHANGED config
    /\ UNCHANGED <<private_file, temporary, public_file, dirty, nextKey,
                   history>>

\* The run ends here either way: the pairing phase is complete.
SyncTemplate ==
    /\ pc = "conf_sync"
    /\ GiveUp /\ dirty' \in {dirty, dirty \ {"conf"}}
    /\ UNCHANGED <<private_file, temporary, public_file, config, nextKey,
                   history>>

\* The rest of the run touches no file; Probe has its steps.
EndRun ==
    /\ pc = "ready"
    /\ GiveUp
    /\ UNCHANGED <<files, nextKey, history>>

-----------------------------------------------------------------------------
(* External: a crash or power loss, and the user.                          *)

\* What was written and not dirty may be lost in part.
Survives(path, content, torn) ==
    IF path \in dirty THEN {content, torn} ELSE {content}

Crash ==
    /\ GiveUp
    /\ private_file' \in Survives("key", private_file, Torn)
    /\ temporary' \in Survives("tmp", temporary, Torn)
    /\ public_file' \in Survives("pub", public_file, Torn)
    /\ config' \in Survives("conf", config, "torn")
    /\ dirty' = {}
    /\ UNCHANGED <<nextKey, history>>

EditConfig ==
    /\ pc = "idle" /\ config /= "absent"
    /\ config' = "filled" /\ dirty' = dirty \ {"conf"}
    /\ UNCHANGED <<private_file, temporary, public_file, pc,
                   private_key, nextKey, history>>

-----------------------------------------------------------------------------
\* run_probe up to the network.
run_probe ==
    \/ Start \/ OpenKey \/ StatKey \/ GenerateKey \/ OpenTemporary
    \/ WriteTemporary \/ SyncTemporary \/ RenameKey
    \/ OpenPublic \/ WritePublic \/ SyncPublic
    \/ LoadConfig \/ CreateTemplate \/ WriteTemplate \/ SyncTemplate

Next == run_probe \/ EndRun \/ Crash \/ EditConfig

Spec == Init /\ [][Next]_vars

-----------------------------------------------------------------------------
\* wg-private.key is absent or holds 32 good bytes, wherever the console
\* lost power: load_or_create_private_key syncs before it renames.
KeyNeverTorn == private_file /= Torn

\* The gateway is set up with the key a run has announced: no later run,
\* error or crash replaces the private half, unless open and stat both fail
\* on a file that is there.
AnnouncedKeyLives ==
    ~blind => \A k \in announced : private_file = k

\* While a run talks to the gateway the three copies agree: the key in
\* memory, the private file and the exported public file.
CopiesAgree ==
    pc \in {"config", "ready"} =>
        private_key = private_file /\ public_file = private_key

\* The user's settings are never overwritten by the template, not even by a
\* run that failed to open the file.
UserConfigKept == [][config = "filled" => config' = "filled"]_vars
=============================================================================
