-------------------------------- MODULE Netgen --------------------------------
(***************************************************************************)
(* scavium-netgen: init, regen and inventory write the files of a network  *)
(* into one base directory, one after the other.  Keys are created once    *)
(* and read back by every later invocation; everything else is derived     *)
(* from them.  An invocation may be stopped between two writes or in the   *)
(* middle of one (os.WriteFile truncates first), and the next one, with    *)
(* other flags, starts from what is on disk.                               *)
(*                                                                         *)
(* A file is a kind and what it belongs to.  Its contents are abstracted   *)
(* to the keys they were derived from.  The loops of the program go over a *)
(* list; here their elements are taken in any order.                       *)
(***************************************************************************)
EXTENDS Naturals

CONSTANTS
    Nodes,         \* node names
    Role,          \* node -> bootnode, validator, rpc or another word
    Accounts,      \* operational accounts
    Invocations,   \* the command lines an operator may give
    MaxRuns,       \* bound: invocations
    MaxStops       \* bound: invocations that are interrupted

Flags ==
    [cmd       : {"init", "regen", "inventory"},
     known     : BOOLEAN,        \* every flag is known, every port a number
     overwrite : BOOLEAN,        \* --overwrite-configs
     noKeygen  : BOOLEAN,        \* --no-keygen
     accounts  : BOOLEAN,        \* --generate-accounts
     besu      : {"off", "missing", "works", "fails"},
                                 \* --generate-extradata false, or what --besu names
     outputs   : BOOLEAN,        \* --generate-systemd, --inventory-out, --hosts-out
     named     : STRING,         \* --faucet-name
     nodes     : SUBSET Nodes]   \* --nodes-file

ASSUME InvocationsAssumption == Invocations \subseteq Flags
\* A role may be empty in a nodes file.
ASSUME RoleAssumption == DOMAIN Role = Nodes
\* Nodes, accounts and the network have a directory each; here only the name says
\* whose a file is.
ASSUME NamesAssumption == Nodes \cap Accounts = {} /\ "net" \notin Nodes \cup Accounts
ASSUME RunBoundsAssumption == MaxRuns \in Nat /\ MaxStops \in Nat

VARIABLES
    disk,     \* file -> contents
    fresh,    \* keys drawn from crypto/rand so far
    status,   \* what became of the last invocation
    cfg,      \* its flags
    todo,     \* its files still to write
    mem,      \* the keys it has read: Nodes, Accounts
    extra,    \* its extraData
    runs, stops

vars == <<disk, fresh, status, cfg, todo, mem, extra, runs, stops>>

-----------------------------------------------------------------------------
\* Files.

Owners == Nodes \cup Accounts

File(k, o) == [kind |-> k, of |-> o]
Net(k) == File(k, "net")

KeyFiles == {File("key", o) : o \in Owners}
\* data/key.pub of a node, .address and .json of an account
PubFiles == {File("pub", o) : o \in Owners}
Singles == {"base", "derive", "validators", "extradata", "genesis", "static", "unit", "readme",
            "inventory", "accounts", "hosts"}
Files == KeyFiles \cup PubFiles \cup {Net(k) : k \in Singles}
             \cup {File(k, n) : k \in {"static", "config"}, n \in Nodes}

\* Contents: absent, cut short, or the keys it was derived from and, for the
\* genesis, the accounts it funds; made: the extraData is Besu's.
Contents(keys, alloc, made) == [st |-> "ok", keys |-> keys, alloc |-> alloc, made |-> made]
Missing == [st |-> "absent", keys |-> {}, alloc |-> {}, made |-> FALSE]
Torn == [st |-> "torn", keys |-> {}, alloc |-> {}, made |-> FALSE]

\* Nodes of a role: buildDerivedFields.
OfRole(c, r) == {n \in c.nodes : Role[n] = r}
KeysOf(S) == {mem[o] : o \in S}

\* Addresses of the accounts: empty strings without --generate-accounts.
AllocKeys == KeysOf(Accounts)

-----------------------------------------------------------------------------
\* The sequence of an invocation.

AccountFiles(c) ==
    IF c.accounts THEN {File(k, a) : k \in {"key", "pub"}, a \in Accounts} ELSE {}
NodeKeyFiles(c) == {File(k, n) : k \in {"key", "pub"}, n \in c.nodes}
Reports(c) ==
    {Net("accounts"), Net("readme")} \cup
    (IF c.outputs THEN {Net("inventory"), Net("hosts")} ELSE {})
NodeFiles(c) ==
    {Net(k) : k \in {"validators", "extradata", "genesis", "static"}}
        \cup {File(k, n) : k \in {"static", "config"}, n \in c.nodes}
        \cup (IF c.outputs THEN {Net("unit")} ELSE {})

runInventory(c) ==
    {Net("base"), Net("derive")} \cup AccountFiles(c) \cup NodeKeyFiles(c) \cup Reports(c)

runInit(c) == runInventory(c) \cup NodeFiles(c)

\* regen takes the steps of init, keys and genesis included.
runRegen(c) == runInventory(c) \cup NodeFiles(c)

\* The order of the steps; the accounts come before the nodes, and inventory
\* writes the README last.
Place ==
    [base |-> 0, key |-> 2, pub |-> 2, derive |-> 3, validators |-> 4, extradata |-> 5,
     genesis |-> 6, static |-> 7, config |-> 8, unit |-> 9, readme |-> 10, inventory |-> 11,
     accounts |-> 12, hosts |-> 13]

Rank(c, f) ==
    IF f.of \in Accounts THEN 1
    ELSE IF f.kind = "readme" /\ c.cmd = "inventory" THEN 14
    ELSE Place[f.kind]

\* f is a file the invocation may write now.
Due(f) ==
    /\ status = "running" /\ f \in todo
    /\ LET r == Rank(cfg, f) IN \A g \in todo : r <= Rank(cfg, g)
    /\ f.kind = "pub" => File("key", f.of) \notin todo

Init ==
    /\ disk = [f \in Files |-> Missing]
    /\ fresh = 0
    /\ status = "idle"
    /\ cfg \in Invocations
    /\ todo = {}
    /\ mem = [o \in Owners |-> 0]
    /\ extra = Missing
    /\ runs = 0 /\ stops = 0

\* A nodes file in which a node lacks its role (or name, or address) is refused.
loadNodesFromFile(c) == \A n \in c.nodes : Role[n] # ""

\* The command line is refused before anything is written.
parseArgs(c) == c.known /\ loadNodesFromFile(c)

\* main: parse the flags, run the subcommand.
Start ==
    /\ status # "running" /\ runs < MaxRuns
    /\ runs' = runs + 1
    /\ cfg' \in Invocations
    /\ status' = IF parseArgs(cfg') THEN "running" ELSE "failed"
    /\ todo' = IF ~parseArgs(cfg') THEN {}
               ELSE CASE cfg'.cmd = "init"      -> runInit(cfg')
                      [] cfg'.cmd = "regen"     -> runRegen(cfg')
                      [] cfg'.cmd = "inventory" -> runInventory(cfg')
    /\ mem' = [o \in Owners |-> 0]
    /\ extra' = Missing
    /\ UNCHANGED <<disk, fresh, stops>>

\* fatalIf: exit with status 1.
Fatal == status' = "failed" /\ UNCHANGED <<disk, fresh, cfg, todo, mem, extra, runs, stops>>

\* f is dealt with; after the last one the summary is printed.
Done(f) ==
    /\ todo' = todo \ {f}
    /\ status' = IF todo' = {} THEN "done" ELSE "running"

WriteFile(f, v) == disk' = [disk EXCEPT ![f] = v]

\* The directories; a later mkdir finds them there.
ensureBase ==
    /\ Due(Net("base"))
    /\ WriteFile(Net("base"), Contents({}, {}, FALSE))
    /\ Done(Net("base"))
    /\ UNCHANGED <<fresh, cfg, mem, extra, runs, stops>>

\* Mutant: a key that is there is drawn again.
MutReadOrCreateNodeKey(o) ==
    /\ Due(File("key", o))
    /\ ~cfg.noKeygen
    /\ fresh' = fresh + 1
    /\ mem' = [mem EXCEPT ![o] = fresh + 1]
    /\ WriteFile(File("key", o), Contents({fresh + 1}, {}, FALSE))
    /\ Done(File("key", o))
    /\ UNCHANGED <<cfg, extra, runs, stops>>

\* Mutant: a key is drawn and not counted, so two may come out the same.
MutKeyDrawnTwice(o) ==
    /\ Due(File("key", o))
    /\ mem' = [mem EXCEPT ![o] = fresh + 1]
    /\ WriteFile(File("key", o), Contents({fresh + 1}, {}, FALSE))
    /\ Done(File("key", o))
    /\ UNCHANGED <<fresh, cfg, extra, runs, stops>>

\* Mutant: with --overwrite-configs false a new key is used but not saved.
MutKeyNotSaved(o) ==
    /\ Due(File("key", o))
    /\ fresh' = fresh + 1
    /\ mem' = [mem EXCEPT ![o] = fresh + 1]
    /\ IF cfg.overwrite THEN WriteFile(File("key", o), Contents({fresh + 1}, {}, FALSE))
       ELSE UNCHANGED disk
    /\ Done(File("key", o))
    /\ UNCHANGED <<cfg, extra, runs, stops>>

\* A key is read back if it is there, refused if it is not 64 hex digits, and
\* created otherwise, unless --no-keygen forbids it.
readOrCreateNodeKey(o) ==
    LET f == File("key", o) IN
    /\ Due(f)
    /\ \/ /\ disk[f].st = "ok"
          /\ \E k \in disk[f].keys : mem' = [mem EXCEPT ![o] = k]
          /\ Done(f)
          /\ UNCHANGED <<disk, fresh, cfg, extra, runs, stops>>
       \/ disk[f].st = "torn" /\ Fatal
       \/ disk[f].st = "absent" /\ cfg.noKeygen /\ Fatal
       \/ /\ disk[f].st = "absent" /\ ~cfg.noKeygen
          /\ fresh' = fresh + 1
          /\ mem' = [mem EXCEPT ![o] = fresh + 1]
          /\ WriteFile(f, Contents({fresh + 1}, {}, FALSE))
          /\ Done(f)
          /\ UNCHANGED <<cfg, extra, runs, stops>>

\* The public key or the address next to the key is written every time.
writePublic(o) ==
    LET f == File("pub", o) IN
    /\ Due(f)
    /\ WriteFile(f, Contents({mem[o]}, {}, FALSE))
    /\ Done(f)
    /\ UNCHANGED <<fresh, cfg, mem, extra, runs, stops>>

ensureAccounts == \E a \in Accounts : readOrCreateNodeKey(a) \/ writePublic(a)
ensureNodeKeys == \E n \in Nodes : readOrCreateNodeKey(n) \/ writePublic(n)

findAccountAddress(name) == name \in Accounts

\* The account named as faucet (or deployer) must exist.
buildDerivedFields ==
    /\ Due(Net("derive"))
    /\ \/ ~findAccountAddress(cfg.named) /\ Fatal
       \/ findAccountAddress(cfg.named) /\ Done(Net("derive")) /\ UNCHANGED <<disk, fresh, cfg, mem, extra, runs, stops>>

\* Mutant: a file that an earlier invocation left is always kept.
MutWriteFileIfAllowed(f, v) ==
    /\ Due(f)
    /\ IF disk[f].st # "absent" THEN UNCHANGED disk ELSE WriteFile(f, v)
    /\ Done(f)
    /\ UNCHANGED <<fresh, cfg, mem, extra, runs, stops>>

\* An existing file, whole or cut short, is kept unless files may be overwritten.
writeFileIfAllowed(f, v) ==
    /\ Due(f)
    /\ IF ~cfg.overwrite /\ disk[f].st # "absent" THEN UNCHANGED disk ELSE WriteFile(f, v)
    /\ Done(f)
    /\ UNCHANGED <<fresh, cfg, mem, extra, runs, stops>>

writeQBFTValidatorsJSON ==
    writeFileIfAllowed(Net("validators"), Contents(KeysOf(OfRole(cfg, "validator")), {}, FALSE))

\* Mutant: the extraData of an earlier invocation is used again.
MutMaybeGenerateQBFTExtraData ==
    LET f == Net("extradata") IN
    /\ Due(f)
    /\ extra' = IF disk[f].st = "ok" THEN disk[f] ELSE Contents({}, {}, FALSE)
    /\ Done(f)
    /\ UNCHANGED <<disk, fresh, cfg, mem, runs, stops>>

\* `besu rlp encode' reads the validators from disk and writes extraData.txt;
\* without Besu the genesis gets a placeholder.
maybeGenerateQBFTExtraData ==
    LET f == Net("extradata")
        in == disk[Net("validators")]
    IN
    /\ Due(f)
    /\ \/ /\ cfg.besu \in {"off", "missing"}
          /\ extra' = Contents({}, {}, FALSE)
          /\ Done(f)
          /\ UNCHANGED <<disk, fresh, cfg, mem, runs, stops>>
       \/ (cfg.besu = "fails" \/ in.st = "torn") /\ cfg.besu \in {"fails", "works"} /\ Fatal
       \/ /\ cfg.besu = "works" /\ in.st = "ok"
          /\ extra' = Contents(in.keys, {}, TRUE)
          /\ WriteFile(f, extra')
          /\ Done(f)
          /\ UNCHANGED <<fresh, cfg, mem, runs, stops>>

writeGenesis ==
    writeFileIfAllowed(Net("genesis"), [extra EXCEPT !.alloc = AllocKeys])

\* The bootnodes' enodes, for the network and in every node's directory.
BootEnodes == Contents(KeysOf(OfRole(cfg, "bootnode")), {}, FALSE)

writeStaticNodes ==
    \E f \in {Net("static")} \cup {File("static", n) : n \in Nodes} :
        writeFileIfAllowed(f, BootEnodes)

\* config.toml: a bootnode's names no bootnodes; another role is an error.
renderBootnodeConfig == Contents({}, {}, FALSE)
renderValidatorConfig == BootEnodes
renderRPCConfig == BootEnodes

writeNodeConfigs ==
    \E n \in Nodes :
        \/ Role[n] = "bootnode" /\ writeFileIfAllowed(File("config", n), renderBootnodeConfig)
        \/ Role[n] = "validator" /\ writeFileIfAllowed(File("config", n), renderValidatorConfig)
        \/ Role[n] = "rpc" /\ writeFileIfAllowed(File("config", n), renderRPCConfig)
        \/ /\ Role[n] \notin {"bootnode", "validator", "rpc"}
           /\ Due(File("config", n)) /\ Fatal

writeSystemdTemplate == writeFileIfAllowed(Net("unit"), Contents({}, {}, FALSE))

\* The README lists nodes and accounts and says whether the extraData is
\* Besu's; inventory passes false whatever the genesis holds.
writeReadme ==
    writeFileIfAllowed(Net("readme"), Contents(KeysOf(cfg.nodes), AllocKeys, extra.made))

writeInventoryJSON == writeFileIfAllowed(Net("inventory"), Contents(KeysOf(cfg.nodes), {}, FALSE))
writeAccountsInventoryJSON == writeFileIfAllowed(Net("accounts"), Contents({}, AllocKeys, FALSE))
writeHostsFile == writeFileIfAllowed(Net("hosts"), Contents({}, {}, FALSE))

\* The process is stopped, or the disk is full: before the next write, or in
\* the middle of it.
Stop ==
    /\ status = "running" /\ stops < MaxStops
    /\ status' = "stopped"
    /\ stops' = stops + 1
    /\ \/ UNCHANGED disk
       \/ \E f \in todo :
            /\ Due(f)
            /\ \/ f \in KeyFiles /\ disk[f].st = "absent" /\ ~cfg.noKeygen
               \/ f \in PubFiles
               \/ f = Net("extradata") /\ cfg.besu \in {"works", "fails"}
               \/ /\ f \notin KeyFiles \cup PubFiles \cup {Net("base"), Net("derive"), Net("extradata")}
                  /\ cfg.overwrite \/ disk[f].st = "absent"
            /\ WriteFile(f, Torn)
    /\ UNCHANGED <<fresh, cfg, todo, mem, extra, runs>>

Next ==
    \/ Start \/ Stop
    \/ ensureBase \/ ensureAccounts \/ ensureNodeKeys \/ buildDerivedFields
    \/ writeQBFTValidatorsJSON \/ maybeGenerateQBFTExtraData \/ writeGenesis
    \/ writeStaticNodes \/ writeNodeConfigs \/ writeSystemdTemplate \/ writeReadme
    \/ writeInventoryJSON \/ writeAccountsInventoryJSON \/ writeHostsFile

Spec == Init /\ [][Next]_vars

-----------------------------------------------------------------------------
\* Properties.

ContentsType == [st : {"absent", "torn", "ok"}, keys : SUBSET Nat, alloc : SUBSET Nat,
                 made : BOOLEAN]

\* Every variable has its type.
TypeOK ==
    /\ disk \in [Files -> ContentsType] /\ extra \in ContentsType
    /\ fresh \in Nat /\ runs \in 0..MaxRuns /\ stops \in 0..MaxStops
    /\ status \in {"idle", "running", "done", "failed", "stopped"}
    /\ cfg \in Invocations /\ todo \subseteq Files
    /\ mem \in [Owners -> 0..fresh]

DiskKeys(S) == UNION {disk[File("key", o)].keys : o \in S}

\* A node or account key, once whole on disk, is never replaced: not by a later
\* init with other flags, not by a regen after an interrupted run.
KeysAreForever ==
    [][\A f \in KeyFiles : disk[f].st = "ok" => disk'[f] = disk[f]]_vars

\* At every moment, between any two writes and after any interruption, no file
\* refers to a key that is not on disk: no validator that nobody can run, no
\* enode that nobody can be, no funded account that nobody can spend from
\* (0 stands for the empty address written without --generate-accounts).
NoLostKey ==
    \A f \in Files : disk[f].keys \cup disk[f].alloc \subseteq DiskKeys(Owners) \cup {0}

\* When init or regen ends and files may be overwritten, genesis, validators,
\* static nodes and configs are whole and agree with the keys on disk, whatever
\* earlier invocations, interrupted ones included, left behind.
NetworkIsConsistent ==
    status = "done" /\ cfg.overwrite /\ cfg.cmd # "inventory" =>
        LET val == DiskKeys(OfRole(cfg, "validator"))
            boot == DiskKeys(OfRole(cfg, "bootnode"))
            gen == disk[Net("genesis")]
        IN
        /\ \A f \in runInit(cfg) \ {Net("derive"), Net("extradata")} : disk[f].st = "ok"
        /\ disk[Net("validators")].keys = val
        /\ gen.made = (cfg.besu = "works") /\ disk[Net("readme")].made = gen.made
        /\ gen.made => gen.keys = val
        /\ cfg.accounts => gen.alloc = DiskKeys(Accounts)
        /\ disk[Net("static")].keys = boot
        /\ \A n \in cfg.nodes :
            /\ disk[File("static", n)].keys = boot
            /\ Role[n] # "bootnode" => disk[File("config", n)].keys = boot

\* An invocation that exits with an error has a reason the operator can see: the
\* command line, Besu, a role, or a key cut short.  An interrupted earlier run is none,
\* unless it cut a key or the files it cut may not be overwritten.
FailureIsExplained ==
    status = "failed" =>
        \/ \E o \in Accounts \cup cfg.nodes :
            \/ disk[File("key", o)].st = "torn"
            \/ disk[File("key", o)].st = "absent" /\ cfg.noKeygen
        \/ ~parseArgs(cfg) \/ ~findAccountAddress(cfg.named)
        \/ cfg.besu = "fails"
        \/ ~cfg.overwrite /\ disk[Net("validators")].st = "torn"
        \/ \E n \in cfg.nodes : Role[n] \notin {"bootnode", "validator", "rpc"}

=============================================================================
