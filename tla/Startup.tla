------------------------------ MODULE Startup ------------------------------
(***************************************************************************)
(* How a server or a client starts (both main.cpp, the constructors of     *)
(* Server and Client): the options are parsed, then the bots and then the  *)
(* maps in the directories they name are hashed (file_operations.cpp,      *)
(* sha256.cpp), one file after another in chunks.  Other processes may     *)
(* append to a file or truncate it while it is read.                       *)
(***************************************************************************)
EXTENDS CLOpts, Sha256, FiniteSets

CONSTANTS
  ArgLists,   \* command lines, without the program's name
  Listing,    \* directory name |-> files below it: [path, ext]
  Chunk,      \* buffSize: 0x8000
  MaxChanges  \* bound on what other processes do to a file

Extensions == {".so", ".SC2Map", "other"}
Paths == {f.path : f \in UNION Range(Listing)}

ASSUME StartupAssumption ==
  /\ Chunk \in Nat \ {0} /\ MaxChanges \in Nat
  /\ ArgLists \subseteq Seq(Seq(STRING))
  /\ \A f \in UNION Range(Listing) : f.ext \in Extensions
  \* The extension is the end of the path.
  /\ \A f, g \in UNION Range(Listing) : f.path = g.path => f.ext = g.ext

VARIABLES
  stage,   \* what main is at
  args,    \* the command line, until it is parsed
  opts,    \* optionResults, then
  todo,    \* files of the current directory still to be hashed
  file,    \* the file being hashed, if any, and sha256()'s local variables
  botMap,  \* path |-> digest
  mapMap,  \* path |-> digest
  steady   \* path |-> content it had all the while it was read (history)

vars == <<stage, args, opts, todo, file, botMap, mapMap, steady>>
maps == <<botMap, mapMap, steady>>

---------------------------------------------------------------------------
(* The file system. *)

(* The files hashDirectory is given: those below an existing directory     *)
(* with the extension.  When there is no such directory nothing is hashed, *)
(* false is returned, and no caller looks at it.                           *)
Filtered(dir, ext) ==
  IF dir \in DOMAIN Listing THEN {f.path : f \in {g \in Listing[dir] : g.ext = ext}} ELSE {}

(* A file that cannot be opened has no content; tellg then says -1.        *)
Contents == {{m} : m \in Message} \cup {{}}

(* seekg and tellg. *)
Length(content) == IF content = {} THEN -1 ELSE Len(CHOOSE m \in content : TRUE)

Bytes(content) == IF content = {} THEN <<>> ELSE CHOOSE m \in content : TRUE

---------------------------------------------------------------------------
(* The program. *)

BeginDirectory(next, dir, ext) ==
  /\ stage' = next
  /\ todo' = Filtered(dir, ext)

(* main: a command line that is not understood ends the program.           *)
ParseOpts ==
  /\ stage = "parse"
  /\ args' = <<>>
  /\ \E p \in {Parse(args)} :
       /\ opts' = p.results
       /\ \/ p.status = "true" /\ BeginDirectory("bots", GetOpt(p.results, BotsOption), ".so")
          \/ p.status = "throws" /\ stage' = "terminated" /\ UNCHANGED todo
          \/ p.status \in {"usage", "missing"} /\ stage' = "exited" /\ UNCHANGED todo
  /\ UNCHANGED <<file, maps>>

(* The head of sha256(): the next file, whatever order the directory       *)
(* iterator has, its length now, and a fresh context.                      *)
OpenFile(path, content) ==
  /\ stage \in {"bots", "maps"} /\ file = {}
  /\ path \in todo
  /\ todo' = todo \ {path}
  /\ file' = {[path |-> path, bytes |-> Bytes(content), length |-> Length(content),
               eof |-> FALSE, read |-> 0, ctx |-> Fresh, changes |-> 0, cut |-> FALSE]}
  /\ steady' = [steady EXCEPT ![path] = {content}]
  /\ UNCHANGED <<stage, args, opts, botMap, mapMap>>

(* Mistake: the loop ends only beyond the length. *)
MoreToReadInclusive(f) == f.read <= f.length

MoreToRead(f) == f.read < f.length

(* One round of the loop.  A short read sets eofbit, and with it every     *)
(* later read fails and reads nothing.                                     *)
ReadChunk ==
  \E f \in file :
    LET left == IF f.eof THEN {} ELSE f.read + 1..Len(f.bytes)
        got  == SubSeq(f.bytes, f.read + 1, f.read + Min({Chunk, Cardinality(left)}))
    IN /\ MoreToRead(f)
       /\ file' = {[f EXCEPT !.read = @ + Len(got), !.eof = @ \/ Len(got) < Chunk,
                             !.ctx = Update(@, got)]}
       /\ UNCHANGED <<stage, args, opts, todo, maps>>

(* Mistake: the map is cleared for each file. *)
DigestedOnly(map, f) == [p \in {f.path} |-> Final(f.ctx)]

Digested(map, f) ==
  [p \in DOMAIN map \cup {f.path} |-> IF p = f.path THEN Final(f.ctx) ELSE map[p]]

(* The loop ends, and map[filePath] is assigned. *)
CloseFile ==
  \E f \in file :
    /\ ~ MoreToRead(f)
    /\ file' = {}
    /\ botMap' = IF stage = "bots" THEN Digested(botMap, f) ELSE botMap
    /\ mapMap' = IF stage = "maps" THEN Digested(mapMap, f) ELSE mapMap
    /\ UNCHANGED <<stage, args, opts, todo, steady>>

(* A directory is done: the maps' follows, then the rest of the program.   *)
EndDirectory ==
  /\ file = {} /\ todo = {}
  /\ \/ stage = "bots" /\ BeginDirectory("maps", GetOpt(opts, MapsOption), ".SC2Map")
     \/ stage = "maps" /\ stage' = "running" /\ UNCHANGED todo
  /\ UNCHANGED <<args, opts, file, maps>>

(* Another process writes to the file that is being read: it grows, or it  *)
(* is cut off somewhere.                                                   *)
ChangeFile ==
  \E f \in file :
    /\ f.changes < MaxChanges /\ f.length >= 0
    /\ steady' = [steady EXCEPT ![f.path] = {}]
    /\ \/ \E m \in Message :
            /\ IsStrictPrefix(f.bytes, m)
            /\ file' = {[f EXCEPT !.bytes = m, !.changes = @ + 1]}
       \/ \E n \in 0..Len(f.bytes) - 1 :
            file' = {[f EXCEPT !.bytes = SubSeq(@, 1, n), !.changes = @ + 1, !.cut = TRUE]}
    /\ UNCHANGED <<stage, args, opts, todo, botMap, mapMap>>

Init ==
  /\ stage = "parse"
  /\ args \in ArgLists
  /\ opts = NoResults
  /\ todo = {} /\ file = {}
  /\ botMap = [p \in {} |-> <<>>] /\ mapMap = [p \in {} |-> <<>>]
  /\ steady = [p \in Paths |-> {}]

Hashing ==
  \/ \E path \in Paths, content \in Contents : OpenFile(path, content)
  \/ ReadChunk
  \/ CloseFile
  \/ EndDirectory

Next == ParseOpts \/ Hashing \/ ChangeFile

(* The program is one thread that never waits for anything. *)
Spec == Init /\ [][Next]_vars /\ WF_vars(Hashing)

---------------------------------------------------------------------------
(* Properties. *)

Ended == {"running", "exited", "terminated"}

(* Every variable keeps its shape: digests are whole blocks, and the block *)
(* that is being filled is never full.                                     *)
TypeOK ==
  /\ stage \in {"parse", "bots", "maps"} \cup Ended
  /\ todo \subseteq Paths /\ Cardinality(file) <= 1
  /\ \A f \in file : Len(f.ctx.block) < Block /\ Len(f.ctx.absorbed) % Block = 0
  /\ \A p \in DOMAIN botMap : Len(botMap[p]) % Block = 0
  /\ \A p \in DOMAIN mapMap : Len(mapMap[p]) % Block = 0

(* The command lines "--name value" for both options, in either order and  *)
(* with one dash or two.  A value begins with no dash; and in front of     *)
(* --bots it does not begin with that name, for it would be taken for it.  *)
IsName(arg, name) == arg \in {<<Dash, name>>, <<Dash, Dash, name>>}

IsValue(arg) == arg # <<>> /\ arg[1] # Dash

Plain(a) ==
  /\ Len(a) = 4
  /\ IsValue(a[2]) /\ IsValue(a[4])
  /\ \/ IsName(a[1], BotsOption) /\ IsName(a[3], MapsOption)
     \/ IsName(a[1], MapsOption) /\ IsName(a[3], BotsOption) /\ a[2][1] # BotsOption

(* A plain command line gives each option its own value: no value is taken *)
(* for a name, dropped, or given to the other option.                      *)
PlainUnderstood ==
  stage = "parse" /\ Plain(args) =>
    LET p == Parse(args)
        i == IF IsName(args[1], BotsOption) THEN 2 ELSE 4
    IN /\ p.status = "true"
       /\ GetOpt(p.results, BotsOption) = args[i]
       /\ GetOpt(p.results, MapsOption) = args[6 - i]

(* A file that stays as it is while it is read, and is shorter than the    *)
(* length field allows, gets the digest of FIPS 180-2, in whatever chunks  *)
(* and blocks it falls; one that cannot be opened gets that of no bytes.   *)
DigestsOfContent ==
  \A map \in {botMap, mapMap} : \A p \in DOMAIN map :
    \A c \in steady[p] : Fits(Bytes(c)) => map[p] = Padded(Bytes(c))

(* A server or client that runs has hashed the bots below one directory    *)
(* and the maps below the other, each file once and no other file.         *)
AllFilesHashed ==
  stage = "running" =>
    /\ DOMAIN botMap = Filtered(GetOpt(opts, BotsOption), ".so")
    /\ DOMAIN mapMap = Filtered(GetOpt(opts, MapsOption), ".SC2Map")

(* Hashing comes to an end, unless a file loses bytes while it is read:    *)
(* then the loop waits for them for ever.                                  *)
HashingEnds ==
  stage \in {"bots", "maps"} ~> stage = "running" \/ \E f \in file : f.cut

---------------------------------------------------------------------------
(* What the sources say of it and it does not do: an argument is "in the   *)
(* form --name=value" (CLOpts.cpp lines 41 and 100).                       *)
EqualsUnderstood ==
  stage = "parse" =>
    \A v, w \in DOMAIN Listing :
      args = <<<<Dash, Dash, BotsOption, Equals>> \o v, <<Dash, Dash, MapsOption, Equals>> \o w>> =>
        LET p == Parse(args)
        IN /\ p.status = "true"
           /\ GetOpt(p.results, BotsOption) = v /\ GetOpt(p.results, MapsOption) = w

===========================================================================
