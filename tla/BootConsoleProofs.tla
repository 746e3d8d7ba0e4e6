--------------------------- MODULE BootConsoleProofs --------------------------
(***************************************************************************)
(* Theorems about BootConsole, for every set of JSON files that fit in     *)
(* jsmn's tokens, every file size, chunk size and content of flash, every  *)
(* address typed, and every number of commands.                            *)
(***************************************************************************)
EXTENDS BootConsole, SequenceTheorems, WellFoundedInduction, TLAPS

Files == DOMAIN Size \cup {"none", "flash"}

Types ==
  /\ phase \in {"idle", "json", "loop", "image", "bin", "flash", "booted"}
  /\ dev \in {"net", "sd", "sata", "flash"}
  /\ mounted \in BOOLEAN /\ opened \in BOOLEAN
  /\ addr_found \in BOOLEAN /\ image_found \in BOOLEAN
  /\ i \in Nat \ {0}
  /\ args \in [r1 : Nat, r2 : Nat, r3 : Nat, addr : Nat]
  /\ job \in [file : Files, to : Places, offset : Nat]
  /\ flash \in [length : Nat, crc_ok : BOOLEAN]
  /\ ram \in [Places -> [file : Files, bytes : Nat]]
  /\ touched \subseteq Places

(* The volume is mounted and the file open exactly where the functions     *)
(* that read a disk have them so; the network never mounts.                *)
OnDisk == phase \in {"json", "image", "bin"} /\ dev # "net"
Volume ==
  /\ mounted <=> OnDisk /\ step \in {"open", "read"}
  /\ opened <=> OnDisk /\ step = "read"
  /\ phase \in {"json", "image", "bin"} /\ dev = "net" => step = "read"

(* The tokens the loop looks at, jsmn's and those behind them.             *)
Tokens ==
  /\ t \in Seq(Token) /\ count \in Nat /\ Len(t) = count
  /\ \A k \in Under("image") : FileName(t[k]) \in DOMAIN Size /\ strtoul(t[k + 1]) \in Places

(* What a copy under way has done, and what the copies before it left.     *)
Whole(a) == ram[a].bytes = Size[ram[a].file]
Copies ==
  /\ phase = "json" => touched = {} /\ ~image_found /\ ~addr_found /\ args = NoArgs
  /\ phase = "loop" => /\ image_found <=> touched # {}
                       /\ \A a \in touched : Whole(a)
  /\ phase = "image" => /\ \A a \in touched \ {job.to} : Whole(a)
                        /\ job.file \in DOMAIN Size /\ job.offset <= Size[job.file]
  /\ phase = "bin" => /\ job.file = "boot.bin" /\ job.to = MAIN_RAM_BASE
                      /\ job.offset <= Size[job.file]
  /\ phase = "flash" /\ step = "read" =>
       /\ job.file = "flash" /\ job.to = MAIN_RAM_BASE
       /\ ImageLength(flash) > 0 /\ job.offset <= ImageLength(flash)
       /\ job.offset > 0 => ram[MAIN_RAM_BASE] = [file |-> "flash", bytes |-> job.offset]

(* The loop has done what the tokens before i say.                         *)
Sofar(key) == {k \in Under(key) : k < i}
ValueSofar(key) == IF Sofar(key) = {} THEN 0 ELSE strtoul(t[LastOf(Sofar(key)) + 1])
PlacesSofar == {strtoul(t[k + 1]) : k \in Sofar("image")}
LastThere(k) == \A l \in Sofar("image") : strtoul(t[l + 1]) = strtoul(t[k + 1]) => l <= k
Follows ==
  /\ phase \in {"loop", "image"} =>
       /\ \A r \in {"r1", "r2", "r3"} : args[r] = ValueSofar(r)
       /\ addr_found <=> Sofar("addr") # {}
       /\ args.addr = IF addr_found THEN ValueSofar("addr") ELSE ValueSofar("image")
       /\ \A k \in Sofar("image") :
            LastThere(k) /\ (phase = "image" => strtoul(t[k + 1]) # job.to)
              => ram[strtoul(t[k + 1])].file = FileName(t[k])
  /\ phase = "loop" => touched = PlacesSofar
  /\ phase = "image" =>
       /\ i \in Under("image") /\ job.file = FileName(t[i]) /\ job.to = strtoul(t[i + 1])
       /\ touched \cup {job.to} = PlacesSofar \cup {job.to}

BootInv ==
  /\ Types /\ Volume /\ Tokens /\ Copies /\ Follows
  /\ NothingHalfLoaded /\ JumpAsDocument

-------------------------------------------------------------------------------
(* The tokens.                                                             *)

(* strtoul returns a number for any token.                                 *)
LEMMA NumberType ==
  ASSUME NEW tok \in Token
  PROVE  strtoul(tok) \in Nat
  BY DEF Token, strtoul

(* An element the loop meets has a token after it, its value.              *)
LEMMA ElementHere ==
  ASSUME Types, Tokens, InLoop, IsElement(t[i])
  PROVE  i \in Elements /\ strtoul(t[i + 1]) \in Nat
  <1>1. Len(t) \in Nat /\ i \in 1 .. Len(t) /\ i < count
    BY LenProperties DEF Types, Tokens, InLoop
  <1>2. i < Len(t)
    BY <1>1 DEF Tokens
  <1>3. t[i + 1] \in Token
    BY <1>1, <1>2, ElementOfSeq DEF Tokens
  <1> QED
    BY <1>1, <1>2, <1>3, NumberType DEF Elements

(* A file that was cut off still has its beginning.                        *)
LEMMA CutToken ==
  ASSUME NEW tok \in Token
  PROVE  /\ [tok EXCEPT !.size = 0] \in Token /\ ~IsElement([tok EXCEPT !.size = 0])
         /\ strtoul([tok EXCEPT !.size = 0]) = strtoul(tok)
  BY DEF Token, IsElement, strtoul

(* After jsmn_parse there are as many tokens as the loop counts, a         *)
(* document's or its beginning with what the stack held behind it.         *)
LEMMA ParsedTokens ==
  ASSUME ParseJson
  PROVE  Tokens' /\ i' = 1
  <1>1. CASE \E d \in Docs : Parsed(d, Len(d))
    <2>1. PICK d \in Docs : Parsed(d, Len(d))
      BY <1>1
    <2>2. d \in Seq(Token) /\ Len(d) \in Nat /\ t' = d /\ count' = Len(d) /\ i' = 1
      BY <2>1, DocumentAssumption, LenProperties DEF Parsed, Placed
    <2>3. Tokens'
      BY <2>2, DocumentAssumption DEF Tokens, Under, Elements, Placed
    <2> QED
      BY <2>2, <2>3
  <1>2. CASE \E d \in Docs : \E n \in 0 .. Len(d), err \in JSMN_ERRORS, g \in Behind :
                Parsed(Leftover(d, n, g, err % UINT8), err % UINT8)
    <2>0. PICK d \in Docs : \E n \in 0 .. Len(d), err \in JSMN_ERRORS, g \in Behind :
                               Parsed(Leftover(d, n, g, err % UINT8), err % UINT8)
      BY <1>2
    <2>1. PICK n \in 0 .. Len(d), err \in JSMN_ERRORS, g \in Behind :
                 Parsed(Leftover(d, n, g, err % UINT8), err % UINT8)
      BY <2>0
    <2>2. /\ d \in Seq(Token) /\ Len(d) \in Nat /\ Len(d) <= TOKENS
          /\ g \in Seq(Token) /\ Len(g) = UINT8
      BY DocumentAssumption, LenProperties DEF Placed
    <2>3. PICK c \in Nat : c = err % UINT8 /\ n <= c /\ c < UINT8
      <3>1. err \in {-1, -2, -3} /\ UINT8 \in Nat /\ UINT8 >= 4 /\ n \in Nat /\ n <= UINT8 - 4
        BY <2>2, BootAssumption, DocumentAssumption
      <3>2. err % UINT8 \in Nat /\ err % UINT8 < UINT8 /\ err % UINT8 = err + UINT8
        BY <3>1
      <3> QED
        BY <3>1, <3>2
    <2> DEFINE L == Leftover(d, n, g, c)
    <2>4. /\ \A k \in 1 .. n : d[k] \in Token
          /\ \A k \in 1 .. c : g[k] \in Token
      BY <2>2, <2>3, DocumentAssumption, ElementOfSeq
    <2>5. \A k \in 1 .. c : /\ k < n => L[k] = d[k]
                            /\ k = n => L[k] = [d[k] EXCEPT !.size = 0]
                            /\ k > n => L[k] = g[k]
      BY <2>3 DEF Leftover
    <2>6. \A k \in 1 .. c : /\ L[k] \in Token
                            /\ k <= n => strtoul(L[k]) = strtoul(d[k])
                            /\ k = n => ~IsElement(L[k])
      <3> HIDE DEF L
      <3>1. ASSUME NEW k \in 1 .. c
            PROVE  /\ L[k] \in Token
                   /\ k <= n => strtoul(L[k]) = strtoul(d[k])
                   /\ k = n => ~IsElement(L[k])
        <4>0. n \in Nat /\ k \in Nat /\ (k <= n => k \in 1 .. n) /\ (k <= n <=> k < n \/ k = n)
          BY <2>2, <2>3
        <4>1. CASE k < n
          <5>1. k \in 1 .. n /\ k # n
            BY <4>0, <4>1
          <5> QED
            BY <2>4, <2>5, <4>1, <5>1, Zenon
        <4>2. CASE k = n
          <5>1. L[k] = [d[k] EXCEPT !.size = 0] /\ d[k] \in Token
            BY <2>4, <2>5, <4>0, <4>2
          <5> QED
            BY <5>1, CutToken
        <4>3. CASE k > n
          <5>1. k # n /\ ~(k <= n)
            BY <4>0, <4>3
          <5> QED
            BY <2>4, <2>5, <4>3, <5>1, Zenon
        <4> QED
          BY <4>0, <4>1, <4>2, <4>3
      <3> QED
        BY <3>1
    <2>7. L \in Seq(Token) /\ Len(L) = c
      <3>1. L = [k \in 1 .. c |-> L[k]]
        BY DEF Leftover
      <3>2. L \in [1 .. c -> Token]
        BY <2>6, <3>1, Zenon
      <3> QED
        BY <2>3, <3>2
    <2>8. t' = L /\ count' = c /\ i' = 1
      BY <2>1, <2>3 DEF Parsed
    <2>9. \A k \in Under("image")' : FileName(t'[k]) \in DOMAIN Size /\ strtoul(t'[k + 1]) \in Places
      <3> SUFFICES ASSUME NEW k \in 1 .. c - 1, IsElement(L[k]), Key(L[k]) = "image"
                   PROVE  FileName(L[k]) \in DOMAIN Size /\ strtoul(L[k + 1]) \in Places
        BY <2>7, <2>8 DEF Under, Elements
      <3> HIDE DEF L
      <3>1. k \in 1 .. c /\ k + 1 \in 1 .. c
        BY <2>3
      <3>2. CASE k < n
        <4>0. k + 1 <= n /\ k \in 1 .. Len(d) - 1
          BY <2>2, <3>1, <3>2
        <4>1. L[k] = d[k] /\ strtoul(L[k + 1]) = strtoul(d[k + 1]) /\ k \in 1 .. Len(d) - 1
          BY <2>5, <2>6, <3>1, <3>2, <4>0, Zenon
        <4> QED
          BY <4>1, DocumentAssumption DEF Placed
      <3>3. CASE k > n
        <4>0. k + 1 > n /\ k \in 1 .. Len(g) - 1
          BY <2>2, <2>3, <3>1, <3>3, DocumentAssumption
        <4>1. L[k] = g[k] /\ L[k + 1] = g[k + 1]
          BY <2>5, <3>1, <3>3, <4>0, Zenon
        <4> QED
          BY <4>0, <4>1, DocumentAssumption DEF Placed
      <3>4. k # n
        BY <2>6, <3>1
      <3> QED
        BY <3>2, <3>3, <3>4
    <2>10. Tokens'
      BY <2>3, <2>7, <2>8, <2>9 DEF Tokens
    <2> QED
      BY <2>8, <2>10
  <1> QED
    BY <1>1, <1>2 DEF ParseJson

-------------------------------------------------------------------------------
(* One f_read: another chunk, or the end of the copy.                      *)
Left == Size[job.file] - job.offset
br == IF Left < Chunk THEN Left ELSE Chunk
NextChunk ==
  /\ br > 0
  /\ job' = [job EXCEPT !.offset = @ + br]
  /\ Write(job.offset + br)
  /\ UNCHANGED <<disk, phase, step, i, image_found, args, jump>>
EndOfCopy ==
  /\ opened' = FALSE /\ mounted' = FALSE
  /\ Write(job.offset)
  /\ \/ br = 0 /\ Copied /\ UNCHANGED <<step, job>>
     \/ GiveUp /\ UNCHANGED <<i, image_found, args, jump>>

(* A read of the copy loop is followed by another one, or by the end of    *)
(* the copy.                                                               *)
LEMMA ReadChunkCases ==
  ASSUME ReadChunk
  PROVE  NextChunk \/ EndOfCopy
  BY Zenon DEF ReadChunk, NextChunk, EndOfCopy, br, Left

-------------------------------------------------------------------------------
(* Types.                                                                  *)

(* The job of the function that goes on after a failure.                   *)
LEMMA JobAfterFailure ==
  ASSUME Types, GiveUp \/ JsonReturns
  PROVE  job' \in [file : Files, to : Places, offset : Nat] /\ phase' \in {"idle", "bin"}
  BY BootAssumption DEF Types, GiveUp, JsonReturns, Files

(* A write into RAM keeps the types.                                       *)
LEMMA WriteType ==
  ASSUME Types, NEW upto \in Nat, Write(upto)
  PROVE  ram' \in [Places -> [file : Files, bytes : Nat]] /\ touched' \subseteq Places
  BY DEF Types, Write

(* The end of a copy keeps the types.                                      *)
LEMMA CopiedType ==
  ASSUME Types, Copied
  PROVE  /\ phase' \in {"loop", "booted"} /\ i' \in Nat \ {0} /\ image_found' \in BOOLEAN
         /\ args' \in [r1 : Nat, r2 : Nat, r3 : Nat, addr : Nat]
  <1>1. job.to \in Nat
    BY BootAssumption DEF Types
  <1>2. CASE phase = "image" /\ addr_found
    BY <1>2 DEF Types, Copied, boot
  <1>3. CASE phase = "image" /\ ~addr_found
    <2>1. [args EXCEPT !.addr = job.to] \in [r1 : Nat, r2 : Nat, r3 : Nat, addr : Nat]
      BY <1>1 DEF Types
    <2> QED
      BY <1>3, <2>1 DEF Types, Copied, boot
  <1>4. CASE phase # "image"
    BY <1>4 DEF Types, Copied, boot
  <1> QED
    BY <1>2, <1>3, <1>4

(* The start of a boot keeps the types.                                    *)
LEMMA StartTypes ==
  ASSUME Types, NEW d \in {"net", "sd", "sata", "flash"}, NEW isNamed, Start(d, isNamed),
         phase' \in {"json", "flash"}, flash' \in [length : Nat, crc_ok : BOOLEAN]
  PROVE  Types'
  <1>1. args' \in [r1 : Nat, r2 : Nat, r3 : Nat, addr : Nat]
    BY DEF Start, NoArgs
  <1>2. job' \in [file : Files, to : Places, offset : Nat]
    <2>1. MAIN_RAM_BASE \in Places /\ "none" \in Files
      BY BootAssumption DEF Files
    <2>2. job' = [file |-> "none", to |-> MAIN_RAM_BASE, offset |-> 0]
      BY DEF Start, NoJob
    <2> QED
      BY <2>1, <2>2
  <1>3. /\ mounted' \in BOOLEAN /\ opened' \in BOOLEAN
        /\ addr_found' \in BOOLEAN /\ image_found' \in BOOLEAN
    BY DEF Types, Start
  <1>4. i' = 1 /\ dev' = d /\ UNCHANGED ram /\ touched' = {}
    BY DEF Start
  <1> QED
    BY <1>1, <1>2, <1>3, <1>4 DEF Types

(* Every step of the console keeps the types.                              *)
LEMMA TypesStep ==
  ASSUME Types, Tokens, Copies, [ConsoleNext]_consoleVars
  PROVE  Types'
  <1>1. CASE BootCommand
    <2>1. CASE netboot \/ sdcardboot \/ sataboot
      BY <2>1, StartTypes DEF netboot, sdcardboot, sataboot, Types
    <2>2. CASE flashboot
      BY <2>2, StartTypes, BootAssumption DEF flashboot
    <2> QED
      BY <1>1, <2>1, <2>2 DEF BootCommand
  <1>2. CASE TftpJson \/ ReadJson
    <2>1. CASE ParseJson
      <3>1. i' = 1 /\ touched' = {} /\ phase' = "loop" /\ UNCHANGED job
        BY <2>1 DEF ParseJson, Parsed
      <3>2. UNCHANGED <<found, ram, jump, command>> /\ mounted' \in BOOLEAN /\ opened' \in BOOLEAN
        BY <1>2 DEF TftpJson, ReadJson, disk, Types
      <3> QED
        BY <3>1, <3>2 DEF Types, found, command
    <2>2. CASE ~ParseJson
      BY <1>2, <2>2, JobAfterFailure DEF TftpJson, ReadJson, Types, document, disk, found, command
    <2> QED
      BY <2>1, <2>2
  <1>3. CASE f_mount \/ f_open
    BY <1>3, JobAfterFailure DEF f_mount, f_open, Types, document, found, command
  <1>4. CASE Element
    <2>1. /\ UNCHANGED <<disk, document, image_found, ram, touched, jump, command>> /\ InLoop
          /\ phase' \in {"loop", "image"}
      BY <1>4 DEF Element, InLoop
    <2>2. /\ i' \in Nat \ {0} /\ addr_found' \in BOOLEAN
          /\ args' \in [r1 : Nat, r2 : Nat, r3 : Nat, addr : Nat]
          /\ job' \in [file : Files, to : Places, offset : Nat]
      <3>1. CASE ~IsElement(t[i]) \/ Key(t[i]) = "bootargs"
        BY <1>4, <3>1 DEF Element, Types
      <3>2. CASE IsElement(t[i]) /\ Key(t[i]) = "addr"
        BY <1>4, <2>1, <3>2, ElementHere DEF Element, Types
      <3>3. CASE IsElement(t[i]) /\ Key(t[i]) = "image"
        <4>1. i \in Under("image") /\ UNCHANGED <<i, args, addr_found>>
              /\ job' = [file |-> FileName(t[i]), to |-> strtoul(t[i + 1]), offset |-> 0]
          BY <1>4, <2>1, <3>3, ElementHere DEF Element, Under
        <4> QED
          BY <4>1 DEF Tokens, Types, Files
      <3>4. CASE IsElement(t[i]) /\ Key(t[i]) = "r1"
        BY <1>4, <2>1, <3>4, ElementHere DEF Element, Types
      <3>5. CASE IsElement(t[i]) /\ Key(t[i]) = "r2"
        BY <1>4, <2>1, <3>5, ElementHere DEF Element, Types
      <3>6. CASE IsElement(t[i]) /\ Key(t[i]) = "r3"
        BY <1>4, <2>1, <3>6, ElementHere DEF Element, Types
      <3> QED
        BY <1>4, <3>1, <3>2, <3>3, <3>4, <3>5, <3>6 DEF Key, Keywords
    <2> QED
      BY <2>1, <2>2 DEF Types, disk, command
  <1>5. CASE EndOfTokens
    BY <1>5, JobAfterFailure DEF EndOfTokens, boot, Types, disk, document, found, command
  <1>6. CASE TftpImage
    <2>1. Size[job.file] \in Nat
      BY <1>6, BootAssumption DEF Copies, TftpImage
    <2>2. ram' \in [Places -> [file : Files, bytes : Nat]] /\ touched' \subseteq Places
      <3>1. PICK n \in Nat : Write(n)
        BY <1>6, <2>1 DEF TftpImage
      <3> QED
        BY <3>1, WriteType
    <2> QED
      BY <1>6, <2>2, CopiedType, JobAfterFailure DEF TftpImage, Types, disk, command
  <1>7. CASE ReadChunk
    <2>1. Size[job.file] \in Nat /\ job.offset \in Nat /\ job.offset <= Size[job.file]
      BY <1>7, BootAssumption DEF Copies, ReadChunk, Types
    <2>2. br \in Nat /\ job.offset + br \in Nat
      BY <2>1, BootAssumption DEF br, Left
    <2>3. UNCHANGED <<document, addr_found, command>>
      BY <1>7 DEF ReadChunk
    <2>4. CASE NextChunk
      <3>1. job' \in [file : Files, to : Places, offset : Nat]
        BY <2>2, <2>4 DEF NextChunk, Types
      <3> QED
        BY <2>2, <2>3, <2>4, <3>1, WriteType DEF NextChunk, Types, disk, command
    <2>5. CASE EndOfCopy
      BY <2>1, <2>3, <2>5, WriteType, CopiedType, JobAfterFailure DEF EndOfCopy, Types, command
    <2> QED
      BY <1>7, <2>4, <2>5, ReadChunkCases
  <1>8. CASE CheckFlash
    BY <1>8, BootAssumption DEF CheckFlash, Types, Files, disk, document, found, command
  <1>9. CASE CopyFlash
    <2> DEFINE length == ImageLength(flash) - job.offset
               chunk == IF length < Chunk THEN length ELSE Chunk
    <2>1. ImageLength(flash) \in Nat /\ job.offset \in Nat
      BY DEF ImageLength, Types
    <2>2. length > 0 => chunk \in Nat /\ job.offset + chunk \in Nat
      BY <2>1, BootAssumption
    <2>3. CASE length > 0 /\ job' = [job EXCEPT !.offset = @ + chunk] /\ Write(job'.offset)
               /\ UNCHANGED <<phase, jump>>
      <3>1. job' \in [file : Files, to : Places, offset : Nat]
        BY <2>2, <2>3 DEF Types
      <3> QED
        BY <1>9, <2>3, <3>1, WriteType DEF CopyFlash, Types, disk, document, found, command
    <2>4. CASE boot("flash", [NoArgs EXCEPT !.addr = MAIN_RAM_BASE]) /\ UNCHANGED <<job, ram, touched>>
      BY <1>9, <2>4 DEF CopyFlash, boot, Types, disk, document, found, command
    <2> QED
      BY <1>9, <2>3, <2>4 DEF CopyFlash
  <1>10. CASE AddressCommand \/ Booted \/ Ended \/ UNCHANGED consoleVars
    BY <1>10 DEF AddressCommand, Booted, Ended, consoleVars, vars, Types, disk, document, found
  <1> QED
    BY <1>1, <1>2, <1>3, <1>4, <1>5, <1>6, <1>7, <1>8, <1>9, <1>10
       DEF ConsoleNext, ConsoleWork, Work

-------------------------------------------------------------------------------
(* The volume.                                                             *)

(* A function that gives up is not on the disk any more, or is before its  *)
(* mount.                                                                  *)
LEMMA GiveUpStep ==
  ASSUME GiveUp \/ JsonReturns, UNCHANGED dev
  PROVE  phase' = "idle" \/ (phase' = "bin" /\ step' = FirstStep(dev'))
  BY DEF GiveUp, JsonReturns

(* A step that leaves nothing mounted or open may go to any of these       *)
(* places.                                                                 *)
LEMMA VolumeOff ==
  ASSUME ~mounted', ~opened',
         phase' \in {"idle", "loop", "booted", "flash"}
           \/ step' = FirstStep(dev') \/ (dev' = "net" /\ step' = "read")
  PROVE  Volume'
  BY DEF Volume, OnDisk, FirstStep

(* f_mount, f_open and what follows each of their errors keep Volume.      *)
LEMMA VolumeStep ==
  ASSUME Types, Volume, [ConsoleNext]_consoleVars
  PROVE  Volume'
  <1>1. CASE BootCommand
    <2>1. phase = "idle" /\ UNCHANGED <<mounted, opened>>
      BY <1>1 DEF BootCommand, netboot, sdcardboot, sataboot, flashboot, Start
    <2>2. phase' = "flash" \/ step' = FirstStep(dev')
      BY <1>1 DEF BootCommand, netboot, sdcardboot, sataboot, flashboot, Start, FirstStep
    <2>3. ~mounted' /\ ~opened'
      BY <2>1 DEF Volume, OnDisk
    <2> QED
      BY <2>2, <2>3, VolumeOff
  <1>2. CASE TftpJson
    <2>1. ~mounted' /\ ~opened'
      BY <1>2 DEF TftpJson, disk, Volume, OnDisk
    <2>2. phase' \in {"loop", "idle"} \/ (phase' = "bin" /\ step' = FirstStep(dev'))
      BY <1>2, GiveUpStep DEF TftpJson, ParseJson, Parsed, command
    <2> QED
      BY <2>1, <2>2, VolumeOff
  <1>3. CASE ReadJson
    <2>1. ~mounted' /\ ~opened' /\ phase' = "loop"
      BY <1>3 DEF ReadJson, ParseJson, Parsed
    <2> QED
      BY <2>1, VolumeOff
  <1>4. CASE f_mount
    <2>1. dev # "net" /\ UNCHANGED dev /\ ~opened' /\ ~mounted
      BY <1>4 DEF f_mount, command, Volume, OnDisk
    <2>2. CASE mounted' = TRUE /\ step' = "open" /\ UNCHANGED <<phase, job>>
      BY <1>4, <2>1, <2>2 DEF f_mount, Volume, OnDisk
    <2>3. CASE GiveUp /\ UNCHANGED mounted
      BY <2>1, <2>3, GiveUpStep, VolumeOff
    <2> QED
      BY <1>4, <2>2, <2>3 DEF f_mount
  <1>5. CASE f_open
    <2>1. dev # "net" /\ UNCHANGED dev /\ mounted /\ ~opened
      BY <1>5 DEF f_open, command, Volume, OnDisk
    <2>2. CASE opened' = TRUE /\ step' = "read" /\ UNCHANGED <<mounted, phase, job>>
      BY <1>5, <2>1, <2>2 DEF f_open, Volume, OnDisk
    <2>3. CASE GiveUp /\ mounted' = FALSE /\ UNCHANGED opened
      BY <2>1, <2>3, GiveUpStep, VolumeOff
    <2> QED
      BY <1>5, <2>2, <2>3 DEF f_open
  <1>6. CASE Element
    <2>1. phase = "loop" /\ UNCHANGED <<mounted, opened, dev>>
      BY <1>6 DEF Element, InLoop, disk, command
    <2>2. phase' = "loop" \/ step' = FirstStep(dev')
      BY <1>6, <2>1 DEF Element
    <2> QED
      BY <2>1, <2>2, VolumeOff DEF Volume, OnDisk
  <1>7. CASE EndOfTokens
    <2>1. phase = "loop" /\ UNCHANGED <<mounted, opened, dev>>
      BY <1>7 DEF EndOfTokens, disk, command
    <2>2. phase' = "booted" \/ phase' = "idle" \/ (phase' = "bin" /\ step' = FirstStep(dev'))
      BY <1>7, <2>1, GiveUpStep DEF EndOfTokens, boot
    <2> QED
      BY <2>1, <2>2, VolumeOff DEF Volume, OnDisk
  <1>8. CASE TftpImage
    <2>1. dev = "net" /\ UNCHANGED <<mounted, opened, dev>>
      BY <1>8 DEF TftpImage, disk, command
    <2>2. phase' \in {"loop", "booted", "idle"} \/ (phase' = "bin" /\ step' = FirstStep(dev'))
      BY <1>8, <2>1, GiveUpStep DEF TftpImage, Copied, boot
    <2> QED
      BY <2>1, <2>2, VolumeOff DEF Volume, OnDisk
  <1>9. CASE ReadChunk
    <2>1. UNCHANGED dev
      BY <1>9 DEF ReadChunk, command
    <2>2. CASE NextChunk
      BY <2>1, <2>2 DEF NextChunk, disk, Volume, OnDisk
    <2>3. CASE EndOfCopy
      <3>1. phase' \in {"loop", "booted", "idle"} \/ (phase' = "bin" /\ step' = FirstStep(dev'))
        BY <2>1, <2>3, GiveUpStep DEF EndOfCopy, Copied, boot
      <3> QED
        BY <2>3, <3>1, VolumeOff DEF EndOfCopy
    <2> QED
      BY <1>9, <2>2, <2>3, ReadChunkCases
  <1>10. CASE CheckFlash \/ CopyFlash
    <2>1. phase = "flash" /\ UNCHANGED <<mounted, opened>> /\ phase' \in {"flash", "idle", "booted"}
      BY <1>10 DEF CheckFlash, CopyFlash, disk, boot
    <2> QED
      BY <2>1, VolumeOff DEF Volume, OnDisk
  <1>11. CASE AddressCommand \/ Booted \/ Ended \/ UNCHANGED consoleVars
    BY <1>11 DEF AddressCommand, Booted, Ended, consoleVars, vars, disk, Volume, OnDisk
  <1> QED
    BY <1>1, <1>2, <1>3, <1>4, <1>5, <1>6, <1>7, <1>8, <1>9, <1>10, <1>11
       DEF ConsoleNext, ConsoleWork, Work

-------------------------------------------------------------------------------
(* The tokens stay as they were parsed.                                    *)
LEMMA TokensStep ==
  ASSUME Types, Tokens, [ConsoleNext]_consoleVars
  PROVE  Tokens'
  <1>1. CASE BootCommand
    <2>1. t' = <<>> /\ count' = 0
      BY <1>1 DEF BootCommand, netboot, sdcardboot, sataboot, flashboot, Start
    <2>2. t' \in Seq(Token) /\ Len(t') = 0 /\ Elements' = {}
      BY <2>1 DEF Elements
    <2> QED
      BY <2>1, <2>2 DEF Tokens, Under
  <1>2. CASE ParseJson
    BY <1>2, ParsedTokens
  <1>3. CASE ~ParseJson /\ ~BootCommand
    <2>1. UNCHANGED <<t, count>>
      BY <1>3 DEF ConsoleNext, AddressCommand, ConsoleWork, Work, Booted, Ended, consoleVars, vars,
         TftpJson, f_mount, f_open, ReadJson, Element, EndOfTokens, TftpImage, ReadChunk,
         CheckFlash, CopyFlash, document
    <2> QED
      BY <2>1 DEF Tokens, Under, Elements
  <1> QED
    BY <1>1, <1>2, <1>3

-------------------------------------------------------------------------------
(* The copies.                                                             *)

(* A write changes the place of the job under way and no other.            *)
LEMMA WriteEffect ==
  ASSUME Types, NEW upto, Write(upto)
  PROVE  /\ ram'[job.to] = [file |-> job.file, bytes |-> upto]
         /\ \A a \in Places \ {job.to} : ram'[a] = ram[a]
         /\ touched' = touched \cup {job.to}
  BY DEF Types, Write

(* boot.bin, or the console: nothing has been copied for either.           *)
LEMMA FailureCopies ==
  ASSUME GiveUp \/ JsonReturns
  PROVE  Copies' /\ NothingHalfLoaded'
  <1>1. Size["boot.bin"] \in Nat
    BY BootAssumption
  <1>2. phase' = "idle" \/ (phase' = "bin" /\ job' = [file |-> "boot.bin", to |-> MAIN_RAM_BASE, offset |-> 0])
    BY DEF GiveUp, JsonReturns
  <1> QED
    BY <1>1, <1>2 DEF Copies, NothingHalfLoaded

(* A copy that has come to the end of its file.                            *)
LEMMA CompleteCopies ==
  ASSUME Types, Copies, phase \in {"image", "bin"}, Write(Size[job.file]), Copied
  PROVE  Copies' /\ NothingHalfLoaded'
  <1>1. /\ ram'[job.to] = [file |-> job.file, bytes |-> Size[job.file]]
        /\ \A a \in Places \ {job.to} : ram'[a] = ram[a]
        /\ touched' = touched \cup {job.to} /\ touched \subseteq Places
    BY WriteEffect DEF Types
  <1>2. CASE phase = "image"
    <2>1. phase' = "loop" /\ image_found' = TRUE
      BY <1>2 DEF Copied
    <2>2. \A a \in touched' : ram'[a].bytes = Size[ram'[a].file]
      <3> SUFFICES ASSUME NEW a \in touched' PROVE ram'[a].bytes = Size[ram'[a].file]
        OBVIOUS
      <3>1. CASE a = job.to
        BY <1>1, <3>1
      <3>2. CASE a # job.to
        <4>1. a \in touched \ {job.to} /\ ram'[a] = ram[a]
          BY <1>1, <3>2
        <4> QED
          BY <1>2, <4>1 DEF Copies, Whole
      <3> QED
        BY <3>1, <3>2
    <2> QED
      BY <1>1, <2>1, <2>2 DEF Copies, Whole, NothingHalfLoaded
  <1>3. CASE phase = "bin"
    <2>1. phase' = "booted" /\ jump' = [by |-> "bin", args |-> [NoArgs EXCEPT !.addr = MAIN_RAM_BASE]]
      BY <1>3 DEF Copied, boot
    <2>2. ram'[MAIN_RAM_BASE] = [file |-> "boot.bin", bytes |-> Size["boot.bin"]]
      BY <1>1, <1>3 DEF Copies
    <2> QED
      BY <2>1, <2>2 DEF Copies, NothingHalfLoaded
  <1> QED
    BY <1>2, <1>3

(* Every step keeps what was copied whole whole, and a jump finds nothing  *)
(* else.                                                                   *)
LEMMA CopiesStep ==
  ASSUME Types, Tokens, Copies, NothingHalfLoaded, [ConsoleNext]_consoleVars
  PROVE  Copies' /\ NothingHalfLoaded'
  <1>1. CASE BootCommand
    <2>1. /\ phase' = "json" \/ (phase' = "flash" /\ step' = "check")
          /\ touched' = {} /\ ~image_found' /\ ~addr_found' /\ args' = NoArgs
      BY <1>1 DEF BootCommand, netboot, sdcardboot, sataboot, flashboot, Start
    <2> QED
      BY <2>1 DEF Copies, NothingHalfLoaded, NoArgs
  <1>2. CASE TftpJson \/ ReadJson
    <2>1. CASE ParseJson
      <3>1. phase' = "loop" /\ touched' = {}
        BY <2>1 DEF ParseJson, Parsed
      <3>2. ~image_found'
        BY <1>2 DEF TftpJson, ReadJson, found, Copies
      <3> QED
        BY <3>1, <3>2 DEF Copies, NothingHalfLoaded
    <2>2. CASE ~ParseJson
      BY <1>2, <2>2, FailureCopies DEF TftpJson, ReadJson
    <2> QED
      BY <2>1, <2>2
  <1>3. CASE f_mount \/ f_open
    <2>1. CASE GiveUp
      BY <2>1, FailureCopies
    <2>2. CASE ~GiveUp
      <3>1. UNCHANGED <<phase, job, args, addr_found, image_found, ram, touched>>
            /\ phase \in {"json", "image", "bin"}
        BY <1>3, <2>2 DEF f_mount, f_open, found
      <3> QED
        BY <3>1 DEF Copies, NothingHalfLoaded, Whole, NoArgs
    <2> QED
      BY <2>1, <2>2
  <1>4. CASE Element
    <2>1. UNCHANGED <<image_found, ram, touched>> /\ InLoop /\ phase = "loop"
      BY <1>4 DEF Element, InLoop
    <2>2. CASE phase' = "loop"
      BY <2>1, <2>2 DEF Copies, NothingHalfLoaded, Whole
    <2>3. CASE phase' = "image"
      <3>1. /\ IsElement(t[i]) /\ Key(t[i]) = "image"
            /\ job' = [file |-> FileName(t[i]), to |-> strtoul(t[i + 1]), offset |-> 0]
        BY <1>4, <2>1, <2>3 DEF Element
      <3>2. FileName(t[i]) \in DOMAIN Size
        BY <2>1, <3>1, ElementHere DEF Tokens, Under
      <3>3. Size[FileName(t[i])] \in Nat
        BY <3>2, BootAssumption
      <3>4. \A a \in touched : Whole(a)
        BY <2>1 DEF Copies
      <3> QED
        BY <2>1, <2>3, <3>1, <3>2, <3>3, <3>4 DEF Copies, NothingHalfLoaded, Whole
    <2> QED
      BY <1>4, <2>1, <2>2, <2>3 DEF Element
  <1>5. CASE EndOfTokens
    <2>1. CASE image_found /\ boot("json", args)
      <3>1. touched # {} /\ \A a \in touched : Whole(a)
        BY <1>5, <2>1 DEF EndOfTokens, Copies
      <3>2. /\ UNCHANGED <<ram, touched>> /\ phase' = "booted"
            /\ jump' = [by |-> "json", args |-> args]
        BY <1>5, <2>1 DEF EndOfTokens, boot
      <3> QED
        BY <3>1, <3>2 DEF Copies, NothingHalfLoaded, Whole
    <2>2. CASE JsonReturns
      BY <2>2, FailureCopies
    <2> QED
      BY <1>5, <2>1, <2>2 DEF EndOfTokens
  <1>6. CASE TftpImage
    BY <1>6, FailureCopies, CompleteCopies DEF TftpImage
  <1>7. CASE ReadChunk
    <2>1. /\ phase \in {"image", "bin"} /\ job.file \in DOMAIN Size
          /\ Size[job.file] \in Nat /\ job.offset \in Nat /\ job.offset <= Size[job.file]
      BY <1>7, BootAssumption DEF Copies, ReadChunk, Types
    <2>2. CASE NextChunk
      <3>1. job.offset + br <= Size[job.file] /\ job.offset + br \in Nat
        BY <2>1, BootAssumption DEF br, Left
      <3>2. job'.file = job.file /\ job'.to = job.to /\ job'.offset = job.offset + br
        BY <2>2 DEF NextChunk, Types
      <3>3. /\ UNCHANGED <<phase, step>> /\ touched' = touched \cup {job.to}
            /\ \A a \in Places \ {job.to} : ram'[a] = ram[a]
        BY <2>2, WriteEffect DEF NextChunk
      <3>4. phase = "image" => \A a \in touched' \ {job'.to} : ram'[a].bytes = Size[ram'[a].file]
        <4>0. touched' \ {job'.to} = touched \ {job.to}
          BY <3>2, <3>3
        <4> SUFFICES ASSUME phase = "image", NEW a \in touched \ {job.to}
                     PROVE  ram'[a].bytes = Size[ram'[a].file]
          BY <4>0
        <4>1. ram'[a] = ram[a] /\ Whole(a)
          BY <3>3 DEF Types, Copies
        <4> QED
          BY <4>1 DEF Whole
      <3> QED
        BY <2>1, <3>1, <3>2, <3>3, <3>4 DEF Copies, NothingHalfLoaded, Whole
    <2>3. CASE EndOfCopy
      <3>1. CASE GiveUp
        BY <3>1, FailureCopies
      <3>2. CASE br = 0 /\ Copied
        <4>1. job.offset = Size[job.file]
          BY <2>1, <3>2, BootAssumption DEF br, Left
        <4> QED
          BY <2>1, <2>3, <3>2, <4>1, CompleteCopies DEF EndOfCopy
      <3> QED
        BY <2>3, <3>1, <3>2 DEF EndOfCopy
    <2> QED
      BY <1>7, <2>2, <2>3, ReadChunkCases
  <1>8. CASE CheckFlash
    <2>1. ImageLength(flash) \in Nat /\ UNCHANGED flash
      BY <1>8 DEF CheckFlash, ImageLength, Types, command
    <2> QED
      BY <1>8, <2>1 DEF CheckFlash, Copies, NothingHalfLoaded
  <1>9. CASE CopyFlash
    <2> DEFINE length == ImageLength(flash) - job.offset
               chunk == IF length < Chunk THEN length ELSE Chunk
    <2>1. /\ ImageLength(flash) \in Nat /\ job.offset \in Nat /\ UNCHANGED <<flash, step>>
          /\ phase = "flash" /\ step = "read"
      BY <1>9 DEF CopyFlash, ImageLength, Types, command
    <2>2. /\ job.file = "flash" /\ job.to = MAIN_RAM_BASE
          /\ ImageLength(flash) > 0 /\ job.offset <= ImageLength(flash)
          /\ job.offset > 0 => ram[MAIN_RAM_BASE] = [file |-> "flash", bytes |-> job.offset]
      BY <2>1 DEF Copies
    <2>3. CASE length > 0 /\ job' = [job EXCEPT !.offset = @ + chunk] /\ Write(job'.offset)
               /\ UNCHANGED <<phase, jump>>
      <3>1. job'.file = job.file /\ job'.to = job.to /\ job'.offset = job.offset + chunk
        BY <2>3 DEF Types
      <3>2. job.offset + chunk <= ImageLength(flash) /\ job.offset + chunk \in Nat
        BY <2>1, <2>3, BootAssumption
      <3>3. ram'[job.to] = [file |-> job.file, bytes |-> job'.offset]
        BY <2>3, WriteEffect
      <3>4. ImageLength(flash') = ImageLength(flash)
        BY <2>1
      <3> HIDE DEF chunk
      <3> QED
        BY <2>1, <2>2, <2>3, <3>1, <3>2, <3>3, <3>4 DEF Copies, NothingHalfLoaded, ImageLength
    <2>4. CASE length = 0 /\ boot("flash", [NoArgs EXCEPT !.addr = MAIN_RAM_BASE])
               /\ UNCHANGED <<job, ram, touched>>
      <3>1. job.offset = ImageLength(flash) /\ job.offset > 0
        BY <2>1, <2>2, <2>4
      <3>2. flash.crc_ok /\ ImageLength(flash) = flash.length
        BY <2>2 DEF ImageLength
      <3>3. phase' = "booted" /\ jump'.by = "flash"
        BY <2>4 DEF boot
      <3> QED
        BY <2>1, <2>2, <2>4, <3>1, <3>2, <3>3 DEF Copies, NothingHalfLoaded
    <2> QED
      BY <1>9, <2>3, <2>4 DEF CopyFlash
  <1>10. CASE AddressCommand \/ Booted \/ Ended \/ UNCHANGED consoleVars
    <2>1. UNCHANGED <<phase, step, args, addr_found, image_found, job, flash, ram, touched, jump>>
      BY <1>10 DEF AddressCommand, Booted, Ended, consoleVars, vars, found
    <2> QED
      BY <2>1 DEF Copies, NothingHalfLoaded, Whole, NoArgs, ImageLength
  <1> QED
    BY <1>1, <1>2, <1>3, <1>4, <1>5, <1>6, <1>7, <1>8, <1>9, <1>10
       DEF ConsoleNext, ConsoleWork, Work

-------------------------------------------------------------------------------
(* The document.                                                           *)

(* A set of numbers that has a greatest one has it as its last.            *)
LEMMA LastOfMax ==
  ASSUME NEW S, NEW m \in S, S \subseteq Int, \A l \in S : l <= m
  PROVE  LastOf(S) = m
  <1>1. \E k \in S : \A l \in S : l <= k
    OBVIOUS
  <1>2. LastOf(S) \in S /\ \A l \in S : l <= LastOf(S)
    BY <1>1, Zenon DEF LastOf
  <1>3. m <= LastOf(S) /\ LastOf(S) <= m
    BY <1>2
  <1>4. m \in Int /\ LastOf(S) \in Int
    BY <1>2
  <1> HIDE DEF LastOf
  <1> QED
    BY <1>3, <1>4

(* A step that leaves the tokens and the index alone leaves what the loop  *)
(* has met.                                                                *)
LEMMA SofarStays ==
  ASSUME UNCHANGED <<t, i>>, NEW key
  PROVE  /\ Sofar(key)' = Sofar(key) /\ ValueSofar(key)' = ValueSofar(key)
         /\ Under(key)' = Under(key)
  BY DEF Sofar, ValueSofar, Under, Elements

(* The loop goes on behind a token that is not under this key.             *)
LEMMA SofarPasses ==
  ASSUME Types, Tokens, UNCHANGED t, i' = i + 1, NEW key, i \notin Under(key)
  PROVE  Sofar(key)' = Sofar(key) /\ ValueSofar(key)' = ValueSofar(key)
  <1>1. Under(key)' = Under(key) /\ Under(key) \subseteq Int
    BY LenProperties DEF Under, Elements, Tokens
  <1>2. Sofar(key)' = {k \in Under(key) : k < i + 1}
    BY <1>1 DEF Sofar
  <1>3. \A k \in Under(key) : k < i + 1 <=> k < i
    BY <1>1 DEF Types
  <1>4. Sofar(key)' = Sofar(key)
    BY <1>2, <1>3 DEF Sofar
  <1> QED
    BY <1>4 DEF ValueSofar

(* Behind one that is, it is the last one so far.                          *)
LEMMA SofarGrows ==
  ASSUME Types, Tokens, UNCHANGED t, i' = i + 1, NEW key, i \in Under(key)
  PROVE  Sofar(key)' = Sofar(key) \cup {i} /\ ValueSofar(key)' = strtoul(t[i + 1])
  <1>1. Under(key)' = Under(key) /\ Under(key) \subseteq Int /\ i \in Nat
    BY LenProperties DEF Under, Elements, Tokens, Types
  <1>2. Sofar(key)' = {k \in Under(key) : k < i + 1}
    BY <1>1 DEF Sofar
  <1>3. Sofar(key)' = Sofar(key) \cup {i}
    BY <1>1, <1>2 DEF Sofar
  <1>4. /\ i \in Sofar(key)' /\ Sofar(key)' \subseteq Int
        /\ \A l \in Sofar(key)' : l <= i
    BY <1>1, <1>2
  <1>5. LastOf(Sofar(key)') = i
    BY <1>4, LastOfMax
  <1> QED
    BY <1>3, <1>4, <1>5 DEF ValueSofar

(* At the end of the tokens the loop has met every element.                *)
LEMMA SofarIsAll ==
  ASSUME Types, Tokens, phase = "loop", ~InLoop, NEW key
  PROVE  Sofar(key) = Under(key) /\ ValueSofar(key) = ValueOf(key)
  <1>1. Len(t) \in Nat /\ i \in Nat /\ count \in Nat /\ Len(t) = count
    BY LenProperties DEF Types, Tokens
  <1>2. i >= Len(t)
    BY <1>1 DEF InLoop
  <1>3. \A k \in Under(key) : k < i
    BY <1>1, <1>2 DEF Under, Elements
  <1>4. Sofar(key) = Under(key)
    BY <1>3 DEF Sofar
  <1> QED
    BY <1>4 DEF ValueSofar, ValueOf

(* No token is under two keys.                                             *)
LEMMA OneKey ==
  ASSUME NEW key
  PROVE  i \in Under(key) => IsElement(t[i]) /\ Key(t[i]) = key
  BY DEF Under, Elements

(* What the loop has done is kept by a step that changes none of it.       *)
LEMMA FollowsFrame ==
  ASSUME Follows, UNCHANGED <<phase, t, i, args, addr_found, job, ram, touched>>
  PROVE  Follows'
  <1>1. \A key : Sofar(key)' = Sofar(key) /\ ValueSofar(key)' = ValueSofar(key) /\ Under(key)' = Under(key)
    BY SofarStays
  <1>2. PlacesSofar' = PlacesSofar /\ \A k : LastThere(k)' <=> LastThere(k)
    BY <1>1 DEF PlacesSofar, LastThere
  <1> QED
    BY <1>1, <1>2 DEF Follows

(* Outside of the loop over the tokens nothing is claimed of it.           *)
LEMMA FollowsOut ==
  ASSUME phase' \notin {"loop", "image"}
  PROVE  Follows'
  BY DEF Follows

(* The loop goes on behind a token; images and their places are as before. *)
LEMMA FollowsLoop ==
  ASSUME Types, Tokens, Follows, phase = "loop", phase' = "loop",
         UNCHANGED <<t, ram, touched>>, i' = i + 1, i \notin Under("image"),
         \A r \in {"r1", "r2", "r3"} : args'[r] = ValueSofar(r)',
         addr_found' <=> Sofar("addr")' # {},
         args'.addr = IF addr_found' THEN ValueSofar("addr")' ELSE ValueSofar("image")'
  PROVE  Follows'
  <1>1. Sofar("image")' = Sofar("image")
    BY SofarPasses
  <1>2. PlacesSofar' = PlacesSofar /\ \A k : LastThere(k)' <=> LastThere(k)
    BY <1>1 DEF PlacesSofar, LastThere
  <1>3. \A k \in Sofar("image")' : LastThere(k)' => ram'[strtoul(t'[k + 1])].file = FileName(t'[k])
    BY <1>1, <1>2 DEF Follows
  <1>4. touched' = PlacesSofar'
    BY <1>2 DEF Follows
  <1> QED
    BY <1>3, <1>4 DEF Follows

(* A copy into the place of the image under way disturbs no other place.   *)
LEMMA FollowsChunk ==
  ASSUME Types, Tokens, Follows, phase = "image", NEW upto, Write(upto),
         UNCHANGED <<phase, t, i, args, addr_found>>, job'.file = job.file, job'.to = job.to
  PROVE  Follows'
  <1>1. \A key : Sofar(key)' = Sofar(key) /\ ValueSofar(key)' = ValueSofar(key) /\ Under(key)' = Under(key)
    BY SofarStays
  <1>2. PlacesSofar' = PlacesSofar /\ \A k : LastThere(k)' <=> LastThere(k)
    BY <1>1 DEF PlacesSofar, LastThere
  <1>3. /\ \A a \in Places \ {job.to} : ram'[a] = ram[a]
        /\ touched' = touched \cup {job.to}
    BY WriteEffect
  <1>4. \A k \in Sofar("image") : strtoul(t[k + 1]) \in Places
    BY DEF Sofar, Tokens
  <1>5. \A k \in Sofar("image")' :
          LastThere(k)' /\ strtoul(t'[k + 1]) # job'.to => ram'[strtoul(t'[k + 1])].file = FileName(t'[k])
    BY <1>1, <1>2, <1>3, <1>4 DEF Follows
  <1>6. touched' \cup {job'.to} = PlacesSofar' \cup {job'.to}
    BY <1>2, <1>3 DEF Follows
  <1>7. /\ \A r \in {"r1", "r2", "r3"} : args'[r] = ValueSofar(r)'
        /\ addr_found' <=> Sofar("addr")' # {}
        /\ args'.addr = IF addr_found' THEN ValueSofar("addr")' ELSE ValueSofar("image")'
        /\ i' \in Under("image")' /\ job'.file = FileName(t'[i']) /\ job'.to = strtoul(t'[i' + 1])
    BY <1>1 DEF Follows
  <1> QED
    BY <1>5, <1>6, <1>7 DEF Follows

(* The end of a copy: the image is the last one for its place so far.      *)
LEMMA FollowsCopied ==
  ASSUME Types, Tokens, Follows, phase = "image", NEW upto, Write(upto), Copied,
         UNCHANGED <<t, addr_found>>
  PROVE  Follows'
  <1>1. /\ phase' = "loop" /\ i' = i + 1
        /\ args' = IF addr_found THEN args ELSE [args EXCEPT !.addr = job.to]
    BY DEF Copied
  <1>2. i \in Under("image") /\ job.file = FileName(t[i]) /\ job.to = strtoul(t[i + 1])
    BY DEF Follows
  <1>3. Sofar("image")' = Sofar("image") \cup {i} /\ ValueSofar("image")' = job.to
    BY <1>1, <1>2, SofarGrows
  <1>4. \A key \in {"r1", "r2", "r3", "addr"} :
          Sofar(key)' = Sofar(key) /\ ValueSofar(key)' = ValueSofar(key)
    <2> SUFFICES ASSUME NEW key \in {"r1", "r2", "r3", "addr"}
                 PROVE  Sofar(key)' = Sofar(key) /\ ValueSofar(key)' = ValueSofar(key)
      OBVIOUS
    <2>1. i \notin Under(key)
      BY <1>2, OneKey
    <2> QED
      BY <1>1, <2>1, SofarPasses
  <1>5. /\ ram'[job.to] = [file |-> job.file, bytes |-> upto]
        /\ \A a \in Places \ {job.to} : ram'[a] = ram[a]
        /\ touched' = touched \cup {job.to}
    BY WriteEffect
  <1>6. /\ \A r \in {"r1", "r2", "r3"} : args'[r] = args[r]
        /\ args'.addr = IF addr_found THEN args.addr ELSE job.to
    BY <1>1 DEF Types
  <1>7. PlacesSofar' = PlacesSofar \cup {job.to}
    BY <1>2, <1>3 DEF PlacesSofar
  <1>8. touched' = PlacesSofar'
    BY <1>5, <1>7 DEF Follows
  <1>9. ASSUME NEW k \in Sofar("image")', LastThere(k)'
        PROVE  ram'[strtoul(t[k + 1])].file = FileName(t[k])
    <2>1. CASE k = i
      BY <1>2, <1>5, <2>1
    <2>2. CASE k # i
      <3>0. k \in Sofar("image")
        BY <1>3, <1>9, <2>2
      <3>1. k \in Sofar("image") /\ k < i /\ k \in Int /\ i \in Int
        BY <3>0 DEF Sofar, Under, Elements, Types
      <3>2. strtoul(t[k + 1]) # job.to
        <4>1. i \in Sofar("image")'
          BY <1>3
        <4>2. strtoul(t[i + 1]) = strtoul(t[k + 1]) => i <= k
          BY <1>9, <4>1 DEF LastThere
        <4> QED
          BY <1>2, <3>1, <4>2
      <3>3. LastThere(k)
        BY <1>3, <1>9 DEF LastThere
      <3>4. ram[strtoul(t[k + 1])].file = FileName(t[k]) /\ strtoul(t[k + 1]) \in Places
        BY <3>1, <3>2, <3>3 DEF Follows, Tokens, Sofar
      <3> QED
        BY <1>5, <3>2, <3>4
    <2> QED
      BY <2>1, <2>2
  <1>10. /\ \A r \in {"r1", "r2", "r3"} : args'[r] = ValueSofar(r)'
         /\ addr_found' <=> Sofar("addr")' # {}
         /\ args'.addr = IF addr_found' THEN ValueSofar("addr")' ELSE ValueSofar("image")'
    BY <1>3, <1>4, <1>6 DEF Follows
  <1> QED
    BY <1>1, <1>8, <1>9, <1>10 DEF Follows

(* The arguments after one token, whatever it is.                          *)
LEMMA FollowsElement ==
  ASSUME Types, Tokens, Follows, Element
  PROVE  Follows'
  <1>1. InLoop /\ phase = "loop" /\ UNCHANGED <<t, count, ram, touched>>
    BY DEF Element, InLoop, document
  <1>2. /\ \A r \in {"r1", "r2", "r3"} : args[r] = ValueSofar(r)
        /\ addr_found <=> Sofar("addr") # {}
        /\ args.addr = IF addr_found THEN ValueSofar("addr") ELSE ValueSofar("image")
    BY <1>1 DEF Follows
  <1>3. CASE ~IsElement(t[i]) \/ Key(t[i]) = "bootargs"
    <2>1. i' = i + 1 /\ UNCHANGED <<phase, args, addr_found>>
      BY <1>3 DEF Element
    <2>2. \A key \in {"r1", "r2", "r3", "addr", "image"} : i \notin Under(key)
      BY <1>3, OneKey
    <2>3. \A key \in {"r1", "r2", "r3", "addr", "image"} :
            Sofar(key)' = Sofar(key) /\ ValueSofar(key)' = ValueSofar(key)
      BY <1>1, <2>1, <2>2, SofarPasses
    <2> QED
      BY <1>1, <1>2, <2>1, <2>2, <2>3, FollowsLoop
  <1>4. CASE IsElement(t[i]) /\ Key(t[i]) = "addr"
    <2>1. /\ i' = i + 1 /\ UNCHANGED phase /\ addr_found' = TRUE
          /\ args' = [args EXCEPT !.addr = strtoul(t[i + 1])]
      BY <1>4 DEF Element
    <2>2. i \in Under("addr") /\ \A key \in {"r1", "r2", "r3", "image"} : i \notin Under(key)
      BY <1>1, <1>4, OneKey, ElementHere DEF Under
    <2>3. \A key \in {"r1", "r2", "r3", "image"} :
            Sofar(key)' = Sofar(key) /\ ValueSofar(key)' = ValueSofar(key)
      BY <1>1, <2>1, <2>2, SofarPasses
    <2>4. Sofar("addr")' # {} /\ ValueSofar("addr")' = strtoul(t[i + 1])
      BY <1>1, <2>1, <2>2, SofarGrows
    <2>5. args'.addr = strtoul(t[i + 1]) /\ \A r \in {"r1", "r2", "r3"} : args'[r] = args[r]
      BY <2>1 DEF Types
    <2> QED
      BY <1>1, <1>2, <2>1, <2>2, <2>3, <2>4, <2>5, FollowsLoop
  <1>5. CASE IsElement(t[i]) /\ Key(t[i]) \in {"r1", "r2", "r3"}
    <2>0. PICK key \in {"r1", "r2", "r3"} : Key(t[i]) = key
      BY <1>5
    <2>1. /\ i' = i + 1 /\ UNCHANGED <<phase, addr_found>>
          /\ args' = [args EXCEPT ![key] = strtoul(t[i + 1])]
      BY <1>5, <2>0 DEF Element
    <2>2. /\ i \in Under(key)
          /\ \A other \in {"r1", "r2", "r3", "addr", "image"} \ {key} : i \notin Under(other)
      BY <1>1, <1>5, <2>0, OneKey, ElementHere DEF Under
    <2>3. \A other \in {"r1", "r2", "r3", "addr", "image"} \ {key} :
            Sofar(other)' = Sofar(other) /\ ValueSofar(other)' = ValueSofar(other)
      BY <1>1, <2>1, <2>2, SofarPasses
    <2>4. ValueSofar(key)' = strtoul(t[i + 1])
      BY <1>1, <2>1, <2>2, SofarGrows
    <2>5. /\ args'[key] = strtoul(t[i + 1]) /\ args'.addr = args.addr
          /\ \A r \in {"r1", "r2", "r3"} \ {key} : args'[r] = args[r]
      <3>1. CASE key = "r1"
        BY <2>1, <3>1 DEF Types
      <3>2. CASE key = "r2"
        BY <2>1, <3>2 DEF Types
      <3>3. CASE key = "r3"
        BY <2>1, <3>3 DEF Types
      <3> QED
        BY <3>1, <3>2, <3>3
    <2>6. \A r \in {"r1", "r2", "r3"} : args'[r] = ValueSofar(r)'
      BY <1>2, <2>3, <2>4, <2>5
    <2>7. /\ addr_found' <=> Sofar("addr")' # {}
          /\ args'.addr = IF addr_found' THEN ValueSofar("addr")' ELSE ValueSofar("image")'
      BY <1>2, <2>1, <2>3, <2>5
    <2> QED
      BY <1>1, <2>1, <2>2, <2>6, <2>7, FollowsLoop
  <1>6. CASE IsElement(t[i]) /\ Key(t[i]) = "image"
    <2>1. /\ phase' = "image" /\ UNCHANGED <<i, args, addr_found>>
          /\ job' = [file |-> FileName(t[i]), to |-> strtoul(t[i + 1]), offset |-> 0]
      BY <1>6 DEF Element
    <2>2. \A key : Sofar(key)' = Sofar(key) /\ ValueSofar(key)' = ValueSofar(key) /\ Under(key)' = Under(key)
      BY <1>1, <2>1, SofarStays
    <2>3. PlacesSofar' = PlacesSofar /\ \A k : LastThere(k)' <=> LastThere(k)
      BY <1>1, <2>2 DEF PlacesSofar, LastThere
    <2>4. i \in Under("image")
      BY <1>1, <1>6, ElementHere DEF Under
    <2>5. \A k \in Sofar("image")' : LastThere(k)' => ram'[strtoul(t'[k + 1])].file = FileName(t'[k])
      BY <1>1, <2>2, <2>3 DEF Follows
    <2>6. touched' \cup {job'.to} = PlacesSofar' \cup {job'.to}
      BY <1>1, <2>3 DEF Follows
    <2>7. i' \in Under("image")' /\ job'.file = FileName(t'[i']) /\ job'.to = strtoul(t'[i' + 1])
      BY <1>1, <2>1, <2>2, <2>4
    <2>8. /\ \A r \in {"r1", "r2", "r3"} : args'[r] = ValueSofar(r)'
          /\ addr_found' <=> Sofar("addr")' # {}
          /\ args'.addr = IF addr_found' THEN ValueSofar("addr")' ELSE ValueSofar("image")'
      BY <1>2, <2>1, <2>2
    <2> QED
      BY <2>1, <2>5, <2>6, <2>7, <2>8 DEF Follows
  <1> QED
    BY <1>3, <1>4, <1>5, <1>6 DEF Key, Keywords

(* The loop follows the document step by step, and the jump is what it     *)
(* ends with.                                                              *)
LEMMA FollowsStep ==
  ASSUME Types, Tokens, Copies, Follows, JumpAsDocument, [ConsoleNext]_consoleVars
  PROVE  Follows' /\ JumpAsDocument'
  <1>1. CASE BootCommand
    <2>1. phase' \in {"json", "flash"}
      BY <1>1 DEF BootCommand, netboot, sdcardboot, sataboot, flashboot
    <2> QED
      BY <2>1, FollowsOut DEF JumpAsDocument
  <1>2. CASE TftpJson \/ ReadJson
    <2>1. CASE ParseJson
      <3>1. phase' = "loop" /\ touched' = {} /\ i' = 1
        BY <2>1 DEF ParseJson, Parsed
      <3>2. args' = NoArgs /\ ~addr_found'
        BY <1>2 DEF TftpJson, ReadJson, found, Copies
      <3>3. \A key : Under(key)' \subseteq 1 .. Len(t') - 1
        BY DEF Under, Elements
      <3>4. \A key : Sofar(key)' = {} /\ ValueSofar(key)' = 0
        BY <3>1, <3>3 DEF Sofar, ValueSofar
      <3>5. PlacesSofar' = {}
        BY <3>4 DEF PlacesSofar
      <3>6. args'.addr = 0 /\ \A r \in {"r1", "r2", "r3"} : args'[r] = 0
        BY <3>2 DEF NoArgs
      <3> QED
        BY <3>1, <3>2, <3>4, <3>5, <3>6 DEF Follows, JumpAsDocument
    <2>2. CASE ~ParseJson
      <3>1. phase' \in {"idle", "bin"}
        BY <1>2, <2>2 DEF TftpJson, ReadJson, JsonReturns
      <3> QED
        BY <3>1, FollowsOut DEF JumpAsDocument
    <2> QED
      BY <2>1, <2>2
  <1>3. CASE f_mount \/ f_open
    <2>1. CASE GiveUp
      <3>1. phase' \in {"idle", "bin"}
        BY <2>1 DEF GiveUp, JsonReturns
      <3> QED
        BY <3>1, FollowsOut DEF JumpAsDocument
    <2>2. CASE ~GiveUp
      <3>1. UNCHANGED <<phase, t, i, args, addr_found, job, ram, touched>> /\ phase # "booted"
        BY <1>3, <2>2 DEF f_mount, f_open, found, document
      <3> QED
        BY <3>1, FollowsFrame DEF JumpAsDocument
    <2> QED
      BY <2>1, <2>2
  <1>4. CASE Element
    <2>1. phase' # "booted"
      BY <1>4 DEF Element, InLoop
    <2> QED
      BY <1>4, <2>1, FollowsElement DEF JumpAsDocument
  <1>5. CASE EndOfTokens
    <2>1. CASE image_found /\ boot("json", args)
      <3>1. phase = "loop" /\ ~InLoop /\ UNCHANGED <<t, ram, touched>>
        BY <1>5 DEF EndOfTokens, document
      <3>2. \A key : Sofar(key) = Under(key) /\ ValueSofar(key) = ValueOf(key)
        BY <3>1, SofarIsAll
      <3>3. phase' = "booted" /\ jump' = [by |-> "json", args |-> args]
        BY <2>1 DEF boot
      <3>4. \A key : Under(key)' = Under(key) /\ ValueOf(key)' = ValueOf(key)
        BY <3>1 DEF Under, Elements, ValueOf
      <3>5. /\ \A r \in {"r1", "r2", "r3"} : args[r] = ValueOf(r)
            /\ args.addr = IF Under("addr") # {} THEN ValueOf("addr") ELSE ValueOf("image")
            /\ touched = {strtoul(t[k + 1]) : k \in Under("image")}
        BY <3>1, <3>2 DEF Follows, PlacesSofar
      <3>6. \A k \in Under("image") :
              (\A l \in Under("image") : strtoul(t[l + 1]) = strtoul(t[k + 1]) => l <= k)
                => ram[strtoul(t[k + 1])].file = FileName(t[k])
        BY <3>1, <3>2 DEF Follows, LastThere
      <3>7. JumpAsDocument'
        BY <3>1, <3>3, <3>4, <3>5, <3>6 DEF JumpAsDocument
      <3> QED
        BY <3>3, <3>7, FollowsOut
    <2>2. CASE JsonReturns
      <3>1. phase' \in {"idle", "bin"}
        BY <2>2 DEF JsonReturns
      <3> QED
        BY <3>1, FollowsOut DEF JumpAsDocument
    <2> QED
      BY <1>5, <2>1, <2>2 DEF EndOfTokens
  <1>6. CASE TftpImage \/ ReadChunk
    <2>1. phase \in {"image", "bin"} /\ UNCHANGED <<t, addr_found>>
      BY <1>6 DEF TftpImage, ReadChunk, document
    <2>2. CASE GiveUp
      <3>1. phase' \in {"idle", "bin"}
        BY <2>2 DEF GiveUp, JsonReturns
      <3> QED
        BY <3>1, FollowsOut DEF JumpAsDocument
    <2>3. CASE Copied /\ \E upto : Write(upto)
      <3>1. CASE phase = "image"
        <4>1. phase' = "loop"
          BY <3>1, <2>3 DEF Copied
        <4> QED
          BY <2>1, <2>3, <3>1, <4>1, FollowsCopied DEF JumpAsDocument
      <3>2. CASE phase = "bin"
        <4>1. phase' = "booted" /\ jump'.by = "bin"
          BY <2>3, <3>2 DEF Copied, boot
        <4> QED
          BY <4>1, FollowsOut DEF JumpAsDocument
      <3> QED
        BY <2>1, <3>1, <3>2
    <2>4. CASE ReadChunk /\ NextChunk
      <3>1. /\ UNCHANGED <<phase, i, args>> /\ Write(job.offset + br)
            /\ job'.file = job.file /\ job'.to = job.to
        BY <2>4 DEF NextChunk, Types
      <3>2. CASE phase = "image"
        BY <2>1, <3>1, <3>2, FollowsChunk DEF JumpAsDocument
      <3>3. CASE phase = "bin"
        BY <3>1, <3>3, FollowsOut DEF JumpAsDocument
      <3> QED
        BY <2>1, <3>2, <3>3
    <2>5. CASE TftpImage
      BY <2>2, <2>3, <2>5 DEF TftpImage
    <2>6. CASE ReadChunk /\ EndOfCopy
      BY <2>2, <2>3, <2>6 DEF EndOfCopy
    <2> QED
      BY <1>6, <2>4, <2>5, <2>6, ReadChunkCases
  <1>7. CASE CheckFlash \/ CopyFlash
    <2>1. phase' \in {"flash", "idle"} \/ (phase' = "booted" /\ jump'.by = "flash")
      BY <1>7 DEF CheckFlash, CopyFlash, boot
    <2> QED
      BY <2>1, FollowsOut DEF JumpAsDocument
  <1>8. CASE AddressCommand \/ Booted \/ Ended \/ UNCHANGED consoleVars
    <2>1. UNCHANGED <<phase, t, i, args, addr_found, job, ram, touched, jump>>
      BY <1>8 DEF AddressCommand, Booted, Ended, consoleVars, vars, found, document
    <2>2. \A key : Under(key)' = Under(key) /\ ValueOf(key)' = ValueOf(key)
      BY <2>1 DEF Under, Elements, ValueOf
    <2> QED
      BY <2>1, <2>2, FollowsFrame DEF JumpAsDocument
  <1> QED
    BY <1>1, <1>2, <1>3, <1>4, <1>5, <1>6, <1>7, <1>8 DEF ConsoleNext, ConsoleWork, Work

-------------------------------------------------------------------------------
(* The theorems.                                                           *)

(* The console starts with nothing mounted, parsed or copied.              *)
LEMMA ConsoleInitInv ==
  ConsoleInit => BootInv
  <1> SUFFICES ASSUME ConsoleInit PROVE BootInv
    OBVIOUS
  <1>1. Init
    BY DEF ConsoleInit
  <1>2. Types
    <2>1. MAIN_RAM_BASE \in Places /\ "none" \in Files
      BY BootAssumption DEF Files
    <2>2. job \in [file : Files, to : Places, offset : Nat]
      BY <1>1, <2>1 DEF Init, NoJob
    <2>3. ram \in [Places -> [file : Files, bytes : Nat]]
      BY <1>1, <2>1 DEF Init, Nothing
    <2>4. args \in [r1 : Nat, r2 : Nat, r3 : Nat, addr : Nat]
      BY <1>1 DEF Init, NoArgs
    <2>5. /\ mounted \in BOOLEAN /\ opened \in BOOLEAN
          /\ addr_found \in BOOLEAN /\ image_found \in BOOLEAN
      BY <1>1 DEF Init
    <2>6. phase = "idle" /\ dev = "net" /\ i = 1 /\ touched = {}
          /\ flash \in [length : Nat, crc_ok : BOOLEAN]
      BY <1>1 DEF Init
    <2> QED
      BY <2>2, <2>3, <2>4, <2>5, <2>6 DEF Types
  <1>3. Tokens
    <2>1. t = <<>> /\ count = 0 /\ Elements = {}
      BY <1>1 DEF Init, Elements
    <2> QED
      BY <2>1 DEF Tokens, Under
  <1>4. Volume /\ Copies /\ Follows /\ NothingHalfLoaded /\ JumpAsDocument
    BY <1>1 DEF Init, Volume, OnDisk, Copies, Follows, NothingHalfLoaded, JumpAsDocument
  <1> QED
    BY <1>2, <1>3, <1>4 DEF BootInv

(* BootInv is an invariant of every sequence of commands.                  *)
LEMMA ConsoleInv ==
  ConsoleSpec => []BootInv
  <1>1. BootInv /\ [ConsoleNext]_consoleVars => BootInv'
    <2> SUFFICES ASSUME BootInv, [ConsoleNext]_consoleVars PROVE BootInv'
      OBVIOUS
    <2>1. /\ Types /\ Volume /\ Tokens /\ Copies /\ Follows
          /\ NothingHalfLoaded /\ JumpAsDocument
      BY DEF BootInv
    <2>2. Types' /\ Volume' /\ Tokens'
      BY <2>1, TypesStep, VolumeStep, TokensStep
    <2>3. Copies' /\ NothingHalfLoaded'
      BY <2>1, CopiesStep
    <2>4. Follows' /\ JumpAsDocument'
      BY <2>1, FollowsStep
    <2> QED
      BY <2>2, <2>3, <2>4 DEF BootInv
  <1> QED
    BY <1>1, ConsoleInitInv, PTL DEF ConsoleSpec

(* Whatever was cut off, read in pieces or left behind by earlier commands,*)
(* boot() jumps only into images that are whole: for every file size and   *)
(* chunk size of copy_file_from_sdcard_to_ram and every content of flash.  *)
THEOREM OnlyWholeImages == ConsoleSpec => []NothingHalfLoaded
  <1>1. BootInv => NothingHalfLoaded
    BY DEF BootInv
  <1> QED
    BY <1>1, ConsoleInv, PTL

(* The loop over the tokens hands over what the document says, for every   *)
(* document that fits, cut off anywhere, with an error of jsmn_parse taken *)
(* for a number of tokens or not.                                          *)
THEOREM JumpsAsToldTo == ConsoleSpec => []JumpAsDocument
  <1>1. BootInv => JumpAsDocument
    BY DEF BootInv
  <1> QED
    BY <1>1, ConsoleInv, PTL

(* No path out of the functions that read a disk leaves the volume mounted *)
(* or the file open.                                                       *)
THEOREM NoVolumeLeft == ConsoleSpec => []VolumeReleased
  <1>1. BootInv => VolumeReleased
    BY DEF BootInv, Volume, OnDisk, VolumeReleased
  <1> QED
    BY <1>1, ConsoleInv, PTL

-------------------------------------------------------------------------------
(***************************************************************************)
(* The parsers of the addresses.  A text is cut into parts at its          *)
(* separators (Splits), the parser goes over it character by character     *)
(* (Rounds): both are recursive functions, so that they satisfy their      *)
(* equations has to be shown first, and then, by induction on the          *)
(* characters, that the parser has converted all parts but the last and    *)
(* holds that one in its buffer (Tracks).                                  *)
(***************************************************************************)

(* The order of the naturals as a set of pairs: what is shown by induction *)
(* is a set too, because no backend instantiates a predicate.              *)
Below == {ss \in Nat \X Nat : ss[1] < ss[2]}

(* A set of naturals has a least one.                                      *)
LEMMA LeastNatural ==
  ASSUME NEW S, S \subseteq Nat, S # {}
  PROVE  \E x \in S : \A y \in S : x <= y
<1>1. IsWellFoundedOn(Below, Nat)
  BY NatLessThanWellFounded DEF OpToRel, Below
<1>2. PICK x \in S : \A y \in S : ~ (<<y, x>> \in Below)
  BY <1>1, WFMin
<1>3. ASSUME NEW y \in S PROVE x <= y
  <2>1. x \in Nat /\ y \in Nat  BY <1>2
  <2>2. ~(y < x)  BY <2>1, <1>2 DEF Below
  <2>. QED  BY ONLY <2>1, <2>2
<1>. QED  BY <1>2, <1>3

(* A set that has 0, and m + 1 with every m, has every natural.            *)
LEMMA Induction ==
  ASSUME NEW S, 0 \in S, \A m \in Nat : m \in S => m + 1 \in S
  PROVE  \A m \in Nat : m \in S
<1> DEFINE T == {m \in Nat : m \notin S}
<1>1. SUFFICES ASSUME T # {} PROVE FALSE  OBVIOUS
<1>2. PICK x \in T : \A y \in T : x <= y
  BY <1>1, LeastNatural
<1>3. x # 0 /\ x \in Nat  BY <1>2
<1>4. PICK y \in Nat : x = y + 1
  <2>1. x - 1 \in Nat /\ x = (x - 1) + 1  BY ONLY <1>3
  <2>. QED  BY <2>1
<1>5. ~(x <= y)  BY ONLY <1>4
<1>6. y \in S  BY <1>2, <1>5
<1>. QED  BY <1>2, <1>4, <1>6

(* A function by recursion on 0 .. lim exists: g gives the next value.     *)
StepsIn(g, lim, V) == g \in [(1 .. lim) \X V -> V]
ByRecursion(f, x0, g, lim, V) ==
  f \in [0 .. lim -> V] /\ f[0] = x0 /\ \A k \in 1 .. lim : f[k] = g[<<k, f[k - 1]>>]

(* Such a function exists, by induction on lim.                            *)
LEMMA RecursionExists ==
  ASSUME NEW V, NEW x0 \in V, NEW lim \in Nat, NEW g, StepsIn(g, lim, V)
  PROVE  \E f : ByRecursion(f, x0, g, lim, V)
<1>0. g \in [(1 .. lim) \X V -> V]  BY DEF StepsIn
<1> DEFINE Rec(f, m) == f[0] = x0 /\ \A k \in 1 .. m : f[k] = g[<<k, f[k - 1]>>]
           S == {m \in Nat : m <= lim => \E f \in [0 .. m -> V] : Rec(f, m)}
<1>1. 0 \in S
  <2>1. [k \in 0 .. 0 |-> x0] \in [0 .. 0 -> V] /\ Rec([k \in 0 .. 0 |-> x0], 0)  OBVIOUS
  <2> HIDE DEF Rec
  <2>. QED  BY <2>1
<1>2. ASSUME NEW m \in Nat, m \in S PROVE m + 1 \in S
  <2>1. SUFFICES ASSUME m + 1 <= lim PROVE \E f \in [0 .. m + 1 -> V] : Rec(f, m + 1)
    <3> HIDE DEF Rec
    <3>. QED  OBVIOUS
  <2>2. m <= lim /\ m + 1 \in 1 .. lim  BY ONLY <2>1, lim \in Nat, m \in Nat
  <2>3. PICK f \in [0 .. m -> V] : Rec(f, m)
    <3> HIDE DEF Rec
    <3>. QED  BY <1>2, <2>2
  <2> DEFINE v == g[<<m + 1, f[m]>>]
             h == [k \in 0 .. m + 1 |-> IF k = m + 1 THEN v ELSE f[k]]
  <2>4. v \in V
    <3>1. f[m] \in V  BY <2>3
    <3>. QED  BY <1>0, <2>2, <3>1
  <2> HIDE DEF v
  <2>5. h \in [0 .. m + 1 -> V]  BY <2>4
  <2>6. h[0] = x0  BY <2>3
  <2>7. ASSUME NEW k \in 1 .. m + 1 PROVE h[k] = g[<<k, h[k - 1]>>]
    <3>1. CASE k = m + 1
      <4>1. h[k] = v /\ h[k - 1] = f[m]  BY <3>1
      <4>. QED  BY ONLY <3>1, <4>1 DEF v
    <3>2. CASE k # m + 1
      <4>1. k \in 1 .. m  BY ONLY <3>2, k \in 1 .. m + 1, m \in Nat
      <4>2. h[k] = f[k] /\ h[k - 1] = f[k - 1]  BY ONLY <4>1, m \in Nat DEF h
      <4>. QED  BY <2>3, <4>1, <4>2
    <3>. QED  BY <3>1, <3>2
  <2> HIDE DEF h
  <2>8. Rec(h, m + 1)  BY <2>6, <2>7
  <2> HIDE DEF Rec
  <2>. QED  BY <2>5, <2>8
<1> HIDE DEF Rec
<1>3. \A m \in Nat : m \in S
  <2> HIDE DEF S
  <2>. QED  BY <1>1, <1>2, Induction
<1>4. \E f \in [0 .. lim -> V] : Rec(f, lim)
  <2>1. lim \in S /\ lim <= lim  BY <1>3
  <2>. QED  BY <2>1
<1>. QED  BY <1>4 DEF Rec, ByRecursion

(* The parts of a text: at least one, and sequences of characters.         *)
Parts == {parts \in Seq(Seq(Typed)) : parts # <<>>}

(* What one more character does to the parts.                              *)
LEMMA SplitAtFacts ==
  ASSUME NEW parts \in Parts, NEW c \in Typed
  PROVE  /\ SplitAt(parts, c) \in Parts /\ Len(parts) \in Nat \ {0} /\ parts[Len(parts)] \in Seq(Typed)
         /\ c = SEPARATOR => /\ Len(SplitAt(parts, c)) = Len(parts) + 1
                             /\ SplitAt(parts, c)[Len(parts) + 1] = <<>>
                             /\ \A x \in 1 .. Len(parts) : SplitAt(parts, c)[x] = parts[x]
         /\ c # SEPARATOR => /\ Len(SplitAt(parts, c)) = Len(parts)
                             /\ SplitAt(parts, c)[Len(parts)] = Append(parts[Len(parts)], c)
                             /\ \A x \in 1 .. Len(parts) - 1 : SplitAt(parts, c)[x] = parts[x]
<1>1. parts \in Seq(Seq(Typed)) /\ Len(parts) \in Nat \ {0}
  BY EmptySeq DEF Parts
<1>2. parts[Len(parts)] \in Seq(Typed)
  <2>1. Len(parts) \in 1 .. Len(parts)  BY <1>1
  <2>. QED  BY <1>1, <2>1, ElementOfSeq
<1>3. CASE c = SEPARATOR
  <2>1. SplitAt(parts, c) = Append(parts, <<>>)  BY <1>3 DEF SplitAt
  <2>2. <<>> \in Seq(Typed)  OBVIOUS
  <2>3. /\ Append(parts, <<>>) \in Seq(Seq(Typed)) /\ Append(parts, <<>>) # <<>>
        /\ Len(Append(parts, <<>>)) = Len(parts) + 1
        /\ Append(parts, <<>>)[Len(parts) + 1] = <<>>
        /\ \A x \in 1 .. Len(parts) : Append(parts, <<>>)[x] = parts[x]
    BY <1>1, <2>2, AppendProperties, SMTT(30)
  <2>. QED  BY <1>1, <1>2, <1>3, <2>1, <2>3 DEF Parts
<1>4. CASE c # SEPARATOR
  <2> DEFINE p == Append(parts[Len(parts)], c)
             q == [parts EXCEPT ![Len(parts)] = p]
  <2>1. SplitAt(parts, c) = q  BY <1>4 DEF SplitAt
  <2>2. p \in Seq(Typed)  BY <1>2, AppendProperties
  <2> HIDE DEF p
  <2>3. /\ q \in Seq(Seq(Typed)) /\ Len(q) = Len(parts) /\ q[Len(parts)] = p
        /\ \A x \in 1 .. Len(parts) - 1 : q[x] = parts[x]
    <3>1. Len(parts) \in 1 .. Len(parts)  BY <1>1
    <3>2. q \in Seq(Seq(Typed)) /\ Len(q) = Len(parts)  BY <1>1, <2>2, <3>1
    <3>3. q[Len(parts)] = p  BY <1>1, <3>1
    <3>4. \A x \in 1 .. Len(parts) - 1 : q[x] = parts[x]  BY <1>1
    <3>. QED  BY <3>2, <3>3, <3>4
  <2> HIDE DEF q
  <2>4. q # <<>>
    <3>1. Len(q) # 0  BY <1>1, <2>3
    <3>. QED  BY <3>1, <2>3, EmptySeq
  <2>. QED  BY <1>1, <1>2, <1>4, <2>1, <2>3, <2>4 DEF Parts, p
<1>. QED  BY <1>3, <1>4

(* The parts after each character, by their recursion.                     *)
LEMMA SplitsRec ==
  ASSUME NEW text \in Seq(Typed)
  PROVE  /\ Splits(text)[0] = << <<>> >>
         /\ \A k \in 0 .. Len(text) : Splits(text)[k] \in Parts
         /\ \A k \in 1 .. Len(text) : Splits(text)[k] = SplitAt(Splits(text)[k - 1], text[k])
<1> DEFINE lim == Len(text)
           g == [kv \in (1 .. lim) \X Parts |-> SplitAt(kv[2], text[kv[1]])]
           D(f) == f = [k \in 0 .. Len(text) |-> IF k = 0 THEN << <<>> >> ELSE SplitAt(f[k - 1], text[k])]
<1>0. lim \in Nat  OBVIOUS
<1>a. << <<>> >> \in Parts
  <2>1. << <<>> >> \in Seq(Seq(Typed)) /\ << <<>> >> # <<>>  OBVIOUS
  <2>. QED  BY <2>1 DEF Parts
<1>b. ASSUME NEW k \in 1 .. lim, NEW parts \in Parts PROVE SplitAt(parts, text[k]) \in Parts
  <2>1. text[k] \in Typed  OBVIOUS
  <2>. QED  BY <2>1, SplitAtFacts
<1>1. g \in [(1 .. lim) \X Parts -> Parts]  BY <1>b
<1>2. PICK f \in [0 .. lim -> Parts] :
        f[0] = << <<>> >> /\ \A k \in 1 .. lim : f[k] = g[<<k, f[k - 1]>>]
  <2> DEFINE e == << <<>> >>
             V == Parts
  <2>1. e \in V /\ lim \in Nat /\ StepsIn(g, lim, V)  BY <1>0, <1>1, <1>a DEF StepsIn
  <2> HIDE DEF e, g, lim, V
  <2>2. \E f : ByRecursion(f, e, g, lim, V)  BY ONLY <2>1, RecursionExists
  <2>. QED  BY <2>2 DEF e, V, ByRecursion
<1>3. D(f)
  <2>1. ASSUME NEW k \in 1 .. lim PROVE f[k] = SplitAt(f[k - 1], text[k])
    <3>1. k - 1 \in 0 .. lim  BY ONLY <1>0, k \in 1 .. lim
    <3>2. <<k, f[k - 1]>> \in (1 .. lim) \X Parts  BY <3>1
    <3>3. g[<<k, f[k - 1]>>] = SplitAt(f[k - 1], text[k])  BY <3>2
    <3>. QED  BY <1>2, <3>3
  <2> DEFINE h == [k \in 0 .. lim |-> IF k = 0 THEN << <<>> >> ELSE SplitAt(f[k - 1], text[k])]
  <2>2. ASSUME NEW k \in 0 .. lim PROVE f[k] = h[k]
    <3>1. CASE k = 0  BY <3>1, <1>2
    <3>2. CASE k # 0
      <4>1. k \in 1 .. lim  BY ONLY <1>0, <3>2, k \in 0 .. lim
      <4>. QED  BY <2>1, <3>2, <4>1
    <3>. QED  BY <3>1, <3>2
  <2>3. h = [k \in 0 .. lim |-> h[k]]  OBVIOUS
  <2>4. f = h
    <3> HIDE DEF h
    <3>. QED  BY <2>2, <2>3
  <2>. QED  BY <2>4
<1> DEFINE s == Splits(text)
<1>4. D(s)  BY <1>3, Zenon DEF Splits
<1> HIDE DEF s
<1>5. s[0] = << <<>> >>
  <2>1. 0 \in 0 .. Len(text)  BY <1>0
  <2>. QED  BY <1>4, <2>1
<1>6. ASSUME NEW k \in 1 .. lim PROVE s[k] = SplitAt(s[k - 1], text[k])
  <2>1. k \in 0 .. Len(text) /\ k # 0  BY <1>0
  <2>. QED  BY ONLY <1>4, <2>1
<1>7. \A k \in 0 .. lim : s[k] \in Parts
  <2> DEFINE S == {k \in Nat : k <= lim => s[k] \in Parts}
  <2>1. 0 \in S  BY <1>5, <1>a
  <2>2. ASSUME NEW k \in Nat, k \in S PROVE k + 1 \in S
    <3>1. SUFFICES ASSUME k + 1 <= lim PROVE s[k + 1] \in Parts  OBVIOUS
    <3>2. k <= lim /\ k + 1 \in 1 .. lim /\ (k + 1) - 1 = k  BY ONLY <1>0, <3>1, k \in Nat
    <3>3. s[k] \in Parts  BY <2>2, <3>2
    <3>4. SplitAt(s[k], text[k + 1]) \in Parts  BY <1>b, <3>2, <3>3
    <3>. QED  BY <1>6, <3>2, <3>4
  <2>3. \A k \in Nat : k \in S
    <3> HIDE DEF S
    <3>. QED  BY <2>1, <2>2, Induction
  <2>4. ASSUME NEW k \in 0 .. lim PROVE k \in Nat /\ k <= lim  BY <1>0
  <2>. QED  BY <2>3, <2>4
<1>. QED  BY <1>5, <1>6, <1>7 DEF s

(* whole continues parts: only the last of parts may still grow.           *)
Continues(parts, whole) ==
  /\ Len(parts) <= Len(whole)
  /\ \A x \in 1 .. Len(parts) - 1 : parts[x] = whole[x]
  /\ Len(parts[Len(parts)]) <= Len(whole[Len(parts)])
  /\ \A y \in 1 .. Len(parts[Len(parts)]) : parts[Len(parts)][y] = whole[Len(parts)][y]

(* What continues the parts with one more character continues the parts.   *)
LEMMA ContinuesBack ==
  ASSUME NEW parts \in Parts, NEW c \in Typed, NEW whole \in Parts,
         Continues(SplitAt(parts, c), whole)
  PROVE  Continues(parts, whole)
<1> DEFINE next == SplitAt(parts, c)
           m == Len(parts)
           p == parts[m]
<1>1. /\ next \in Parts /\ m \in Nat \ {0} /\ p \in Seq(Typed)
      /\ c = SEPARATOR => /\ Len(next) = m + 1 /\ next[m + 1] = <<>>
                          /\ \A x \in 1 .. m : next[x] = parts[x]
      /\ c # SEPARATOR => /\ Len(next) = m /\ next[m] = Append(p, c)
                          /\ \A x \in 1 .. m - 1 : next[x] = parts[x]
  BY SplitAtFacts
<1>2. /\ Len(next) <= Len(whole)
      /\ \A x \in 1 .. Len(next) - 1 : next[x] = whole[x]
      /\ Len(next[Len(next)]) <= Len(whole[Len(next)])
      /\ \A y \in 1 .. Len(next[Len(next)]) : next[Len(next)][y] = whole[Len(next)][y]
  BY DEF Continues
<1>3. whole \in Seq(Seq(Typed)) /\ Len(whole) \in Nat  BY DEF Parts
<1> HIDE DEF next
<1>4. CASE c = SEPARATOR
  <2>1. Len(next) = m + 1 /\ (m + 1) - 1 = m /\ m \in 1 .. m /\ m <= Len(whole)
    BY ONLY <1>1, <1>2, <1>3, <1>4
  <2>2. \A x \in 1 .. m : parts[x] = whole[x]  BY ONLY <1>1, <1>2, <1>4, <2>1
  <2>3. p = whole[m]  BY ONLY <2>1, <2>2
  <2>4. Len(p) \in Nat /\ Len(p) <= Len(p)  BY <1>1
  <2>5. \A x \in 1 .. m - 1 : x \in 1 .. m  BY <1>1
  <2>. QED  BY ONLY <2>1, <2>2, <2>3, <2>4, <2>5 DEF Continues
<1>5. CASE c # SEPARATOR
  <2>1. Len(next) = m /\ m <= Len(whole) /\ m \in 1 .. Len(whole)  BY ONLY <1>1, <1>2, <1>3, <1>5
  <2>2. \A x \in 1 .. m - 1 : parts[x] = whole[x]  BY ONLY <1>1, <1>2, <1>5, <2>1
  <2>3. /\ Len(Append(p, c)) = Len(p) + 1
        /\ \A y \in 1 .. Len(p) : Append(p, c)[y] = p[y]
    BY <1>1, AppendProperties
  <2>4. whole[m] \in Seq(Typed) /\ Len(whole[m]) \in Nat /\ Len(p) \in Nat  BY <1>1, <1>3, <2>1
  <2>5. next[m] = Append(p, c)  BY <1>1, <1>5
  <2>6. Len(p) + 1 <= Len(whole[m])  BY ONLY <1>2, <2>1, <2>3, <2>5
  <2>7. Len(p) <= Len(whole[m])  BY ONLY <2>4, <2>6
  <2>8. ASSUME NEW y \in 1 .. Len(p) PROVE p[y] = whole[m][y]
    <3>1. y \in 1 .. Len(p) + 1  BY ONLY <2>4, y \in 1 .. Len(p)
    <3>. QED  BY ONLY <3>1, <1>2, <2>1, <2>3, <2>5, y \in 1 .. Len(p)
  <2>. QED  BY ONLY <2>1, <2>2, <2>7, <2>8 DEF Continues
<1>. QED  BY <1>4, <1>5

(* The whole text continues each of its beginnings.                        *)
LEMMA SplitContinues ==
  ASSUME NEW text \in Seq(Typed), NEW k \in 0 .. Len(text)
  PROVE  Continues(Splits(text)[k], Split(text))
<1> DEFINE lim == Len(text)
           s == Splits(text)
           S == {j \in Nat : j <= lim => Continues(s[lim - j], s[lim])}
<1>0. lim \in Nat  OBVIOUS
<1>a. \A m \in 0 .. lim : s[m] \in Parts  BY SplitsRec
<1>b. \A m \in 1 .. lim : s[m] = SplitAt(s[m - 1], text[m])  BY SplitsRec
<1> HIDE DEF s
<1>1. 0 \in S
  <2>1. lim - 0 = lim /\ lim \in 0 .. lim  BY <1>0
  <2>2. s[lim] \in Seq(Seq(Typed)) /\ Len(s[lim]) \in Nat \ {0}
    BY <1>a, <2>1, EmptySeq DEF Parts
  <2>3. s[lim][Len(s[lim])] \in Seq(Typed)
    <3>1. Len(s[lim]) \in 1 .. Len(s[lim])  BY <2>2
    <3>. QED  BY <2>2, <3>1, ElementOfSeq
  <2>4. Len(s[lim]) <= Len(s[lim])  BY ONLY <2>2
  <2>5. Len(s[lim][Len(s[lim])]) <= Len(s[lim][Len(s[lim])])  BY <2>3
  <2>6. Continues(s[lim], s[lim])  BY <2>4, <2>5 DEF Continues
  <2>. QED  BY <2>1, <2>6
<1>2. ASSUME NEW j \in Nat, j \in S PROVE j + 1 \in S
  <2>1. SUFFICES ASSUME j + 1 <= lim PROVE Continues(s[lim - (j + 1)], s[lim])  OBVIOUS
  <2>2. PICK m \in 1 .. lim : m = lim - j  BY <1>0, <2>1
  <2>3. j <= lim /\ lim - (j + 1) = m - 1 /\ m - 1 \in 0 .. lim /\ lim \in 0 .. lim
    BY ONLY <1>0, <2>1, <2>2, j \in Nat
  <2>4. Continues(SplitAt(s[m - 1], text[m]), s[lim])  BY <1>2, <1>b, <2>2, <2>3
  <2>5. text[m] \in Typed /\ s[m - 1] \in Parts /\ s[lim] \in Parts  BY <1>a, <2>3
  <2>6. Continues(s[m - 1], s[lim])  BY ONLY <2>4, <2>5, ContinuesBack
  <2>. QED  BY <2>3, <2>6
<1>3. \A j \in Nat : j \in S
  <2> HIDE DEF S
  <2>. QED  BY <1>1, <1>2, Induction
<1>4. PICK j \in Nat : j <= lim /\ lim - j = k
  <2>1. lim - k \in Nat /\ lim - k <= lim /\ lim - (lim - k) = k  BY ONLY <1>0, k \in 0 .. lim
  <2>. QED  BY <2>1
<1>5. Continues(s[lim - j], s[lim])  BY <1>3, <1>4
<1>6. Continues(s[k], s[lim])  BY <1>4, <1>5
<1>. QED  BY <1>6 DEF s, Split
-----------------------------------------------------------------------------
(* The states of the parser: how many digits the buffer holds, the buffer, *)
(* and the numbers converted so far.                                       *)
Numbers(width, radix) == {Number(memory, radix) : memory \in [1 .. width + 1 -> BufChar]}
Parser(width, radix) ==
  [ok : BOOLEAN, k : 0 .. width, buf : [1 .. width -> BufChar], to : Seq(Numbers(width, radix))]

(* An array is a sequence.                                                 *)
LEMMA ArrayIsSequence ==
  ASSUME NEW V, NEW size \in Nat, NEW f \in [1 .. size -> V]
  PROVE  f \in Seq(V) /\ Len(f) = size
<1>1. f \in Seq(V)  BY DEF Seq
<1>2. DOMAIN f = 1 .. size  OBVIOUS
<1>. QED  BY ONLY <1>1, <1>2, size \in Nat, LenProperties

(* What a conversion reads: the buffer and the character behind it.        *)
LEMMA Memory ==
  ASSUME NEW width \in 1 .. 3, NEW buf \in [1 .. width -> BufChar], NEW after \in BufChar
  PROVE  /\ buf \o <<after>> \in [1 .. width + 1 -> BufChar]
         /\ Len(buf \o <<after>>) = width + 1 /\ (buf \o <<after>>)[width + 1] = after
         /\ \A y \in 1 .. width : (buf \o <<after>>)[y] = buf[y]
<1> DEFINE mem == buf \o <<after>>
<1>1. buf \in Seq(BufChar) /\ Len(buf) = width
  <2>1. width \in Nat  OBVIOUS
  <2>. QED  BY <2>1, ArrayIsSequence
<1>2. <<after>> \in Seq(BufChar) /\ Len(<<after>>) = 1 /\ <<after>>[1] = after  OBVIOUS
<1>3. /\ mem \in Seq(BufChar) /\ Len(mem) = width + 1
      /\ \A y \in 1 .. Len(mem) : mem[y] = IF y <= width THEN buf[y] ELSE <<after>>[y - width]
  BY <1>1, <1>2, ConcatProperties
<1>4. width + 1 \in 1 .. Len(mem) /\ ~(width + 1 <= width) /\ (width + 1) - width = 1
  BY ONLY <1>3, width \in 1 .. 3
<1>5. mem[width + 1] = after  BY ONLY <1>2, <1>3, <1>4
<1>6. \A y \in 1 .. width : y \in 1 .. Len(mem) /\ y <= width  BY ONLY <1>3, width \in 1 .. 3
<1>7. mem \in [1 .. width + 1 -> BufChar]
  <2> HIDE DEF mem
  <2>1. mem \in [1 .. Len(mem) -> BufChar]  BY ONLY <1>3 DEF Seq
  <2>. QED  BY ONLY <2>1, <1>3
<1>. QED  BY <1>3, <1>5, <1>6, <1>7

(* A conversion takes the number and clears the buffer.                    *)
NumberTaken(q, p, width, radix, after) ==
  /\ q \in Parser(width, radix) /\ q.ok = p.ok /\ q.k = 0 /\ q.buf = [x \in 1 .. width |-> NUL]
  /\ q.to = Append(p.to, Number(p.buf \o <<after>>, radix))

(* NextNumber appends the number and clears the buffer.                    *)
LEMMA NextNumberFacts ==
  ASSUME NEW width \in 1 .. 3, NEW radix \in 1 .. 16, NEW p \in Parser(width, radix),
         NEW after \in BufChar
  PROVE  NumberTaken(NextNumber(p, width, radix, after), p, width, radix, after)
<1> DEFINE v == Number(p.buf \o <<after>>, radix)
           none == [x \in 1 .. width |-> NUL]
<1>1. /\ p.ok \in BOOLEAN /\ p.k \in 0 .. width /\ p.buf \in [1 .. width -> BufChar]
      /\ p.to \in Seq(Numbers(width, radix))
  BY DEF Parser
<1>2. v \in Numbers(width, radix)
  <2>1. p.buf \o <<after>> \in [1 .. width + 1 -> BufChar]  BY <1>1, Memory
  <2>. QED  BY <2>1 DEF Numbers
<1>3. NextNumber(p, width, radix, after)
        = [p EXCEPT !.to = Append(p.to, v), !.k = 0, !.buf = none]
  BY DEF NextNumber
<1> HIDE DEF v
<1>4. Append(p.to, v) \in Seq(Numbers(width, radix))  BY <1>1, <1>2, AppendProperties
<1>5. none \in [1 .. width -> BufChar]  BY DEF BufChar
<1>6. 0 \in 0 .. width  OBVIOUS
<1> HIDE DEF none
<1>7. [p EXCEPT !.to = Append(p.to, v), !.k = 0, !.buf = none] \in Parser(width, radix)
  BY ONLY <1>4, <1>5, <1>6, p \in Parser(width, radix) DEF Parser
<1>8. /\ [p EXCEPT !.to = Append(p.to, v), !.k = 0, !.buf = none].ok = p.ok
      /\ [p EXCEPT !.to = Append(p.to, v), !.k = 0, !.buf = none].k = 0
      /\ [p EXCEPT !.to = Append(p.to, v), !.k = 0, !.buf = none].buf = none
      /\ [p EXCEPT !.to = Append(p.to, v), !.k = 0, !.buf = none].to = Append(p.to, v)
  BY ONLY p \in Parser(width, radix) DEF Parser
<1>. QED  BY ONLY <1>3, <1>7, <1>8 DEF v, none, NumberTaken

(* A digit goes into the buffer.                                           *)
WithDigit(p, d) == [p EXCEPT !.buf[p.k + 1] = d, !.k = @ + 1]
DigitTaken(q, p, d, width, radix) ==
  /\ q \in Parser(width, radix) /\ q.ok = p.ok /\ q.k = p.k + 1 /\ q.to = p.to
  /\ q.buf = [p.buf EXCEPT ![p.k + 1] = d]

(* A digit goes to the buffer, and nothing else changes.                   *)
LEMMA DigitFacts ==
  ASSUME NEW width \in 1 .. 3, NEW radix \in 1 .. 16, NEW p \in Parser(width, radix),
         NEW d \in 0 .. 15, p.k < width
  PROVE  DigitTaken(WithDigit(p, d), p, d, width, radix)
<1>1. /\ p.ok \in BOOLEAN /\ p.k \in 0 .. width /\ p.buf \in [1 .. width -> BufChar]
      /\ p.to \in Seq(Numbers(width, radix))
  BY DEF Parser
<1>2. p.k + 1 \in 0 .. width /\ d \in BufChar  BY <1>1 DEF BufChar, Typed
<1>3. [p.buf EXCEPT ![p.k + 1] = d] \in [1 .. width -> BufChar]  BY ONLY <1>1, <1>2
<1>. QED  BY ONLY <1>2, <1>3, p \in Parser(width, radix) DEF Parser, DigitTaken, WithDigit

(* One round keeps the parser's type.                                      *)
LEMMA CharacterType ==
  ASSUME NEW width \in 1 .. 3, NEW radix \in 1 .. 16, NEW p \in Parser(width, radix),
         NEW after \in BufChar, NEW text \in Seq(Typed), NEW m \in 1 .. Len(text)
  PROVE  Character(p, text, m, width, radix, after) \in Parser(width, radix)
<1> DEFINE q == Character(p, text, m, width, radix, after)
<1>1. text[m] \in Typed  OBVIOUS
<1>2. CASE ~p.ok
  <2>1. q = p  BY <1>2, Zenon DEF Character
  <2>. QED  BY <2>1
<1>3. CASE p.ok /\ ((text[m] = SEPARATOR /\ p.k # 0) \/ (text[m] = NEWLINE /\ m = Len(text)))
  <2>1. q = NextNumber(p, width, radix, after)  BY <1>3, Zenon DEF Character
  <2>2. NumberTaken(NextNumber(p, width, radix, after), p, width, radix, after)
    BY NextNumberFacts
  <2>. QED  BY ONLY <2>1, <2>2 DEF NumberTaken
<1>4. CASE p.ok /\ ~((text[m] = SEPARATOR /\ p.k # 0) \/ (text[m] = NEWLINE /\ m = Len(text)))
  <2>1. CASE text[m] < radix /\ p.k < width
    <3>1. q = WithDigit(p, text[m])  BY <1>4, <2>1, Zenon DEF Character, WithDigit
    <3>2. text[m] \in 0 .. 15
      <4>1. \A c \in Typed : c < radix => c \in 0 .. 15
        BY ONLY radix \in 1 .. 16 DEF Typed, SEPARATOR, NEWLINE, NO_DIGIT
      <4>. QED  BY ONLY <1>1, <2>1, <4>1
    <3>3. DigitTaken(WithDigit(p, text[m]), p, text[m], width, radix)  BY <2>1, <3>2, DigitFacts
    <3>. QED  BY ONLY <3>1, <3>3 DEF DigitTaken
  <2>2. CASE ~(text[m] < radix /\ p.k < width)
    <3>1. q = [p EXCEPT !.ok = FALSE]  BY <1>4, <2>2, Zenon DEF Character
    <3>. QED  BY <3>1 DEF Parser
  <2>. QED  BY <2>1, <2>2
<1>. QED  BY <1>2, <1>3, <1>4

(* The stack gives the buffer its first content and the character behind.  *)
LEMMA StackFacts ==
  ASSUME NEW width \in 1 .. 3, NEW stack \in [1 .. 4 -> BufChar]
  PROVE  /\ SubSeq(stack, 1, width) \in [1 .. width -> BufChar] /\ stack[width + 1] \in BufChar
         /\ \A y \in 1 .. width : SubSeq(stack, 1, width)[y] = stack[y]
<1>1. stack \in Seq(BufChar) /\ Len(stack) = 4
  <2> DEFINE four == 4
  <2>1. four \in Nat /\ stack \in [1 .. four -> BufChar]  OBVIOUS
  <2> HIDE DEF four
  <2>2. stack \in Seq(BufChar) /\ Len(stack) = four  BY ONLY <2>1, ArrayIsSequence, Zenon
  <2>. QED  BY <2>2 DEF four
<1>2. width + 1 \in 1 .. 4 /\ width \in 1 .. 4  OBVIOUS
<1>3. stack[width + 1] \in BufChar  BY <1>2
<1>4. SubSeq(stack, 1, width) = [y \in 1 .. width |-> stack[y]]
  BY ONLY <1>1, <1>2, width \in 1 .. 3
<1>5. \A y \in 1 .. width : y \in 1 .. 4  OBVIOUS
<1>6. \A y \in 1 .. width : stack[y] \in BufChar  BY <1>5
<1>. QED  BY ONLY <1>3, <1>4, <1>6

(* The parser before the first character.                                  *)
Fresh(width, stack) == [ok |-> TRUE, k |-> 0, buf |-> SubSeq(stack, 1, width), to |-> <<>>]

(* The parser after each character, by its recursion.                      *)
LEMMA RoundsRec ==
  ASSUME NEW width \in 1 .. 3, NEW radix \in 1 .. 16, NEW text \in Seq(Typed),
         NEW stack \in [1 .. 4 -> BufChar]
  PROVE  /\ Rounds(text, width, radix, stack)[0] = Fresh(width, stack)
         /\ \A k \in 0 .. Len(text) : Rounds(text, width, radix, stack)[k] \in Parser(width, radix)
         /\ \A k \in 1 .. Len(text) :
              Rounds(text, width, radix, stack)[k]
                = Character(Rounds(text, width, radix, stack)[k - 1], text, k, width, radix,
                            stack[width + 1])
<1> DEFINE lim == Len(text)
           after == stack[width + 1]
           V == Parser(width, radix)
           e == Fresh(width, stack)
           Ch(p, k) == Character(p, text, k, width, radix, after)
           g == [kv \in (1 .. lim) \X V |-> Ch(kv[2], kv[1])]
           D(f) == f = [k \in 0 .. lim |-> IF k = 0 THEN e ELSE Ch(f[k - 1], k)]
<1>0. lim \in Nat  OBVIOUS
<1>a. e \in V
  <2>1. SubSeq(stack, 1, width) \in [1 .. width -> BufChar]  BY StackFacts
  <2>2. 0 \in 0 .. width  OBVIOUS
  <2>. QED  BY <2>1, <2>2 DEF Fresh, Parser
<1>b. ASSUME NEW k \in 1 .. lim, NEW p \in V PROVE Ch(p, k) \in V
  <2>1. after \in BufChar  BY StackFacts
  <2> HIDE DEF after
  <2>. QED  BY <2>1, CharacterType
<1> HIDE DEF after, V, e, Ch
<1>1. StepsIn(g, lim, V)  BY <1>b DEF StepsIn
<1>2. PICK f \in [0 .. lim -> V] : f[0] = e /\ \A k \in 1 .. lim : f[k] = g[<<k, f[k - 1]>>]
  <2> HIDE DEF g, lim
  <2>2. \E f : ByRecursion(f, e, g, lim, V)  BY ONLY <1>0, <1>1, <1>a, RecursionExists
  <2>. QED  BY <2>2 DEF ByRecursion
<1>3. D(f)
  <2>1. ASSUME NEW k \in 1 .. lim PROVE f[k] = Ch(f[k - 1], k)
    <3>1. k - 1 \in 0 .. lim  BY ONLY <1>0, k \in 1 .. lim
    <3>2. <<k, f[k - 1]>> \in (1 .. lim) \X V  BY <3>1
    <3>3. g[<<k, f[k - 1]>>] = Ch(f[k - 1], k)  BY <3>2
    <3>. QED  BY <1>2, <3>3
  <2> DEFINE h == [k \in 0 .. lim |-> IF k = 0 THEN e ELSE Ch(f[k - 1], k)]
  <2>2. ASSUME NEW k \in 0 .. lim PROVE f[k] = h[k]
    <3>1. CASE k = 0  BY <3>1, <1>2
    <3>2. CASE k # 0
      <4>1. k \in 1 .. lim  BY ONLY <1>0, <3>2, k \in 0 .. lim
      <4>. QED  BY <2>1, <3>2, <4>1
    <3>. QED  BY <3>1, <3>2
  <2>3. h = [k \in 0 .. lim |-> h[k]]  OBVIOUS
  <2>4. f = h
    <3> HIDE DEF h
    <3>. QED  BY <2>2, <2>3
  <2>. QED  BY <2>4
<1> DEFINE s == Rounds(text, width, radix, stack)
<1>4. D(s)
  <2>1. s = CHOOSE ff : D(ff)  BY Zenon DEF Rounds, Fresh, e, Ch, after
  <2> HIDE DEF s
  <2>. QED  BY <1>3, <2>1, Zenon
<1> HIDE DEF s
<1>5. s[0] = e
  <2>1. 0 \in 0 .. lim  BY <1>0
  <2>. QED  BY <1>4, <2>1
<1>6. ASSUME NEW k \in 1 .. lim PROVE s[k] = Ch(s[k - 1], k)
  <2>1. k \in 0 .. lim /\ k # 0  BY <1>0
  <2>. QED  BY ONLY <1>4, <2>1
<1>7. \A k \in 0 .. lim : s[k] \in V
  <2> DEFINE S == {k \in Nat : k <= lim => s[k] \in V}
  <2>1. 0 \in S  BY <1>5, <1>a
  <2>2. ASSUME NEW k \in Nat, k \in S PROVE k + 1 \in S
    <3>1. SUFFICES ASSUME k + 1 <= lim PROVE s[k + 1] \in V  OBVIOUS
    <3>2. k <= lim /\ k + 1 \in 1 .. lim /\ (k + 1) - 1 = k  BY ONLY <1>0, <3>1, k \in Nat
    <3>3. s[k] \in V  BY <2>2, <3>2
    <3>4. Ch(s[k], k + 1) \in V  BY <1>b, <3>2, <3>3
    <3>. QED  BY <1>6, <3>2, <3>4
  <2>3. \A k \in Nat : k \in S
    <3> HIDE DEF S
    <3>. QED  BY <2>1, <2>2, Induction
  <2>4. ASSUME NEW k \in 0 .. lim PROVE k \in Nat /\ k <= lim  BY <1>0
  <2>. QED  BY <2>3, <2>4
<1>. QED  BY <1>5, <1>6, <1>7 DEF s, V, e, Ch, after
-----------------------------------------------------------------------------
(* A part of the text: digits only.                                        *)
IsNumber(part, radix) == part \in Seq(Typed) /\ \A y \in 1 .. Len(part) : part[y] < radix

(* A number ends where its digits do, at its end or at the NUL behind it.  *)
LEMMA DigitsFacts ==
  ASSUME NEW radix \in 1 .. 16, NEW part, IsNumber(part, radix),
         NEW V, V \subseteq Int, NEW memory \in Seq(V), Len(part) <= Len(memory),
         \A y \in 1 .. Len(part) : memory[y] = part[y],
         Len(part) < Len(memory) => memory[Len(part) + 1] >= radix
  PROVE  Digits(memory, radix) = part
<1> DEFINE len == Len(part)
           S == {j \in 0 .. Len(memory) : \A x \in 1 .. j : memory[x] < radix}
<1>1. part \in Seq(Typed) /\ len \in Nat /\ \A y \in 1 .. len : part[y] < radix
  BY DEF IsNumber
<1>2. Len(memory) \in Nat  OBVIOUS
<1>3. len \in S
  <2>1. len \in 0 .. Len(memory)  BY <1>1, <1>2
  <2>. QED  BY <1>1, <2>1
<1>4. ASSUME NEW j \in S PROVE len >= j
  <2>1. j \in 0 .. Len(memory) /\ \A x \in 1 .. j : memory[x] < radix  OBVIOUS
  <2>2. SUFFICES ASSUME ~(len >= j) PROVE FALSE  OBVIOUS
  <2>3. len + 1 \in 1 .. j /\ len < Len(memory) /\ len + 1 \in 1 .. Len(memory)
    BY ONLY <1>1, <1>2, <2>1, <2>2
  <2>4. memory[len + 1] < radix /\ memory[len + 1] >= radix  BY <2>1, <2>3
  <2>5. memory[len + 1] \in Int
    <3>1. memory[len + 1] \in V  BY <2>3, ElementOfSeq
    <3>. QED  BY <3>1
  <2>. QED  BY ONLY <2>4, <2>5, radix \in 1 .. 16
<1>5. Max(S) = len
  <2>1. S \subseteq Int  BY <1>2
  <2>2. \A x \in S : (\A y \in S : x >= y) => x = len
    <3>1. SUFFICES ASSUME NEW x \in S, \A y \in S : x >= y PROVE x = len  OBVIOUS
    <3>2. x >= len /\ len >= x /\ x \in Int /\ len \in Int  BY <1>3, <1>4, <2>1, <3>1
    <3>. QED  BY ONLY <3>2
  <2> HIDE DEF S
  <2>3. \A y \in S : len >= y  BY <1>4
  <2>. QED  BY <1>3, <2>2, <2>3 DEF Max
<1>6. Digits(memory, radix) = SubSeq(memory, 1, len)
  <2>1. Digits(memory, radix) = SubSeq(memory, 1, Max(S))  BY Zenon DEF Digits
  <2>. QED  BY ONLY <1>5, <2>1
<1>7. SubSeq(memory, 1, len) = [y \in 1 .. len |-> memory[y]]
  BY ONLY <1>1, <1>2, memory \in Seq(V), Len(part) <= Len(memory)
<1>8. part = [y \in 1 .. len |-> part[y]]
  <2>1. part \in [1 .. len -> Typed]  BY ONLY <1>1, LenProperties
  <2>. QED  BY ONLY <2>1
<1>9. [y \in 1 .. len |-> memory[y]] = [y \in 1 .. len |-> part[y]]  OBVIOUS
<1>. QED  BY ONLY <1>6, <1>7, <1>8, <1>9

(* All parts of the whole text are numbers that fit the buffer.            *)
AllNumbers(whole, width, radix) ==
  /\ whole \in Parts
  /\ \A x \in 1 .. Len(whole) : IsNumber(whole[x], radix) /\ Len(whole[x]) \in 1 .. width

(* A number that does not depend on what the stack held.                   *)
Reliable(x, whole, width, clean) == clean \/ (x > 1 /\ Len(whole[x]) < width)

(* A clean stack is zero.                                                  *)
StackSays(stack, clean) == clean => \A x \in 1 .. 4 : stack[x] = NUL

(* The parser after m characters, which make up these parts: it has        *)
(* converted all but the last, whose digits are in the buffer, with NUL or *)
(* what the stack held behind them.                                        *)
Tracks(p, parts, m, whole, width, radix, stack, clean) ==
  /\ p.ok
  /\ p.k = Len(parts[Len(parts)])
  /\ Len(p.to) = Len(parts) - 1
  /\ \A y \in 1 .. width : y <= p.k => p.buf[y] = parts[Len(parts)][y]
  /\ \A y \in 1 .. width : y > p.k => p.buf[y] = IF Len(parts) = 1 THEN stack[y] ELSE NUL
  /\ \A x \in 1 .. Len(parts) - 1 :
       Reliable(x, whole, width, clean) => p.to[x] = Number(whole[x], radix)
  /\ m >= 2 * (Len(parts) - 1) + p.k
  /\ m <= (width + 1) * (Len(parts) - 1) + p.k

(* The last part is complete, and can be relied on.                        *)
LastComplete(p, parts, m, whole, width, radix, stack, clean) ==
  /\ width \in 1 .. 3 /\ radix \in 1 .. 16
  /\ stack \in [1 .. 4 -> BufChar] /\ StackSays(stack, clean)
  /\ AllNumbers(whole, width, radix) /\ parts \in Parts /\ p \in Parser(width, radix)
  /\ Tracks(p, parts, m, whole, width, radix, stack, clean)
  /\ Len(parts) <= Len(whole) /\ parts[Len(parts)] = whole[Len(parts)]
  /\ Reliable(Len(parts), whole, width, clean)

(* The conversion of a complete part gives its number.                     *)
LEMMA Converted ==
  ASSUME NEW width, NEW radix, NEW stack, NEW clean, NEW whole, NEW parts, NEW p, NEW m,
         LastComplete(p, parts, m, whole, width, radix, stack, clean)
  PROVE  Number(p.buf \o <<stack[width + 1]>>, radix) = Number(whole[Len(parts)], radix)
<1> USE DEF LastComplete
<1> DEFINE n == Len(parts)
           part == whole[n]
           len == Len(part)
           after == stack[width + 1]
           mem == p.buf \o <<after>>
<1>1. n \in Nat \ {0} /\ Len(whole) \in Nat /\ n \in 1 .. Len(whole)
  BY EmptySeq DEF Parts, AllNumbers
<1>2. IsNumber(part, radix) /\ len \in 1 .. width  BY <1>1 DEF AllNumbers
<1>3. p.buf \in [1 .. width -> BufChar]  BY DEF Parser
<1>4. after \in BufChar  BY StackFacts
<1>5. /\ p.k = len
      /\ \A y \in 1 .. width : y <= len => p.buf[y] = part[y]
      /\ \A y \in 1 .. width : y > len => p.buf[y] = IF n = 1 THEN stack[y] ELSE NUL
  BY DEF Tracks
<1>6. clean \/ (n > 1 /\ len < width)  BY DEF Reliable
<1> HIDE DEF after
<1>7. /\ mem \in [1 .. width + 1 -> BufChar] /\ Len(mem) = width + 1 /\ mem[width + 1] = after
      /\ \A y \in 1 .. width : mem[y] = p.buf[y]
  BY <1>3, <1>4, Memory
<1> HIDE DEF mem, n, part, len
<1>8. \A y \in 1 .. len : mem[y] = part[y]
  <2>1. \A y \in 1 .. len : y \in 1 .. width /\ y <= len  BY ONLY <1>2, width \in 1 .. 3
  <2>. QED  BY ONLY <1>5, <1>7, <2>1
<1>9. mem[len + 1] = NUL
  <2>1. CASE len = width
    <3>1. clean  BY ONLY <1>6, <2>1, width \in 1 .. 3
    <3>2. width + 1 \in 1 .. 4  OBVIOUS
    <3>3. after = NUL  BY <3>1, <3>2 DEF after, StackSays
    <3>. QED  BY ONLY <1>7, <2>1, <3>3
  <2>2. CASE len # width
    <3>1. len + 1 \in 1 .. width /\ len + 1 > len /\ len + 1 \in 1 .. 4
      BY ONLY <1>2, <2>2, width \in 1 .. 3
    <3>2. mem[len + 1] = IF n = 1 THEN stack[len + 1] ELSE NUL  BY ONLY <1>5, <1>7, <3>1
    <3>3. CASE n = 1
      <4>1. clean  BY ONLY <1>6, <3>3
      <4>2. stack[len + 1] = NUL  BY <3>1, <4>1 DEF StackSays
      <4>. QED  BY ONLY <3>2, <3>3, <4>2
    <3>4. CASE n # 1  BY ONLY <3>2, <3>4
    <3>. QED  BY <3>3, <3>4
  <2>. QED  BY <2>1, <2>2
<1>10. Digits(mem, radix) = part
  <2>1. BufChar \subseteq Int  BY DEF BufChar, Typed, NUL, SEPARATOR, NEWLINE, NO_DIGIT
  <2>2. width + 1 \in Nat  OBVIOUS
  <2>3. mem \in Seq(BufChar)  BY ONLY <1>7, <2>2, ArrayIsSequence
  <2>4. Len(part) <= Len(mem) /\ NUL >= radix
    BY ONLY <1>2, <1>7, width \in 1 .. 3, radix \in 1 .. 16 DEF len, NUL
  <2>5. \A y \in 1 .. Len(part) : mem[y] = part[y]  BY <1>8 DEF len
  <2>6. Len(part) < Len(mem) => mem[Len(part) + 1] >= radix  BY ONLY <1>9, <2>4 DEF len
  <2>. QED  BY ONLY <1>2, <2>1, <2>3, <2>4, <2>5, <2>6, radix \in 1 .. 16, DigitsFacts
<1>11. Digits(part, radix) = part
  <2>1. Typed \subseteq Int  BY DEF Typed, SEPARATOR, NEWLINE, NO_DIGIT
  <2>2. part \in Seq(Typed) /\ Len(part) <= Len(part) /\ ~(Len(part) < Len(part))
    BY <1>2 DEF IsNumber
  <2>. QED  BY ONLY <1>2, <2>1, <2>2, radix \in 1 .. 16, DigitsFacts
<1>12. Number(mem, radix) = Number(part, radix)  BY ONLY <1>10, <1>11 DEF Number
<1>. QED  BY <1>12 DEF mem, part, n, after

(* A separator: the last part is complete, and is converted.               *)
LEMMA TracksSeparator ==
  ASSUME NEW width \in 1 .. 3, NEW radix \in 1 .. 16,
         NEW stack \in [1 .. 4 -> BufChar], NEW clean \in BOOLEAN,
         StackSays(stack, clean), NEW whole, AllNumbers(whole, width, radix),
         NEW parts \in Parts, NEW p \in Parser(width, radix), NEW m \in Nat,
         Tracks(p, parts, m, whole, width, radix, stack, clean),
         Continues(SplitAt(parts, SEPARATOR), whole)
  PROVE  /\ p.k # 0
         /\ Tracks(NextNumber(p, width, radix, stack[width + 1]), SplitAt(parts, SEPARATOR), m + 1,
                   whole, width, radix, stack, clean)
<1> DEFINE n == Len(parts)
           next == SplitAt(parts, SEPARATOR)
           after == stack[width + 1]
           q == NextNumber(p, width, radix, after)
           v == Number(p.buf \o <<after>>, radix)
<1>1. SEPARATOR \in Typed  BY DEF Typed
<1>2. /\ next \in Parts /\ n \in Nat \ {0} /\ Len(next) = n + 1 /\ next[n + 1] = <<>>
      /\ \A x \in 1 .. n : next[x] = parts[x]
  BY <1>1, SplitAtFacts
<1>3. /\ Len(next) <= Len(whole) /\ \A x \in 1 .. Len(next) - 1 : next[x] = whole[x]
  BY DEF Continues
<1> HIDE DEF next
<1>4. Len(whole) \in Nat /\ n <= Len(whole) /\ n \in 1 .. Len(whole) /\ n \in 1 .. n
      /\ n \in 1 .. Len(next) - 1
  <2>1. Len(whole) \in Nat  BY DEF AllNumbers, Parts
  <2>. QED  BY ONLY <2>1, <1>2, <1>3
<1>5. parts[n] = whole[n]  BY ONLY <1>2, <1>3, <1>4
<1>6. Len(whole[n]) \in 1 .. width  BY <1>4 DEF AllNumbers
<1>7. /\ p.ok /\ p.k = Len(whole[n]) /\ Len(p.to) = n - 1
      /\ \A x \in 1 .. n - 1 : Reliable(x, whole, width, clean) => p.to[x] = Number(whole[x], radix)
      /\ m >= 2 * (n - 1) + p.k /\ m <= (width + 1) * (n - 1) + p.k
  BY <1>5 DEF Tracks
<1>8. p.k # 0  BY ONLY <1>6, <1>7, width \in 1 .. 3
<1>9. after \in BufChar  BY StackFacts
<1>10. /\ q.ok = p.ok /\ q.k = 0 /\ q.buf = [x \in 1 .. width |-> NUL] /\ q.to = Append(p.to, v)
  <2> HIDE DEF after
  <2>1. NumberTaken(NextNumber(p, width, radix, after), p, width, radix, after)
    BY <1>9, NextNumberFacts
  <2>. QED  BY ONLY <2>1 DEF NumberTaken
<1>11. Reliable(n, whole, width, clean) => v = Number(whole[n], radix)
  <2>1. SUFFICES ASSUME Reliable(Len(parts), whole, width, clean)
                 PROVE  Number(p.buf \o <<stack[width + 1]>>, radix) = Number(whole[Len(parts)], radix)
    OBVIOUS
  <2>2. Len(parts) <= Len(whole) /\ parts[Len(parts)] = whole[Len(parts)]  BY <1>4, <1>5
  <2>3. LastComplete(p, parts, m, whole, width, radix, stack, clean)
    BY <2>1, <2>2 DEF LastComplete
  <2>. QED  BY ONLY <2>3, Converted
<1>12. p.to \in Seq(Numbers(width, radix)) /\ v \in Numbers(width, radix)
  <2>1. p.buf \in [1 .. width -> BufChar] /\ p.to \in Seq(Numbers(width, radix))  BY DEF Parser
  <2>2. p.buf \o <<after>> \in [1 .. width + 1 -> BufChar]  BY <1>9, <2>1, Memory
  <2>. QED  BY <2>1, <2>2 DEF Numbers
<1> HIDE DEF q, v, after, n
<1>13. /\ Len(q.to) = n /\ q.to[n] = v /\ \A x \in 1 .. n - 1 : q.to[x] = p.to[x]
  <2>1. /\ Len(Append(p.to, v)) = Len(p.to) + 1 /\ Append(p.to, v)[Len(p.to) + 1] = v
        /\ \A x \in 1 .. Len(p.to) : Append(p.to, v)[x] = p.to[x]
    BY ONLY <1>12, AppendProperties
  <2>2. (n - 1) + 1 = n  BY ONLY <1>2
  <2>. QED  BY ONLY <1>7, <1>10, <2>1, <2>2
<1>14. q.ok /\ q.k = Len(next[Len(next)]) /\ Len(q.to) = Len(next) - 1
  <2>1. (n + 1) - 1 = n  BY ONLY <1>2
  <2>2. Len(<<>>) = 0  OBVIOUS
  <2>. QED  BY ONLY <1>2, <1>7, <1>10, <1>13, <2>1, <2>2
<1>15. ASSUME NEW y \in 1 .. width
       PROVE  /\ y <= q.k => q.buf[y] = next[Len(next)][y]
              /\ y > q.k => q.buf[y] = IF Len(next) = 1 THEN stack[y] ELSE NUL
  <2>1. ~(y <= 0) /\ Len(next) # 1  BY ONLY <1>2, y \in 1 .. width, width \in 1 .. 3
  <2>2. q.buf[y] = NUL  BY ONLY <1>10, y \in 1 .. width
  <2>. QED  BY ONLY <1>10, <2>1, <2>2
<1>16. ASSUME NEW x \in 1 .. Len(next) - 1, Reliable(x, whole, width, clean)
       PROVE  q.to[x] = Number(whole[x], radix)
  <2>1. CASE x = n  BY ONLY <1>11, <1>13, <1>16, <2>1
  <2>2. CASE x # n
    <3>1. x \in 1 .. n - 1  BY ONLY <1>2, <2>2, x \in 1 .. Len(next) - 1
    <3>. QED  BY ONLY <1>7, <1>13, <1>16, <3>1
  <2>. QED  BY <2>1, <2>2
<1>17. /\ m + 1 >= 2 * (Len(next) - 1) + q.k /\ m + 1 <= (width + 1) * (Len(next) - 1) + q.k
  <2>1. p.k \in Nat /\ p.k >= 1 /\ p.k <= width /\ Len(next) - 1 = n
    BY ONLY <1>2, <1>6, <1>7, width \in 1 .. 3
  <2> DEFINE k == p.k
  <2>2. k \in Nat /\ k >= 1 /\ k <= width /\ m >= 2 * (n - 1) + k /\ m <= (width + 1) * (n - 1) + k
    BY ONLY <1>7, <2>1
  <2> HIDE DEF k
  <2>3. m + 1 >= 2 * n + 0  BY ONLY <1>2, <2>2, m \in Nat
  <2>4. (width + 1) * (n - 1) = (width + 1) * n - (width + 1)  BY ONLY <1>2, width \in 1 .. 3
  <2> DEFINE a == (width + 1) * n
             d == (width + 1) * (n - 1)
  <2>5. a \in Int /\ d \in Int /\ d = a - (width + 1) /\ m <= d + k
    BY ONLY <1>2, <2>2, <2>4, width \in 1 .. 3
  <2> HIDE DEF a, d
  <2>6. m + 1 <= a + 0  BY ONLY <2>2, <2>5, m \in Nat, width \in 1 .. 3
  <2>. QED  BY ONLY <1>10, <2>1, <2>3, <2>6 DEF a
<1>18. Tracks(q, next, m + 1, whole, width, radix, stack, clean)
  BY ONLY <1>14, <1>15, <1>16, <1>17 DEF Tracks
<1>. QED  BY <1>8, <1>18 DEF q, next, after

(* A digit: the last part grows, and the buffer with it.                   *)
LEMMA TracksDigit ==
  ASSUME NEW width \in 1 .. 3, NEW radix \in 1 .. 16,
         NEW stack \in [1 .. 4 -> BufChar], NEW clean \in BOOLEAN,
         NEW whole, AllNumbers(whole, width, radix),
         NEW parts \in Parts, NEW p \in Parser(width, radix), NEW m \in Nat,
         Tracks(p, parts, m, whole, width, radix, stack, clean),
         NEW c \in Typed, c # SEPARATOR, Continues(SplitAt(parts, c), whole)
  PROVE  /\ c < radix /\ p.k < width
         /\ Tracks(WithDigit(p, c), SplitAt(parts, c), m + 1, whole, width, radix, stack, clean)
<1> DEFINE n == Len(parts)
           last0 == parts[n]
           next == SplitAt(parts, c)
           k == p.k
           q == WithDigit(p, c)
<1>1. /\ next \in Parts /\ n \in Nat \ {0} /\ last0 \in Seq(Typed) /\ Len(next) = n
      /\ next[n] = Append(last0, c) /\ \A x \in 1 .. n - 1 : next[x] = parts[x]
  BY SplitAtFacts
<1>2. /\ Len(next) <= Len(whole) /\ Len(next[Len(next)]) <= Len(whole[Len(next)])
      /\ \A y \in 1 .. Len(next[Len(next)]) : next[Len(next)][y] = whole[Len(next)][y]
  BY DEF Continues
<1>3. /\ p.ok /\ k = Len(last0) /\ Len(p.to) = n - 1
      /\ \A y \in 1 .. width : y <= k => p.buf[y] = last0[y]
      /\ \A y \in 1 .. width : y > k => p.buf[y] = IF n = 1 THEN stack[y] ELSE NUL
      /\ \A x \in 1 .. n - 1 : Reliable(x, whole, width, clean) => p.to[x] = Number(whole[x], radix)
      /\ m >= 2 * (n - 1) + k /\ m <= (width + 1) * (n - 1) + k
  BY DEF Tracks
<1>4. Len(whole) \in Nat /\ n \in 1 .. Len(whole)
  <2>1. Len(whole) \in Nat  BY DEF AllNumbers, Parts
  <2>. QED  BY ONLY <2>1, <1>1, <1>2
<1>5. Len(whole[n]) \in 1 .. width /\ IsNumber(whole[n], radix)  BY <1>4 DEF AllNumbers
<1>6. /\ Len(Append(last0, c)) = Len(last0) + 1 /\ Append(last0, c)[Len(last0) + 1] = c
      /\ \A y \in 1 .. Len(last0) : Append(last0, c)[y] = last0[y]
      /\ Len(last0) \in Nat
  BY <1>1, AppendProperties
<1>7. k \in Nat /\ k + 1 <= Len(whole[n]) /\ k < width /\ k + 1 \in 1 .. Len(whole[n])
      /\ k + 1 \in 1 .. k + 1
  <2>1. k \in Nat /\ k + 1 <= Len(whole[n])  BY ONLY <1>1, <1>2, <1>3, <1>6
  <2>. QED  BY ONLY <2>1, <1>5, width \in 1 .. 3
<1>8. c < radix
  <2>1. whole[n][k + 1] = c  BY ONLY <1>1, <1>2, <1>3, <1>6, <1>7, SMTT(30)
  <2>2. whole[n][k + 1] < radix  BY ONLY <1>5, <1>7 DEF IsNumber
  <2>. QED  BY ONLY <2>1, <2>2
<1>9. c \in 0 .. 15
  BY ONLY <1>8, c \in Typed, radix \in 1 .. 16 DEF Typed, SEPARATOR, NEWLINE, NO_DIGIT
<1>10. q.ok = p.ok /\ q.k = k + 1 /\ q.buf = [p.buf EXCEPT ![k + 1] = c] /\ q.to = p.to
  <2>1. DigitTaken(WithDigit(p, c), p, c, width, radix)  BY <1>7, <1>9, DigitFacts
  <2>. QED  BY ONLY <2>1 DEF DigitTaken
<1>11. p.buf \in [1 .. width -> BufChar]  BY DEF Parser
<1> HIDE DEF q, k, n, last0, next
<1>12. q.ok /\ q.k = Len(next[Len(next)]) /\ Len(q.to) = Len(next) - 1
  BY ONLY <1>1, <1>3, <1>6, <1>10
<1>13. ASSUME NEW y \in 1 .. width
       PROVE  /\ y <= q.k => q.buf[y] = next[Len(next)][y]
              /\ y > q.k => q.buf[y] = IF Len(next) = 1 THEN stack[y] ELSE NUL
  <2>1. CASE y = k + 1
    <3>1. q.buf[y] = c  BY ONLY <1>10, <1>11, <2>1, y \in 1 .. width
    <3>2. next[Len(next)][y] = c  BY ONLY <1>1, <1>3, <1>6, <2>1
    <3>3. ~(y > q.k)  BY ONLY <1>7, <1>10, <2>1
    <3>. QED  BY ONLY <3>1, <3>2, <3>3
  <2>2. CASE y # k + 1
    <3>1. q.buf[y] = p.buf[y]  BY ONLY <1>10, <1>11, <2>2, y \in 1 .. width
    <3>2. /\ y <= q.k => y <= k /\ y \in 1 .. Len(last0)
          /\ y > q.k => y > k
      BY ONLY <1>3, <1>7, <1>10, <2>2, y \in 1 .. width, width \in 1 .. 3
    <3>. QED  BY ONLY <1>1, <1>3, <1>6, <3>1, <3>2, y \in 1 .. width
  <2>. QED  BY <2>1, <2>2
<1>14. ASSUME NEW x \in 1 .. Len(next) - 1, Reliable(x, whole, width, clean)
       PROVE  q.to[x] = Number(whole[x], radix)
  BY ONLY <1>1, <1>3, <1>10, <1>14, x \in 1 .. Len(next) - 1
<1>15. /\ m + 1 >= 2 * (Len(next) - 1) + q.k /\ m + 1 <= (width + 1) * (Len(next) - 1) + q.k
  <2> DEFINE a == 2 * (n - 1)
             d == (width + 1) * (n - 1)
  <2>1. a \in Int /\ d \in Int /\ m >= a + k /\ m <= d + k  BY ONLY <1>1, <1>3, width \in 1 .. 3, SMTT(30)
  <2> HIDE DEF a, d
  <2>2. m + 1 >= a + (k + 1) /\ m + 1 <= d + (k + 1)  BY ONLY <1>7, <2>1, m \in Nat
  <2>. QED  BY ONLY <1>1, <1>10, <2>2 DEF a, d
<1>16. Tracks(q, next, m + 1, whole, width, radix, stack, clean)
  BY ONLY <1>12, <1>13, <1>14, <1>15 DEF Tracks
<1>. QED  BY <1>7, <1>8, <1>16 DEF q, next, k

(* The parser tracks the parts through a text in the right format.         *)
LEMMA TracksAll ==
  ASSUME NEW width \in 1 .. 3, NEW radix \in 1 .. 16, NEW text \in Seq(Typed),
         NEW stack \in [1 .. 4 -> BufChar], NEW clean \in BOOLEAN,
         StackSays(stack, clean), AllNumbers(Split(text), width, radix)
  PROVE  \A m \in 0 .. Len(text) :
           Tracks(Rounds(text, width, radix, stack)[m], Splits(text)[m], m, Split(text),
                  width, radix, stack, clean)
<1> DEFINE lim == Len(text)
           s == Splits(text)
           r == Rounds(text, width, radix, stack)
           whole == Split(text)
           after == stack[width + 1]
           Good(m) == Tracks(r[m], s[m], m, whole, width, radix, stack, clean)
           S == {m \in Nat : m <= lim => Good(m)}
<1>0. lim \in Nat  OBVIOUS
<1>a. /\ s[0] = << <<>> >> /\ \A k \in 0 .. lim : s[k] \in Parts
      /\ \A k \in 1 .. lim : s[k] = SplitAt(s[k - 1], text[k])
  BY SplitsRec
<1>b. /\ r[0] = Fresh(width, stack) /\ \A k \in 0 .. lim : r[k] \in Parser(width, radix)
      /\ \A k \in 1 .. lim : r[k] = Character(r[k - 1], text, k, width, radix, after)
  BY RoundsRec
<1>c. \A k \in 0 .. lim : Continues(s[k], whole)  BY SplitContinues
<1>d. AllNumbers(whole, width, radix)  OBVIOUS
<1> HIDE DEF s, r, whole, after
<1>1. Good(0)
  <2>1. /\ Fresh(width, stack).ok /\ Fresh(width, stack).k = 0 /\ Fresh(width, stack).to = <<>>
        /\ Fresh(width, stack).buf = SubSeq(stack, 1, width)
    BY DEF Fresh
  <2>2. Len(<< <<>> >>) = 1 /\ << <<>> >>[1] = <<>> /\ Len(<<>>) = 0  OBVIOUS
  <2>3. \A y \in 1 .. width : Fresh(width, stack).buf[y] = stack[y]  BY <2>1, StackFacts
  <2>4. \A y \in 1 .. width : ~(y <= 0)  OBVIOUS
  <2>5. 0 = 1 - 1 /\ 0 >= 2 * (1 - 1) + 0 /\ 0 <= (width + 1) * (1 - 1) + 0 /\ 1 .. 1 - 1 = {}
    BY ONLY width \in 1 .. 3
  <2>. QED  BY ONLY <1>a, <1>b, <2>1, <2>2, <2>3, <2>4, <2>5 DEF Tracks
<1>2. ASSUME NEW m \in Nat, m + 1 <= lim, Good(m) PROVE Good(m + 1)
  <2>1. m \in 0 .. lim /\ m + 1 \in 0 .. lim /\ m + 1 \in 1 .. lim /\ (m + 1) - 1 = m
    BY ONLY <1>0, <1>2, m \in Nat
  <2> DEFINE p == r[m]
             parts == s[m]
             c == text[m + 1]
  <2>2. /\ p \in Parser(width, radix) /\ parts \in Parts /\ c \in Typed
        /\ s[m + 1] = SplitAt(parts, c)
        /\ r[m + 1] = Character(p, text, m + 1, width, radix, after)
        /\ Continues(SplitAt(parts, c), whole)
    <3>1. c \in Typed  BY <2>1
    <3>2. s[m + 1] = SplitAt(parts, c) /\ r[m + 1] = Character(p, text, m + 1, width, radix, after)
      BY ONLY <1>a, <1>b, <2>1
    <3>3. Continues(s[m + 1], whole)  BY <1>c, <2>1
    <3>4. p \in Parser(width, radix) /\ parts \in Parts  BY <1>a, <1>b, <2>1
    <3>. QED  BY <3>1, <3>2, <3>3, <3>4
  <2>3. Tracks(p, parts, m, whole, width, radix, stack, clean)  BY <1>2
  <2>4. p.ok  BY <2>3 DEF Tracks
  <2> HIDE DEF p, parts, Good
  <2>5. CASE c = SEPARATOR
    <3>1. /\ p.k # 0
          /\ Tracks(NextNumber(p, width, radix, after), SplitAt(parts, SEPARATOR), m + 1,
                    whole, width, radix, stack, clean)
      <4>1. Continues(SplitAt(parts, SEPARATOR), whole)  BY ONLY <2>2, <2>5
      <4>. QED  BY ONLY <1>d, <2>2, <2>3, <4>1, m \in Nat, TracksSeparator, width \in 1 .. 3,
                        radix \in 1 .. 16, stack \in [1 .. 4 -> BufChar],
                        clean \in BOOLEAN, StackSays(stack, clean) DEF after
    <3>2. r[m + 1] = NextNumber(p, width, radix, after)
      BY <2>2, <2>4, <2>5, <3>1, Zenon DEF Character
    <3>. QED  BY ONLY <2>2, <2>5, <3>1, <3>2 DEF Good
  <2>6. CASE c # SEPARATOR
    <3>1. /\ c < radix /\ p.k < width
          /\ Tracks(WithDigit(p, c), SplitAt(parts, c), m + 1, whole, width, radix, stack, clean)
      BY ONLY <1>d, <2>2, <2>3, <2>6, m \in Nat, TracksDigit, width \in 1 .. 3,
              radix \in 1 .. 16, stack \in [1 .. 4 -> BufChar], clean \in BOOLEAN
    <3>2. c # NEWLINE  BY ONLY <3>1, radix \in 1 .. 16 DEF NEWLINE
    <3>3. r[m + 1] = WithDigit(p, c)
      BY <2>2, <2>4, <2>6, <3>1, <3>2, Zenon DEF Character, WithDigit
    <3>. QED  BY ONLY <2>2, <3>1, <3>3 DEF Good
  <2>. QED  BY <2>5, <2>6
<1>3. \A m \in Nat : m \in S
  <2> HIDE DEF Good
  <2>1. 0 \in S  BY <1>1
  <2>2. ASSUME NEW m \in Nat, m \in S PROVE m + 1 \in S
    <3>1. SUFFICES ASSUME m + 1 <= lim PROVE Good(m + 1)  OBVIOUS
    <3>2. m <= lim  BY ONLY <1>0, <3>1, m \in Nat
    <3>. QED  BY <1>2, <2>2, <3>1, <3>2
  <2> HIDE DEF S
  <2>. QED  BY <2>1, <2>2, Induction
<1>4. ASSUME NEW m \in 0 .. lim PROVE Good(m)
  <2>1. m \in Nat /\ m <= lim  BY <1>0
  <2> HIDE DEF Good
  <2>. QED  BY <1>3, <2>1
<1>. QED  BY <1>4 DEF s, r, whole

(* What is left of the scan: the last number is converted, too.            *)
ScannedAs(q, text, width, radix, clean) ==
  /\ q.ok /\ Len(q.to) = Len(Split(text)) /\ DOMAIN q.to = 1 .. Len(Split(text))
  /\ \A x \in 1 .. Len(Split(text)) :
       Reliable(x, Split(text), width, clean) => q.to[x] = Number(Split(text)[x], radix)
  /\ Len(text) >= 2 * (Len(Split(text)) - 1) + 1
  /\ Len(text) <= (width + 1) * (Len(Split(text)) - 1) + width

(* A text made of numbers is scanned as those numbers.                     *)
LEMMA ScanExact ==
  ASSUME NEW width \in 1 .. 3, NEW radix \in 1 .. 16, NEW text \in Seq(Typed),
         NEW stack \in [1 .. 4 -> BufChar], NEW clean \in BOOLEAN,
         StackSays(stack, clean), AllNumbers(Split(text), width, radix)
  PROVE  ScannedAs(Scan(text, width, radix, stack), text, width, radix, clean)
<1> DEFINE lim == Len(text)
           p == Rounds(text, width, radix, stack)[lim]
           whole == Split(text)
           n == Len(whole)
           after == stack[width + 1]
           q == NextNumber(p, width, radix, after)
           v == Number(p.buf \o <<after>>, radix)
<1>0. lim \in Nat /\ lim \in 0 .. lim  OBVIOUS
<1>1. Scan(text, width, radix, stack) = q  BY Zenon DEF Scan
<1>2. p \in Parser(width, radix)  BY <1>0, RoundsRec
<1>3. whole \in Parts /\ n \in Nat \ {0} /\ n \in 1 .. n /\ n <= n
  BY <1>0, SplitsRec, EmptySeq DEF Split, Parts
<1>4. Tracks(p, whole, lim, whole, width, radix, stack, clean)
  <2>1. Splits(text)[lim] = whole  BY DEF Split
  <2>. QED  BY ONLY <1>0, <2>1, TracksAll, width \in 1 .. 3, radix \in 1 .. 16, text \in Seq(Typed),
            stack \in [1 .. 4 -> BufChar], clean \in BOOLEAN, StackSays(stack, clean),
            AllNumbers(Split(text), width, radix)
<1>5. after \in BufChar  BY StackFacts
<1> HIDE DEF p, whole, after
<1>6. NumberTaken(q, p, width, radix, after)  BY <1>2, <1>5, NextNumberFacts
<1>7. Reliable(n, whole, width, clean) => v = Number(whole[n], radix)
  <2>1. SUFFICES ASSUME Reliable(n, whole, width, clean) PROVE v = Number(whole[n], radix)  OBVIOUS
  <2>2. AllNumbers(whole, width, radix)  BY DEF whole
  <2>3. LastComplete(p, whole, lim, whole, width, radix, stack, clean)
    BY <1>2, <1>3, <1>4, <2>1, <2>2 DEF LastComplete
  <2>4. Number(p.buf \o <<stack[width + 1]>>, radix) = Number(whole[Len(whole)], radix)
    BY ONLY <2>3, Converted
  <2>. QED  BY ONLY <2>4 DEF after
<1>8. Len(whole[n]) \in 1 .. width  BY <1>3 DEF AllNumbers, whole
<1>9. /\ p.ok /\ p.k = Len(whole[n]) /\ Len(p.to) = n - 1
      /\ \A x \in 1 .. n - 1 : Reliable(x, whole, width, clean) => p.to[x] = Number(whole[x], radix)
      /\ lim >= 2 * (n - 1) + p.k /\ lim <= (width + 1) * (n - 1) + p.k
  BY <1>4 DEF Tracks
<1>10. /\ q.ok = p.ok /\ q.to = Append(p.to, v)
  BY <1>6 DEF NumberTaken
<1>11. p.to \in Seq(Numbers(width, radix)) /\ v \in Numbers(width, radix)
  <2>1. p.buf \in [1 .. width -> BufChar] /\ p.to \in Seq(Numbers(width, radix))
    BY <1>2 DEF Parser
  <2>2. p.buf \o <<after>> \in [1 .. width + 1 -> BufChar]  BY <1>5, <2>1, Memory
  <2>. QED  BY <2>1, <2>2 DEF Numbers
<1> HIDE DEF q, v, n
<1>12. /\ Len(q.to) = n /\ DOMAIN q.to = 1 .. n /\ q.to[n] = v
       /\ \A x \in 1 .. n - 1 : q.to[x] = p.to[x]
  <2>1. /\ Len(Append(p.to, v)) = Len(p.to) + 1 /\ Append(p.to, v)[Len(p.to) + 1] = v
        /\ \A x \in 1 .. Len(p.to) : Append(p.to, v)[x] = p.to[x]
        /\ Append(p.to, v) \in Seq(Numbers(width, radix))
    BY ONLY <1>11, AppendProperties
  <2>2. (n - 1) + 1 = n  BY ONLY <1>3
  <2>3. DOMAIN q.to = 1 .. Len(q.to)  BY ONLY <1>10, <2>1, LenProperties
  <2>. QED  BY ONLY <1>9, <1>10, <2>1, <2>2, <2>3
<1>13. ASSUME NEW x \in 1 .. n, Reliable(x, whole, width, clean)
       PROVE  q.to[x] = Number(whole[x], radix)
  <2>1. CASE x = n  BY ONLY <1>7, <1>12, <1>13, <2>1
  <2>2. CASE x # n
    <3>1. x \in 1 .. n - 1  BY ONLY <1>3, <2>2, x \in 1 .. n
    <3>. QED  BY ONLY <1>9, <1>12, <1>13, <3>1
  <2>. QED  BY <2>1, <2>2
<1>14. lim >= 2 * (n - 1) + 1 /\ lim <= (width + 1) * (n - 1) + width
  <2> DEFINE a == 2 * (n - 1)
             d == (width + 1) * (n - 1)
             k == p.k
  <2>1. a \in Int /\ d \in Int /\ k \in Int /\ k >= 1 /\ k <= width /\ lim >= a + k /\ lim <= d + k
    <3>1. k \in Int /\ k >= 1 /\ k <= width  BY ONLY <1>8, <1>9, width \in 1 .. 3
    <3>2. a \in Int  BY ONLY <1>3
    <3>3. d \in Int
      <4>1. CASE width = 1  BY ONLY <1>3, <4>1
      <4>2. CASE width = 2  BY ONLY <1>3, <4>2
      <4>3. CASE width = 3  BY ONLY <1>3, <4>3
      <4>. QED  BY ONLY <4>1, <4>2, <4>3, width \in 1 .. 3
    <3>4. lim >= a + k /\ lim <= d + k  BY ONLY <1>9
    <3>. QED  BY ONLY <3>1, <3>2, <3>3, <3>4
  <2> HIDE DEF a, d, k
  <2>2. lim >= a + 1 /\ lim <= d + width  BY ONLY <1>0, <2>1, width \in 1 .. 3
  <2>. QED  BY ONLY <2>2 DEF a, d
<1>15. ScannedAs(q, text, width, radix, clean)
  BY ONLY <1>9, <1>10, <1>12, <1>13, <1>14 DEF ScannedAs, n, whole
<1>. QED  BY ONLY <1>1, <1>15

(* A text in the right format is made of numbers.                          *)
LEMMA WrittenParts ==
  ASSUME NEW text \in Seq(Typed), NEW groups \in Nat, NEW width \in 1 .. 3, NEW radix \in 1 .. 16,
         Written(text, groups, width, radix)
  PROVE  AllNumbers(Split(text), width, radix) /\ Len(Split(text)) = groups
<1> DEFINE whole == Split(text)
<1>1. whole \in Parts
  <2>1. Len(text) \in 0 .. Len(text)  OBVIOUS
  <2>. QED  BY <2>1, SplitsRec DEF Split
<1>2. /\ Len(whole) = groups
      /\ \A x \in 1 .. groups : /\ Len(whole[x]) \in 1 .. width
                                /\ \A y \in DOMAIN whole[x] : whole[x][y] < radix
  BY DEF Written
<1> HIDE DEF whole
<1>3. ASSUME NEW x \in 1 .. Len(whole) PROVE IsNumber(whole[x], radix) /\ Len(whole[x]) \in 1 .. width
  <2>1. whole \in Seq(Seq(Typed))  BY <1>1 DEF Parts
  <2>2. whole[x] \in Seq(Typed)  BY <2>1, ElementOfSeq
  <2>3. DOMAIN whole[x] = 1 .. Len(whole[x])  BY <2>2, LenProperties
  <2>4. x \in 1 .. groups  BY <1>2, <1>3
  <2>5. Len(whole[x]) \in 1 .. width /\ \A y \in DOMAIN whole[x] : whole[x][y] < radix
    BY ONLY <1>2, <2>4
  <2>. QED  BY ONLY <2>2, <2>3, <2>5 DEF IsNumber
<1>4. AllNumbers(whole, width, radix) /\ Len(whole) = groups  BY ONLY <1>1, <1>2, <1>3 DEF AllNumbers
<1>. QED  BY ONLY <1>4 DEF whole

(* What a scan made of a text in the right format.                         *)
TakenAs(q, text, groups, width, radix, clean) ==
  /\ q.ok /\ Len(q.to) = groups /\ DOMAIN q.to = 1 .. groups
  /\ \A x \in Trusted(text, width, clean) :
       x \in 1 .. groups /\ q.to[x] = Number(Split(text)[x], radix)
       /\ Meant(text, radix)[x] = Number(Split(text)[x], radix)
  /\ Len(text) >= 2 * (groups - 1) + 1 /\ Len(text) <= (width + 1) * (groups - 1) + width

(* A text in the right format is scanned as the numbers it means.          *)
LEMMA ScanTaken ==
  ASSUME NEW text \in Seq(Typed), NEW groups \in Nat, NEW width \in 1 .. 3, NEW radix \in 1 .. 16,
         NEW stack \in [1 .. 4 -> BufChar], NEW clean \in BOOLEAN,
         StackSays(stack, clean), Written(text, groups, width, radix)
  PROVE  TakenAs(Scan(text, width, radix, stack), text, groups, width, radix, clean)
<1> DEFINE q == Scan(text, width, radix, stack)
           whole == Split(text)
<1>1. AllNumbers(Split(text), width, radix) /\ Len(whole) = groups
  BY WrittenParts
<1>2. ScannedAs(q, text, width, radix, clean)  BY <1>1, ScanExact
<1>3. /\ q.ok /\ Len(q.to) = groups /\ DOMAIN q.to = 1 .. groups
      /\ \A x \in 1 .. groups : Reliable(x, whole, width, clean) => q.to[x] = Number(whole[x], radix)
      /\ Len(text) >= 2 * (groups - 1) + 1 /\ Len(text) <= (width + 1) * (groups - 1) + width
  BY ONLY <1>1, <1>2 DEF ScannedAs, whole
<1>4. DOMAIN whole = 1 .. groups
  <2>1. whole \in Seq(Seq(Typed))  BY <1>1 DEF AllNumbers, Parts
  <2>. QED  BY ONLY <1>1, <2>1, LenProperties
<1>5. ASSUME NEW x \in Trusted(text, width, clean)
      PROVE  /\ x \in 1 .. groups /\ q.to[x] = Number(whole[x], radix)
             /\ Meant(text, radix)[x] = Number(whole[x], radix)
  <2> HIDE DEF q
  <2>1. x \in DOMAIN whole /\ Reliable(x, whole, width, clean)  BY Zenon DEF Trusted, Reliable
  <2>2. Meant(text, radix)[x] = Number(whole[x], radix)  BY <2>1, Zenon DEF Meant
  <2>3. q.to[x] = Number(whole[x], radix)  BY ONLY <1>3, <1>4, <2>1
  <2>. QED  BY <1>4, <2>1, <2>2, <2>3
<1> HIDE DEF q
<1>6. TakenAs(q, text, groups, width, radix, clean)  BY ONLY <1>3, <1>5 DEF TakenAs, whole
<1>. QED  BY ONLY <1>6 DEF q

(* What Said records of the stack.                                         *)
LEMMA StackClean ==
  ASSUME NEW stack \in [1 .. 4 -> BufChar]
  PROVE  StackSays(stack, \A x \in DOMAIN stack : stack[x] = NUL)
  BY DEF StackSays

(* An IP address in the right format.                                      *)
LEMMA IpTaken ==
  ASSUME NEW text \in Seq(Typed), NEW stack \in [1 .. 4 -> BufChar], NEW clean \in BOOLEAN,
         StackSays(stack, clean), Written(text, 4, 3, 10)
  PROVE  /\ parse_ip(text, stack).ok
         /\ \A x \in Trusted(text, 3, clean) : parse_ip(text, stack).to[x] = Meant(text, 10)[x]
<1> DEFINE q == Scan(text, 3, 10, stack)
<1>1. TakenAs(q, text, 4, 3, 10, clean)
  <2>1. 4 \in Nat /\ 3 \in 1 .. 3 /\ 10 \in 1 .. 16  OBVIOUS
  <2>. QED  BY <2>1, ScanTaken
<1> HIDE DEF q
<1>2. Len(text) \in Nat  OBVIOUS
<1>3. Len(text) >= 7 /\ Len(text) <= 15 /\ Right(q, 4)  BY ONLY <1>1, <1>2 DEF TakenAs, Right
<1>4. parse_ip(text, stack) =
        [ok |-> Len(text) >= 7 /\ Len(text) <= 15 /\ Right(q, 4), to |-> q.to]
  BY Zenon DEF parse_ip, q
<1>5. parse_ip(text, stack).ok /\ parse_ip(text, stack).to = q.to
  <2> DEFINE right == Len(text) >= 7 /\ Len(text) <= 15 /\ Right(q, 4)
             r == parse_ip(text, stack)
  <2>1. r = [ok |-> right, to |-> q.to] /\ right  BY ONLY <1>3, <1>4
  <2> HIDE DEF right, r
  <2>2. r.ok = right /\ r.to = q.to  BY ONLY <2>1, Zenon
  <2>3. r.ok /\ r.to = q.to  BY ONLY <2>1, <2>2
  <2>. QED  BY ONLY <2>3 DEF r
<1>. QED  BY ONLY <1>1, <1>5 DEF TakenAs

(* One or two digits make a byte.                                          *)
LEMMA ByteValue ==
  ASSUME NEW part, IsNumber(part, 16), Len(part) \in 1 .. 2
  PROVE  Number(part, 16) \in 0 .. 255
<1>1. part \in Seq(Typed) /\ \A y \in 1 .. Len(part) : part[y] \in 0 .. 15
  <2>1. part \in Seq(Typed) /\ \A y \in 1 .. Len(part) : part[y] < 16  BY DEF IsNumber
  <2>2. ASSUME NEW y \in 1 .. Len(part) PROVE part[y] \in 0 .. 15
    <3>1. part[y] \in Typed  BY <2>1, ElementOfSeq
    <3>. QED  BY <2>1, <3>1 DEF Typed, SEPARATOR, NEWLINE, NO_DIGIT
  <2>. QED  BY <2>1, <2>2
<1>2. Digits(part, 16) = part
  <2>1. Typed \subseteq Int /\ 16 \in 1 .. 16  BY DEF Typed, SEPARATOR, NEWLINE, NO_DIGIT
  <2>2. /\ Len(part) <= Len(part) /\ \A y \in 1 .. Len(part) : part[y] = part[y]
        /\ Len(part) < Len(part) => part[Len(part) + 1] >= 16
    OBVIOUS
  <2>. QED  BY ONLY <1>1, <2>1, <2>2, DigitsFacts, IsNumber(part, 16)
<1> DEFINE D(v) == v = [j \in 0 .. Len(part) |-> IF j = 0 THEN 0 ELSE v[j - 1] * 16 + part[j]]
           v1 == part[1]
           v2 == part[1] * 16 + part[2]
           w == [j \in 0 .. Len(part) |-> IF j = 0 THEN 0 ELSE IF j = 1 THEN v1 ELSE v2]
           ch == CHOOSE v : D(v)
<1>3. D(w)
  <2>1. ASSUME NEW j \in 0 .. Len(part)
        PROVE  w[j] = IF j = 0 THEN 0 ELSE w[j - 1] * 16 + part[j]
    <3>1. CASE j = 0  BY <3>1
    <3>2. CASE j = 1
      <4>1. w[0] = 0 /\ w[1] = v1 /\ 1 - 1 = 0  BY <3>2
      <4>2. part[1] \in Int /\ 0 * 16 + part[1] = part[1]  BY <1>1, <3>2
      <4>. QED  BY <3>2, <4>1, <4>2
    <3>3. CASE j = 2
      <4>1. w[1] = v1 /\ w[2] = v2 /\ 2 - 1 = 1  BY <3>3
      <4>. QED  BY <3>3, <4>1
    <3>. QED  BY ONLY <3>1, <3>2, <3>3, j \in 0 .. Len(part), Len(part) \in 1 .. 2
  <2>2. w = [j \in 0 .. Len(part) |-> w[j]]  OBVIOUS
  <2> HIDE DEF w
  <2>. QED  BY <2>1, <2>2
<1>4. D(ch)
  <2> HIDE DEF D, w
  <2>. QED  BY <1>3, Zenon
<1>5. Number(part, 16) = ch[Len(part)]
  BY <1>2, Zenon DEF Number, DigitsValue
<1>6. /\ ch[0] = 0 /\ ch[1] = ch[0] * 16 + part[1]
      /\ Len(part) = 2 => ch[2] = ch[1] * 16 + part[2]
  <2> HIDE DEF ch
  <2>1. \A j \in 0 .. Len(part) : ch[j] = IF j = 0 THEN 0 ELSE ch[j - 1] * 16 + part[j]
    BY <1>4
  <2>2. 0 \in 0 .. Len(part) /\ 1 \in 0 .. Len(part) /\ Len(part) = 2 => 2 \in 0 .. Len(part)
    BY Len(part) \in 1 .. 2
  <2>. QED  BY <2>1, <2>2
<1> HIDE DEF ch
<1>7. CASE Len(part) = 1
  <2>1. part[1] \in 0 .. 15  BY <1>1, <1>7
  <2>. QED  BY ONLY <1>5, <1>6, <1>7, <2>1
<1>8. CASE Len(part) = 2
  <2>1. part[1] \in 0 .. 15 /\ part[2] \in 0 .. 15  BY <1>1, <1>8
  <2>. QED  BY ONLY <1>5, <1>6, <1>8, <2>1
<1>. QED  BY <1>7, <1>8

(* A MAC address in the right format: a byte holds every number of it.     *)
LEMMA MacTaken ==
  ASSUME NEW text \in Seq(Typed), NEW stack \in [1 .. 4 -> BufChar], NEW clean \in BOOLEAN,
         StackSays(stack, clean), Written(text, 6, 2, 16), Len(text) = 17
  PROVE  /\ parse_mac_addr(text, stack).ok
         /\ \A x \in Trusted(text, 2, clean) : parse_mac_addr(text, stack).to[x] = Meant(text, 16)[x]
<1> DEFINE q == Scan(text, 2, 16, stack)
<1>0. 6 \in Nat /\ 2 \in 1 .. 3 /\ 16 \in 1 .. 16  OBVIOUS
<1>1. TakenAs(q, text, 6, 2, 16, clean)  BY <1>0, ScanTaken
<1>2. AllNumbers(Split(text), 2, 16) /\ Len(Split(text)) = 6  BY <1>0, WrittenParts
<1> HIDE DEF q
<1>3. Right(q, 6)  BY ONLY <1>1 DEF TakenAs, Right
<1>4. parse_mac_addr(text, stack) =
        [ok |-> Len(text) = 17 /\ Right(q, 6), to |-> [x \in DOMAIN q.to |-> q.to[x] % 256]]
  BY Zenon DEF parse_mac_addr, q
<1>5. /\ parse_mac_addr(text, stack).ok
      /\ parse_mac_addr(text, stack).to = [x \in DOMAIN q.to |-> q.to[x] % 256]
  <2> DEFINE right == Len(text) = 17 /\ Right(q, 6)
             bytes == [x \in DOMAIN q.to |-> q.to[x] % 256]
             r == parse_mac_addr(text, stack)
  <2>1. r = [ok |-> right, to |-> bytes]  BY ONLY <1>4
  <2>2. right  BY ONLY <1>3, Len(text) = 17
  <2> HIDE DEF right, r, bytes
  <2>3. r.ok = right /\ r.to = bytes  BY ONLY <2>1, Zenon
  <2>4. r.ok /\ r.to = bytes  BY ONLY <2>2, <2>3
  <2>. QED  BY ONLY <2>4 DEF r, bytes
<1>6. ASSUME NEW x \in Trusted(text, 2, clean)
      PROVE  parse_mac_addr(text, stack).to[x] = Meant(text, 16)[x]
  <2>1. /\ x \in DOMAIN q.to /\ x \in 1 .. 6 /\ q.to[x] = Number(Split(text)[x], 16)
        /\ Meant(text, 16)[x] = Number(Split(text)[x], 16)
    BY ONLY <1>1, <1>6 DEF TakenAs
  <2>2. IsNumber(Split(text)[x], 16) /\ Len(Split(text)[x]) \in 1 .. 2
    <3> DEFINE whole == Split(text)
    <3>1. AllNumbers(whole, 2, 16) /\ Len(whole) = 6  BY ONLY <1>2
    <3> HIDE DEF whole
    <3>2. x \in 1 .. Len(whole)  BY ONLY <2>1, <3>1
    <3>3. IsNumber(whole[x], 16) /\ Len(whole[x]) \in 1 .. 2  BY ONLY <3>1, <3>2, Zenon DEF AllNumbers
    <3>. QED  BY ONLY <3>3 DEF whole
  <2>3. q.to[x] \in 0 .. 255
    <3>1. Number(Split(text)[x], 16) \in 0 .. 255  BY ONLY <2>2, ByteValue
    <3>. QED  BY ONLY <2>1, <3>1
  <2>4. q.to[x] % 256 = q.to[x]
    <3>1. ASSUME NEW v \in 0 .. 255 PROVE v % 256 = v  BY ONLY v \in 0 .. 255
    <3>. QED  BY ONLY <2>3, <3>1
  <2>. QED  BY ONLY <1>5, <2>1, <2>4
<1>. QED  BY <1>5, <1>6

(* The command that sets an address has taken it as Taken says.            *)
LEMMA SaidOfIp ==
  ASSUME TextAssumption, StackAssumption, NEW text \in IpTexts, NEW stack \in Stacks,
         NEW what \in {"local", "remote"}, Said(what, text, parse_ip(text, stack), stack)
  PROVE  RightFormatTaken'
<1> DEFINE clean == \A x \in DOMAIN stack : stack[x] = NUL
           r == parse_ip(text, stack)
<1>1. last' = [what |-> what, text |-> text, set |-> r.ok, to |-> r.to, clean |-> clean]
  BY DEF Said
<1>2. text \in Seq(Typed) /\ stack \in [1 .. 4 -> BufChar]
  BY TextAssumption, StackAssumption
<1>3. clean \in BOOLEAN /\ StackSays(stack, clean)  BY <1>2, StackClean
<1> HIDE DEF clean
<1>4. Written(text, 4, 3, 10) =>
        r.ok /\ \A x \in Trusted(text, 3, clean) : r.to[x] = Meant(text, 10)[x]
  BY ONLY <1>2, <1>3, IpTaken
<1> HIDE DEF r
<1>5. /\ last'.what = what /\ last'.text = text /\ last'.set = r.ok /\ last'.to = r.to
      /\ last'.clean = clean
  BY ONLY <1>1, Zenon
<1>6. Taken(4, 3, 10)'  BY ONLY <1>4, <1>5, Zenon DEF Taken
<1>7. last'.what # "mac"  BY <1>5
<1>. QED  BY ONLY <1>6, <1>7 DEF RightFormatTaken

(* The same of set_mac_addr.                                              *)
LEMMA SaidOfMac ==
  ASSUME TextAssumption, StackAssumption, NEW text \in MacTexts, NEW stack \in Stacks,
         Said("mac", text, parse_mac_addr(text, stack), stack)
  PROVE  RightFormatTaken'
<1> DEFINE clean == \A x \in DOMAIN stack : stack[x] = NUL
           r == parse_mac_addr(text, stack)
           what == "mac"
<1>1. last' = [what |-> what, text |-> text, set |-> r.ok, to |-> r.to, clean |-> clean]
  BY DEF Said
<1>2. text \in Seq(Typed) /\ stack \in [1 .. 4 -> BufChar]
  BY TextAssumption, StackAssumption
<1>3. clean \in BOOLEAN /\ StackSays(stack, clean)  BY <1>2, StackClean
<1> HIDE DEF clean
<1>4. Written(text, 6, 2, 16) /\ Len(text) = 17 =>
        r.ok /\ \A x \in Trusted(text, 2, clean) : r.to[x] = Meant(text, 16)[x]
  BY ONLY <1>2, <1>3, MacTaken
<1> HIDE DEF r, what
<1>5. /\ last'.what = what /\ last'.text = text /\ last'.set = r.ok /\ last'.to = r.to
      /\ last'.clean = clean
  BY ONLY <1>1, Zenon
<1>6. Len(last'.text) = 17 => Taken(6, 2, 16)'  BY ONLY <1>4, <1>5, Zenon DEF Taken
<1>7. last'.what \notin {"local", "remote"}  BY ONLY <1>5 DEF what
<1>. QED  BY ONLY <1>6, <1>7 DEF RightFormatTaken

(* Every text in the right format is taken, and every number of it that    *)
(* does not depend on the stack is the one typed: for every set of texts   *)
(* and everything parse_ip and parse_mac_addr may find on the stack.  The  *)
(* buffer is cleared between two numbers, so a number that is shorter than *)
(* the buffer ends at the NUL behind its digits.                           *)
THEOREM AddressesTaken == ConsoleSpec => []RightFormatTaken
  <1>1. ConsoleInit => RightFormatTaken
    BY DEF ConsoleInit, NetInit, RightFormatTaken
  <1>2. RightFormatTaken /\ [ConsoleNext]_consoleVars => RightFormatTaken'
    <2> SUFFICES ASSUME RightFormatTaken, [ConsoleNext]_consoleVars PROVE RightFormatTaken'
      OBVIOUS
    <2>1. CASE AddressCommand
      <3>1. CASE set_local_ip
        <4>1. PICK text \in IpTexts, stack \in Stacks :
                Said("local", text, parse_ip(text, stack), stack)
          BY <3>1, Zenon DEF set_local_ip
        <4> QED
          BY <4>1, SaidOfIp, TextAssumption, StackAssumption
      <3>2. CASE set_remote_ip
        <4>1. PICK text \in IpTexts, stack \in Stacks :
                Said("remote", text, parse_ip(text, stack), stack)
          BY <3>2, Zenon DEF set_remote_ip
        <4> QED
          BY <4>1, SaidOfIp, TextAssumption, StackAssumption
      <3>3. CASE set_mac_addr
        <4>1. PICK text \in MacTexts, stack \in Stacks :
                Said("mac", text, parse_mac_addr(text, stack), stack)
          BY <3>3, Zenon DEF set_mac_addr
        <4> QED
          BY <4>1, SaidOfMac, TextAssumption, StackAssumption
      <3> QED
        BY <2>1, <3>1, <3>2, <3>3 DEF AddressCommand, set_address
    <2>2. CASE BootCommand
      BY <2>2 DEF BootCommand, udp_start, RightFormatTaken
    <2>3. CASE ConsoleWork \/ Booted \/ Ended \/ UNCHANGED consoleVars
      <3>1. last' = last
        BY <2>3 DEF ConsoleWork, Booted, Ended, consoleVars
      <3> QED
        BY <3>1, Zenon DEF RightFormatTaken, Taken
    <2> QED
      BY <2>1, <2>2, <2>3 DEF ConsoleNext
  <1> QED
    BY <1>1, <1>2, PTL DEF ConsoleSpec
===============================================================================
