------------------------------ MODULE BootImage ------------------------------
(***************************************************************************)
(* Booting from the network, an SD card, a SATA disk and flash (boot.c):   *)
(* a JSON file names the images, where each goes and what is handed to the *)
(* booted program; without a usable one boot.bin is tried.  A command that *)
(* fails gives the console back, with whatever it left in RAM, and another *)
(* may follow.  The SD card and SATA functions are the same code on        *)
(* another disk.  RAM is a set of places for images that do not overlap.   *)
(* The build has main RAM.                                                 *)
(***************************************************************************)
EXTENDS Integers, Sequences, SequencesExt

CONSTANTS Docs,            \* JSON files, as jsmn's tokens
          JSMN_ERRORS,     \* what jsmn_parse returns for others: -1, -2, -3
          Size,            \* [file name -> bytes]
          Places,          \* addresses images are copied to
          MAIN_RAM_BASE,
          Chunk,           \* bytes read at a time (0x8000)
          Flash,           \* what flash may hold: [length, crc_ok]
          TOKENS,          \* tokens jsmn has room for (32)
          UINT8,           \* values of a uint8_t (256)
          Behind,          \* what the stack may hold from t[0] on
          MIN_IMAGE, MAX_IMAGE,    \* 32 and 16 MB
          CallBound        \* boot commands given

ASSUME BootAssumption ==
  /\ Places \subseteq Nat /\ MAIN_RAM_BASE \in Places /\ Chunk \in Nat \ {0} /\ CallBound \in Nat
  /\ "boot.bin" \in DOMAIN Size /\ \A f \in DOMAIN Size : Size[f] \in Nat
  /\ MIN_IMAGE \in 1 .. MAX_IMAGE /\ JSMN_ERRORS \subseteq -3 .. -1
  /\ MAX_IMAGE \in Nat /\ Flash \subseteq [length : Nat, crc_ok : BOOLEAN]

VARIABLES phase,      \* where the command is: "idle", "json", "loop", "image", "bin", "flash", "booted"
          step,       \* what it does there: "mount", "open", "read", "check"
          dev,        \* "net", "sd", "sata" or "flash"
          named,      \* was netboot given a file name?
          mounted, opened,   \* FATFS volume and file
          t, count,   \* tokens and what jsmn_parse returned
          i,          \* the token the loop looks at
          args,       \* boot_r1, boot_r2, boot_r3 and boot_addr
          addr_found, image_found,
          job,        \* the copy under way: [file, to, offset]
          flash,      \* what flash holds, looked at by flashboot
          ram,        \* [Places -> [file, bytes]]
          touched,    \* places written since the JSON file was parsed
          jump,       \* what boot() was called with
          calls

vars == <<phase, step, dev, named, mounted, opened, t, count, i, args, addr_found,
          image_found, job, flash, ram, touched, jump, calls>>
document == <<t, count>>
found == <<args, addr_found, image_found>>
disk == <<mounted, opened>>
command == <<dev, named, flash, calls>>

Nothing == [file |-> "none", bytes |-> 0]
NoArgs == [r1 |-> 0, r2 |-> 0, r3 |-> 0, addr |-> 0]
NoJob == [file |-> "none", to |-> MAIN_RAM_BASE, offset |-> 0]
NoJump == [by |-> "none"]

Init ==
  /\ phase = "idle" /\ step = "mount" /\ dev = "net" /\ named = FALSE
  /\ mounted = FALSE /\ opened = FALSE
  /\ t = <<>> /\ count = 0 /\ i = 1
  /\ args = NoArgs /\ addr_found = FALSE /\ image_found = FALSE
  /\ job = NoJob /\ flash = [length |-> 0, crc_ok |-> FALSE]
  /\ ram = [a \in Places |-> Nothing] /\ touched = {}
  /\ jump = NoJump /\ calls = 0

(* strncmp looks only at the first characters, so a name is a keyword when *)
(* it begins with one: a token's text is [p: its beginning, rest].         *)
Keywords == {"bootargs", "addr", "r1", "r2", "r3"}
Key(tok) == IF tok.text.p \in Keywords THEN tok.text.p ELSE "image"
FileName(tok) == tok.text.p \o tok.text.rest
(* strtoul of a token that is no number is 0.                              *)
strtoul(tok) == IF tok.type = "number" THEN tok.n ELSE 0
IsElement(tok) == tok.type = "string" /\ tok.size = 1

Token == [type : STRING, text : [p : STRING, rest : STRING], size : Nat, n : Nat]

(* Images go to the places of RAM (and may fail to be copied).             *)
Placed(toks) ==
  /\ toks \in Seq(Token)
  /\ \A k \in 1 .. Len(toks) - 1 :
       IsElement(toks[k]) /\ Key(toks[k]) = "image" =>
         FileName(toks[k]) \in DOMAIN Size /\ strtoul(toks[k + 1]) \in Places

(* A file has no more tokens than there is room for, fewer than an error   *)
(* is taken for.                                                           *)
ASSUME DocumentAssumption ==
  /\ UINT8 \in Nat /\ TOKENS \in 0 .. UINT8 - 4
  /\ \A d \in Docs : Placed(d) /\ Len(d) <= TOKENS
  /\ \A g \in Behind : Placed(g) /\ Len(g) = UINT8

FirstStep(d) == IF d = "net" THEN "read" ELSE "mount"

(* The c tokens the loop finds after an error.  jsmn wrote n of them, of   *)
(* which the last, when it is a name, never got its value, and so has no   *)
(* child; the others, in t[] and beyond its end, are what the stack held.  *)
Leftover(d, n, g, c) ==
  [k \in 1 .. c |-> CASE k < n -> d[k]
                      [] k = n -> [d[k] EXCEPT !.size = 0]
                      [] OTHER -> g[k]]
-----------------------------------------------------------------------------
(* The commands.                                                           *)

Start(d, isNamed) ==
  /\ phase = "idle" /\ calls < CallBound
  /\ calls' = calls + 1
  /\ dev' = d /\ named' = isNamed
  /\ t' = <<>> /\ count' = 0 /\ i' = 1
  /\ args' = NoArgs /\ addr_found' = FALSE /\ image_found' = FALSE
  /\ job' = NoJob /\ touched' = {}
  /\ UNCHANGED <<mounted, opened, ram, jump>>

netboot == /\ \E isNamed \in BOOLEAN : Start("net", isNamed)
           /\ UNCHANGED flash
           /\ phase' = "json" /\ step' = "read"
sdcardboot == Start("sd", FALSE) /\ UNCHANGED flash /\ phase' = "json" /\ step' = "mount"
sataboot == Start("sata", FALSE) /\ UNCHANGED flash /\ phase' = "json" /\ step' = "mount"
flashboot == Start("flash", FALSE) /\ flash' \in Flash /\ phase' = "flash" /\ step' = "check"

(* from_json returns without having booted: boot.bin is next, unless the   *)
(* file was named on the command line.                                     *)
JsonReturns ==
  IF named THEN phase' = "idle" /\ UNCHANGED <<step, job>>
  ELSE /\ phase' = "bin" /\ step' = FirstStep(dev)
       /\ job' = [file |-> "boot.bin", to |-> MAIN_RAM_BASE, offset |-> 0]

(* The function the current copy belongs to gives up.                      *)
GiveUp == IF phase = "bin" THEN phase' = "idle" /\ UNCHANGED <<step, job>> ELSE JsonReturns

boot(by, a) ==
  /\ phase' = "booted"
  /\ jump' = [by |-> by, args |-> a]
-----------------------------------------------------------------------------
(* The JSON file.                                                          *)

Parsed(toks, n) ==
  /\ t' = toks /\ count' = n
  /\ i' = 1 /\ touched' = {}
  /\ phase' = "loop"
  /\ UNCHANGED <<step, job>>

(* The buffer is parsed as far as strlen goes.  A file that was cut off, a *)
(* read error whose status nobody looks at, more tokens than there is room *)
(* for and what the stack held behind the text all give an error from      *)
(* jsmn_parse; it is kept in a uint8_t and taken for a number of tokens,   *)
(* which the loop goes over to the last.                                   *)
ParseJson ==
  \E d \in Docs :
    \/ Parsed(d, Len(d))
    \/ \E n \in 0 .. Len(d), err \in JSMN_ERRORS, g \in Behind :
         Parsed(Leftover(d, n, g, err % UINT8), err % UINT8)

TftpJson ==
  /\ phase = "json" /\ step = "read" /\ dev = "net"
  /\ ParseJson \/ (JsonReturns /\ UNCHANGED <<document, i, touched>>)
  /\ UNCHANGED <<disk, found, ram, jump, command>>

f_mount ==
  /\ phase \in {"json", "image", "bin"} /\ step = "mount"
  /\ \/ /\ mounted' = TRUE /\ step' = "open"
        /\ UNCHANGED <<phase, job>>
     \/ GiveUp /\ UNCHANGED mounted
  /\ UNCHANGED <<opened, document, i, found, ram, touched, jump, command>>

f_open ==
  /\ phase \in {"json", "image", "bin"} /\ step = "open"
  /\ \/ /\ opened' = TRUE /\ step' = "read"
        /\ UNCHANGED <<mounted, phase, job>>
     \/ GiveUp /\ mounted' = FALSE /\ UNCHANGED opened
  /\ UNCHANGED <<document, i, found, ram, touched, jump, command>>

ReadJson ==
  /\ phase = "json" /\ step = "read" /\ dev # "net"
  /\ ParseJson
  /\ opened' = FALSE /\ mounted' = FALSE
  /\ UNCHANGED <<found, ram, jump, command>>
-----------------------------------------------------------------------------
(* The loop over the tokens.                                               *)

InLoop == phase = "loop" /\ i < count

Element ==
  /\ InLoop
  /\ LET value == strtoul(t[i + 1])
     IN  \/ /\ ~IsElement(t[i]) \/ Key(t[i]) = "bootargs"
            /\ i' = i + 1
            /\ UNCHANGED <<phase, step, job, args, addr_found>>
         \/ /\ IsElement(t[i]) /\ Key(t[i]) = "addr"
            /\ args' = [args EXCEPT !.addr = value] /\ addr_found' = TRUE
            /\ i' = i + 1
            /\ UNCHANGED <<phase, step, job>>
         \/ /\ IsElement(t[i]) /\ Key(t[i]) \in {"r1", "r2", "r3"}
            /\ args' = [args EXCEPT ![Key(t[i])] = value]
            /\ i' = i + 1
            /\ UNCHANGED <<phase, step, job, addr_found>>
         \/ /\ IsElement(t[i]) /\ Key(t[i]) = "image"
            /\ phase' = "image" /\ step' = FirstStep(dev)
            /\ job' = [file |-> FileName(t[i]), to |-> value, offset |-> 0]
            /\ UNCHANGED <<i, args, addr_found>>
  /\ UNCHANGED <<disk, document, image_found, ram, touched, jump, command>>

EndOfTokens ==
  /\ phase = "loop" /\ ~InLoop
  /\ \/ image_found /\ boot("json", args) /\ UNCHANGED <<step, job>>
     \/ ~image_found /\ JsonReturns /\ UNCHANGED jump
  /\ UNCHANGED <<disk, document, i, found, ram, touched, command>>
-----------------------------------------------------------------------------
(* Copies.                                                                 *)

MutCopied ==                        \* an image's address always counts
  \/ /\ phase = "image" /\ phase' = "loop"
     /\ i' = i + 1 /\ image_found' = TRUE
     /\ args' = [args EXCEPT !.addr = job.to]
     /\ UNCHANGED jump
  \/ /\ phase = "bin" /\ boot("bin", [NoArgs EXCEPT !.addr = MAIN_RAM_BASE])
     /\ UNCHANGED <<i, image_found, args>>

(* Whoever asked for the copy goes on: the loop with the next token, or    *)
(* the jump to boot.bin.                                                   *)
Copied ==
  \/ /\ phase = "image" /\ phase' = "loop"
     /\ i' = i + 1
     /\ image_found' = TRUE
     /\ args' = IF addr_found THEN args ELSE [args EXCEPT !.addr = job.to]
     /\ UNCHANGED jump
  \/ /\ phase = "bin" /\ boot("bin", [NoArgs EXCEPT !.addr = MAIN_RAM_BASE])
     /\ UNCHANGED <<i, image_found, args>>

Write(upto) ==
  /\ ram' = [ram EXCEPT ![job.to] = [file |-> job.file, bytes |-> upto]]
  /\ touched' = touched \cup {job.to}

(* copy_file_from_tftp_to_ram: a size of 0 is a failure too, and a         *)
(* transfer that breaks off leaves what had arrived.                       *)
TftpImage ==
  /\ phase \in {"image", "bin"} /\ dev = "net" /\ step = "read"
  /\ \/ /\ Size[job.file] > 0 /\ Write(Size[job.file])
        /\ Copied /\ UNCHANGED <<step, job>>
     \/ /\ \E n \in 0 .. Size[job.file] : Write(n)
        /\ GiveUp /\ UNCHANGED <<i, image_found, args, jump>>
  /\ UNCHANGED <<disk, document, addr_found, command>>

MutReadMounted ==                   \* the volume stays mounted after an error
  /\ phase \in {"image", "bin"} /\ dev # "net" /\ step = "read"
  /\ \/ /\ job.offset = Size[job.file] /\ opened' = FALSE /\ mounted' = FALSE
        /\ Copied /\ UNCHANGED <<step, job, ram, touched>>
     \/ /\ opened' = FALSE /\ UNCHANGED mounted
        /\ GiveUp /\ UNCHANGED <<i, image_found, args, jump, ram, touched>>
  /\ UNCHANGED <<document, addr_found, command>>

MutReadShort ==                     \* one read is taken for the file
  /\ phase \in {"image", "bin"} /\ dev # "net" /\ step = "read"
  /\ opened' = FALSE /\ mounted' = FALSE
  /\ Write(IF Size[job.file] < Chunk THEN Size[job.file] ELSE Chunk)
  /\ Copied /\ UNCHANGED <<step, job>>
  /\ UNCHANGED <<document, addr_found, command>>

MutReadForever ==                   \* the end of the file is not seen
  /\ phase \in {"image", "bin"} /\ dev # "net" /\ step = "read"
  /\ Write(Size[job.file])
  /\ UNCHANGED <<disk, phase, step, job, i, image_found, args, jump>>
  /\ UNCHANGED <<document, addr_found, command>>

(* One f_read of copy_file_from_sdcard_to_ram: another chunk, the end of   *)
(* the file when it gave nothing, or an error; the last two close the file *)
(* and unmount.                                                            *)
ReadChunk ==
  /\ phase \in {"image", "bin"} /\ dev # "net" /\ step = "read"
  /\ LET left == Size[job.file] - job.offset
         br == IF left < Chunk THEN left ELSE Chunk
     IN  \/ /\ br > 0
            /\ job' = [job EXCEPT !.offset = @ + br]
            /\ Write(job.offset + br)
            /\ UNCHANGED <<disk, phase, step, i, image_found, args, jump>>
         \/ /\ br = 0
            /\ opened' = FALSE /\ mounted' = FALSE
            /\ Write(job.offset)
            /\ Copied /\ UNCHANGED <<step, job>>
         \/ /\ opened' = FALSE /\ mounted' = FALSE
            /\ Write(job.offset)
            /\ GiveUp /\ UNCHANGED <<i, image_found, args, jump>>
  /\ UNCHANGED <<document, addr_found, command>>
-----------------------------------------------------------------------------
(* Flash.                                                                  *)

(* check_image_in_flash, 0 for no image.                                   *)
ImageLength(f) ==
  IF f.length < MIN_IMAGE \/ f.length > MAX_IMAGE \/ ~f.crc_ok THEN 0 ELSE f.length

(* flashboot checks, and copy_image_from_flash_to_ram checks once more.    *)
CheckFlash ==
  /\ phase = "flash" /\ step = "check"
  /\ \/ ImageLength(flash) = 0 /\ phase' = "idle" /\ UNCHANGED <<step, job>>
     \/ /\ ImageLength(flash) > 0 /\ step' = "read"
        /\ job' = [file |-> "flash", to |-> MAIN_RAM_BASE, offset |-> 0]
        /\ UNCHANGED phase
  /\ UNCHANGED <<disk, document, i, found, ram, touched, jump, command>>

CopyFlash ==
  /\ phase = "flash" /\ step = "read"
  /\ LET length == ImageLength(flash) - job.offset
         chunk_length == IF length < Chunk THEN length ELSE Chunk
     IN  \/ /\ length > 0
            /\ job' = [job EXCEPT !.offset = @ + chunk_length]
            /\ Write(job'.offset)
            /\ UNCHANGED <<phase, jump>>
         \/ /\ length = 0
            /\ boot("flash", [NoArgs EXCEPT !.addr = MAIN_RAM_BASE])
            /\ UNCHANGED <<job, ram, touched>>
  /\ UNCHANGED <<step, disk, document, i, found, command>>

(* The BIOS goes on with what it was told to do.                           *)
Work ==
  \/ TftpJson \/ f_mount \/ f_open \/ ReadJson \/ Element \/ EndOfTokens
  \/ TftpImage \/ ReadChunk \/ CheckFlash \/ CopyFlash

-----------------------------------------------------------------------------
(* What is jumped to is complete: after a JSON file every place written on *)
(* its behalf holds the whole of the file that was copied there last,      *)
(* whatever earlier commands or a copy that broke off left behind; boot.bin*)
(* and the flash image are whole, and the latter passed its CRC.           *)
NothingHalfLoaded ==
  phase = "booted" =>
    /\ jump.by = "json" => /\ touched # {}
                           /\ \A a \in touched : ram[a].bytes = Size[ram[a].file]
    /\ jump.by = "bin" => ram[MAIN_RAM_BASE] = [file |-> "boot.bin", bytes |-> Size["boot.bin"]]
    /\ jump.by = "flash" => /\ flash.crc_ok
                            /\ ram[MAIN_RAM_BASE] = [file |-> "flash", bytes |-> flash.length]

Elements == {k \in 1 .. Len(t) - 1 : IsElement(t[k])}
Under(key) == {k \in Elements : Key(t[k]) = key}
LastOf(S) == CHOOSE k \in S : \A l \in S : l <= k
ValueOf(key) == IF Under(key) = {} THEN 0 ELSE strtoul(t[LastOf(Under(key)) + 1])

(* The booted program gets what the tokens say, in whatever order they say *)
(* it: the last value of each register, the last "addr" or, if there is    *)
(* none, the address of the last image; and each place holds the last      *)
(* image meant for it.  These are the tokens of the file, if jsmn_parse    *)
(* read it; after an error, which nobody looks at, they are the beginning  *)
(* of the file and whatever the stack held behind it.                      *)
JumpAsDocument ==
  phase = "booted" /\ jump.by = "json" =>
    /\ \A r \in {"r1", "r2", "r3"} : jump.args[r] = ValueOf(r)
    /\ jump.args.addr = IF Under("addr") # {} THEN ValueOf("addr") ELSE ValueOf("image")
    /\ touched = {strtoul(t[k + 1]) : k \in Under("image")}
    /\ \A k \in Under("image") :
         (\A l \in Under("image") : strtoul(t[l + 1]) = strtoul(t[k + 1]) => l <= k)
           => ram[strtoul(t[k + 1])].file = FileName(t[k])

(* FATFS has one volume and its work areas are on the stack of the         *)
(* function that mounted it: outside of that function nothing is mounted   *)
(* or open, after every error too.                                         *)
VolumeReleased ==
  (phase \in {"idle", "loop", "booted"} \/ step = "mount") => ~mounted /\ ~opened

(* Every boot command boots or gives the console back, however the file is *)
(* cut off and whichever calls fail.                                       *)
CommandEnds == phase # "idle" ~> phase \in {"idle", "booted"}
=============================================================================
