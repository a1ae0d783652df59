----------------------------- MODULE LZSSProgram -----------------------------
(***************************************************************************)
(* main of the LZSS program: the options are parsed (OptList) and          *)
(* processed one by one, the files are opened, and LZSS encodes, decodes   *)
(* or, by default, does both.  A user calls the program several times, and *)
(* each call is a new process: of the earlier ones only the files are      *)
(* left.                                                                   *)
(*                                                                         *)
(* InFile and stdin have the same contents at first.  No file can be opened *)
(* for writing if the directory is read-only.                              *)
(***************************************************************************)
EXTENDS LZSS

CONSTANTS InFile,           \* the name of a file that exists
          CopySessions,     \* command lines, one per call, on files of all Sizes
          OtherSessions,    \* command lines on files of at most one byte
          None

(* A command line is a sequence of words, a word one of characters. *)
ASSUME SessionAssumption ==
  /\ CopySessions \cup OtherSessions \subseteq Seq(Seq(Seq(STRING)))
  /\ None \notin Seq(STRING)

VARIABLES todo,             \* the command lines of the calls to come
          args, nextArg, argIndex, list,  \* see OptList
          mode,             \* "ENCODE", "DECODE" or "TEST"
          inName, outName,  \* infile_name, outfile_name, both may be empty
          disk,             \* the contents of each file, and of stdin
          readonly,         \* the directory cannot be written to
          stage             \* where main is

Known == {"c", "d", "i", "o", "h", "?"}
WithArgument == {"i", "o"}
Options == INSTANCE OptList

option == <<args, nextArg, argIndex, list>>
settings == <<mode, inName, outName>>
codec == <<encoder, buffers, match, i, bf, pc, nextChar, out>>
program == <<todo, option, settings, disk, readonly, stage>>
allVars == <<vars, program>>

NoName == << >>
Compressed == <<"compressed">>
Decompressed == <<"decompressed">>

(* A file as getc sees it, a function from 0, and as a sequence. *)
Text(bytes) == [x \in 0 .. Len(bytes) - 1 |-> bytes[x + 1]]
Bytes(text) == [x \in 1 .. Cardinality(DOMAIN text) |-> text[x - 1]]

ProgramInit ==
  /\ Init
  /\ \/ todo \in CopySessions
     \/ todo \in OtherSessions /\ FileSize <= 1
  /\ args = << >> /\ nextArg = 1 /\ argIndex = 1 /\ list = << >>
  /\ mode = "TEST" /\ inName = NoName /\ outName = NoName
  /\ disk = [n \in {NoName, InFile} |-> Bytes(data)]
  /\ readonly \in BOOLEAN
  /\ stage = "exit"

Ended == stage \in {"exit", "crashed"}

(* A new process: all its variables are as they were at first. *)
Call ==
  /\ Ended
  /\ todo # << >>
  /\ todo' = Tail(todo)
  /\ Options!Start(Head(todo))
  /\ mode' = "TEST" /\ inName' = NoName /\ outName' = NoName
  /\ stage' = "parse"
  /\ inPos' = 0 /\ window' = Spaces /\ lookahead' = [x \in DOMAIN lookahead |-> 0]
  /\ windowHead' = 0 /\ uncodedHead' = 0 /\ len' = 0
  /\ match' = Match(0, 0) /\ i' = 0
  /\ bf' = MakeBitFile(<< >>, bf.room)
  /\ pc' = "fill" /\ result' = -1 /\ nextChar' = 0 /\ out' = << >>
  /\ UNCHANGED <<data, disk, readonly>>

Parse ==
  /\ stage = "parse"
  /\ IF Options!Scanned
     THEN stage' = "options" /\ UNCHANGED option
     ELSE Options!Scan /\ UNCHANGED stage
  /\ UNCHANGED <<vars, todo, settings, disk, readonly>>

-------------------------------------------------------------------------------
(* The loop over the options *)

Option(letters) == /\ stage = "options"
                   /\ list # << >>
                   /\ Head(list).option \in letters
                   /\ list' = Tail(list)
                   /\ UNCHANGED <<vars, todo, args, nextArg, argIndex, disk, readonly>>

(* "t" is not in the option string, so that it never comes here. *)
ModeOf == [c |-> "ENCODE", d |-> "DECODE", t |-> "TEST"]

SetMode == /\ Option(DOMAIN ModeOf)
           /\ mode' = ModeOf[Head(list).option]
           /\ UNCHANGED <<inName, outName, stage>>

SetName == /\ Option({"i", "o"})
           /\ Head(list).argument # None
           /\ IF Head(list).option = "i"
              THEN inName' = Head(list).argument /\ UNCHANGED outName
              ELSE outName' = Head(list).argument /\ UNCHANGED inName
           /\ UNCHANGED <<mode, stage>>

(* The string is assigned a null pointer. *)
NoArgument == /\ Option({"i", "o"})
              /\ Head(list).argument = None
              /\ stage' = "crashed"
              /\ UNCHANGED settings

Help == /\ Option({"h", "?"})
        /\ stage' = "exit"
        /\ UNCHANGED settings

-------------------------------------------------------------------------------
(* The files *)

OptionsDone == stage = "options" /\ list = << >>

(* What is written to stdout is not kept. *)
Stored(name, bytes) ==
  IF name = NoName THEN disk
  ELSE [n \in DOMAIN disk \cup {name} |-> IF n = name THEN bytes ELSE disk[n]]

(* Where the encoder writes to, and the decoder. *)
EncoderFile == IF mode = "TEST" THEN Compressed ELSE outName
DecoderFile == IF mode = "TEST" THEN Decompressed ELSE outName

(* An empty name is stdin or stdout, but not in the test mode. *)
InputOpens == IF mode = "TEST" /\ inName = NoName THEN FALSE
              ELSE inName \in DOMAIN disk
OutputOpens == IF mode = "TEST" \/ outName # NoName THEN ~ readonly ELSE TRUE

(* The output is opened before anything is read, and then it is empty, *)
(* although it may be the input.                                       *)
OpenForEncoder ==
  /\ OptionsDone
  /\ mode \in {"TEST", "ENCODE"}
  /\ InputOpens /\ OutputOpens
  /\ disk' = Stored(EncoderFile, << >>)
  /\ data' = Text(disk'[inName])
  /\ stage' = "encode"
  /\ UNCHANGED <<codec, todo, option, settings, readonly>>

OpenForDecoder ==
  /\ OptionsDone
  /\ mode = "DECODE"
  /\ InputOpens /\ OutputOpens
  /\ disk' = Stored(DecoderFile, << >>)
  /\ bf' = MakeBitFile(disk'[inName], bf.room)
  /\ pc' = "encoded"
  /\ stage' = "decode"
  /\ UNCHANGED <<data, encoder, buffers, match, i, nextChar, out, todo, option,
                 settings, readonly>>

(* OpenFile throws, or fclose is called with a null pointer after the codec *)
(* has returned -1.                                                         *)
CannotOpen ==
  /\ OptionsDone
  /\ ~ (InputOpens /\ OutputOpens)
  /\ disk' = IF OutputOpens THEN Stored(EncoderFile, << >>) ELSE disk
  /\ stage' = "crashed"
  /\ UNCHANGED <<vars, todo, option, settings, readonly>>

RunEncoder ==
  /\ stage = "encode"
  /\ Encode
  /\ UNCHANGED program

(* In the test mode the file is opened again and decoded. *)
CloseEncoded ==
  /\ stage = "encode"
  /\ pc = "encoded"
  /\ IF mode = "TEST"
     THEN /\ disk' = [n \in DOMAIN disk \cup {Decompressed} |->
                        CASE n = Compressed   -> bf.file
                          [] n = Decompressed -> << >>
                          [] OTHER            -> disk[n]]
          /\ stage' = "decode"
     ELSE disk' = Stored(outName, bf.file) /\ stage' = "exit"
  /\ UNCHANGED <<vars, todo, option, settings, readonly>>

RunDecoder ==
  /\ stage = "decode"
  /\ Decode
  /\ UNCHANGED program

CloseDecoded ==
  /\ stage = "decode"
  /\ pc = "done"
  /\ disk' = Stored(DecoderFile, Bytes(out))
  /\ stage' = "exit"
  /\ UNCHANGED <<vars, todo, option, settings, readonly>>

SessionOver == Ended /\ todo = << >>

ProgramNext == \/ Call
               \/ Parse
               \/ SetMode \/ SetName \/ NoArgument \/ Help
               \/ OpenForEncoder \/ OpenForDecoder \/ CannotOpen
               \/ RunEncoder \/ CloseEncoded
               \/ RunDecoder \/ CloseDecoded
               \/ SessionOver /\ UNCHANGED allVars

(* The program goes on if it can, but nothing makes a matcher return. *)
ProgramSpec == /\ ProgramInit
               /\ [][ProgramNext]_allVars
               /\ WF_allVars(ProgramNext /\ ~ InMatcher)

-------------------------------------------------------------------------------
(* The bytes that are decoded were encoded by the program. *)
DecodesOwn == CASE mode = "TEST"   -> TRUE
                [] mode = "ENCODE" -> FALSE
                [] mode = "DECODE" -> inName \notin {InFile, NoName}

(* README: "lossless data compression algorithm".  The decoded file grows   *)
(* by the bytes of the input, in order, and never by anything else, in the  *)
(* process that has encoded it or in a later one: the padding of the last   *)
(* byte is not decoded.  Without enough room this is not so, although the   *)
(* encoder reports no error.                                                *)
Copier == INSTANCE Lossless
CopiesFile ==
  /\ Copier!Init
  /\ [][stage = "decode" /\ EnoughRoom /\ DecodesOwn => Copier!Next]_<<data, out>>

(* After the test mode the decompressed file is the same as the input.  (An  *)
(* input of the name of one of the two outputs is lost as they are opened.)  *)
TestRestoresFile ==
  stage = "exit" /\ mode = "TEST" /\ pc = "done" /\ EnoughRoom
    /\ inName \notin {Compressed, Decompressed}
  => disk[Decompressed] = disk[inName]

(* Whatever the words of the command line, a call ends after the work of    *)
(* its mode or the help, unless the last option has no argument, the input  *)
(* does not exist or the output cannot be written: then it crashes, but for *)
(* a help option.  Which letters are options, and which words arguments, is *)
(* as the comments of optlist.cpp describe it.  (Input and output are not   *)
(* the same file here: it exists once the output is opened.)                *)
EndsForAReason ==
  Ended /\ args # << >> =>
    LET helped == Options!Given("h") \/ Options!Given("?")
        failed == Options!ArgumentMissing \/ ~ InputOpens \/ ~ OutputOpens
    IN /\ stage = "crashed" <=> ~ helped /\ failed
       /\ stage = "exit" => helped \/ pc = IF mode = "ENCODE" THEN "encoded" ELSE "done"

(* Unless a call of FindMatch or ReplaceChar never returns, every call of   *)
(* the program ends, whatever was lost when the output file was full and    *)
(* also for a file that no encoder has written; with enough room the        *)
(* decoded file is complete.  ReplaceChar of tree.cpp, the matcher of the   *)
(* Makefile, may never return (ReplaceReturns of Matchers).                 *)
Termination ==
  \/ <>[]InMatcher
  \/ <>(/\ SessionOver
        /\ EnoughRoom /\ DecodesOwn /\ pc = "done" => out = data)
===============================================================================
