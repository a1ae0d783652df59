------------------------------- MODULE OptList -------------------------------
(***************************************************************************)
(* GetOptList of optlist.cpp: the words of a command line are scanned for  *)
(* options, which are collected in a list.  A word is a sequence of        *)
(* characters, argv[0] is left out.  An argument that is missing is None:  *)
(* it is read from argv[argc], the NULL that ends argv.                    *)
(*                                                                         *)
(* One action is one turn of a loop.  MatchOpt is what Known and           *)
(* WithArgument stand for: the letters of the option string and those      *)
(* that are followed by a colon there.                                     *)
(***************************************************************************)
EXTENDS Integers, Sequences

CONSTANTS Known, WithArgument, None

VARIABLES args,      \* argv without argv[0]
          nextArg,   \* the word that is scanned
          argIndex,  \* where in it, counted from 0
          list       \* the options that were found

Word == args[nextArg]
InWord == nextArg <= Len(args) /\ Len(Word) > argIndex /\ Word[1] = "-"
Letter == Word[argIndex + 1]
AtEndOfWord == Len(Word) = argIndex + 1

Found(argument) == Append(list, [option |-> Letter, argument |-> argument])

Start(words) == /\ args' = words
                /\ nextArg' = 1
                /\ argIndex' = 1
                /\ list' = << >>

SkipLetter == /\ InWord
              /\ Letter \notin Known
              /\ argIndex' = argIndex + 1
              /\ UNCHANGED <<args, nextArg, list>>

AddFlag == /\ InWord
           /\ Letter \in Known \ WithArgument
           /\ list' = Found(None)
           /\ argIndex' = argIndex + 1
           /\ UNCHANGED <<args, nextArg>>

(* "no space between argument and option" *)
AddAttached == /\ InWord
               /\ Letter \in Known \cap WithArgument
               /\ ~ AtEndOfWord
               /\ list' = Found(SubSeq(Word, argIndex + 2, Len(Word)))
               /\ nextArg' = nextArg + 1
               /\ argIndex' = 1
               /\ UNCHANGED args

(* Mutant of AfterArgument: the argument is scanned for options too. *)
AfterArgument_NotSkipped == nextArg + 1

(* The word behind the argument of an option that is a word of its own. *)
AfterArgument == nextArg + 2

AddSeparate == /\ InWord
               /\ Letter \in Known \cap WithArgument
               /\ AtEndOfWord
               /\ list' = Found(IF nextArg < Len(args) THEN args[nextArg + 1] ELSE None)
               /\ nextArg' = AfterArgument
               /\ argIndex' = 1
               /\ UNCHANGED args

NextWord == /\ nextArg <= Len(args)
            /\ ~ InWord
            /\ nextArg' = nextArg + 1
            /\ argIndex' = 1
            /\ UNCHANGED <<args, list>>

Scan == SkipLetter \/ AddFlag \/ AddAttached \/ AddSeparate \/ NextWord

Scanned == nextArg > Len(args)

-------------------------------------------------------------------------------
(* Reference definitions, on the words themselves. *)

(* The letters of a word that are options: up to one with an argument. *)
OptionsOf(word) ==
  IF word = << >> \/ Head(word) # "-" THEN {}
  ELSE {word[x] : x \in {y \in 2 .. Len(word) :
          /\ word[y] \in Known
          /\ \A z \in 2 .. y - 1 : word[z] \notin WithArgument}}

(* The word ends with an option whose argument is the next word. *)
Asks(word) ==
  /\ word # << >> /\ Head(word) = "-"
  /\ Len(word) > 1 /\ word[Len(word)] \in WithArgument
  /\ \A z \in 2 .. Len(word) - 1 : word[z] \notin WithArgument

IsArgument ==
  LET arg[n \in DOMAIN args] == n > 1 /\ ~ arg[n - 1] /\ Asks(args[n - 1])
  IN arg

(* Some option of the command line has this letter. *)
Given(letter) ==
  \E n \in DOMAIN args : ~ IsArgument[n] /\ letter \in OptionsOf(args[n])

(* The last option has no argument, and needs one. *)
ArgumentMissing ==
  args # << >> /\ ~ IsArgument[Len(args)] /\ Asks(args[Len(args)])
===============================================================================
