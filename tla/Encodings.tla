------------------------------ MODULE Encodings ------------------------------
(***************************************************************************)
(* What is encoded and read back: bytes given to the coders of Codecs, and *)
(* texts that backup.c escapes and the lexer reads.  A behaviour draws     *)
(* the one or the other, byte by byte or character by character.           *)
(***************************************************************************)
EXTENDS Codecs, Lexer

CONSTANTS SampleByte, ScriptChar,  \* what is drawn
          MaxSample, MaxScript     \* bounds: bytes of a sample, characters of a script

VARIABLES sample,   \* the data part of a page, or a column's bytes
          script    \* the text of an exported string

encvars == <<sample, script>>

\* A page's data are fewer bytes than the page: there is a header before them.
ASSUME EncodingsAssumption ==
  /\ SampleByte \subseteq 0 .. Window /\ ScriptChar \subseteq Char
  /\ MaxSample \in 0 .. PageBytes /\ MaxScript \in Nat
  /\ MaxSample + 2 <= PageBytes + Margin

EncInit == sample = <<>> /\ script = <<>>

DrawByte == /\ script = <<>> /\ Len(sample) < MaxSample
            /\ \E b \in SampleByte : sample' = Append(sample, b)
            /\ UNCHANGED script
DrawChar == /\ sample = <<>> /\ Len(script) < MaxScript
            /\ \E c \in ScriptChar : script' = Append(script, c)
            /\ UNCHANGED sample

EncNext == DrawByte \/ DrawChar

(* Whatever bytes a page or a run-length coded column holds come back from
   compression, but for the one match length the format cannot express; and a
   string as backup.c escapes it is read back by the lexer, within its buffer. *)
EncodingsReadBack ==
  /\ sample # <<>> => CodecRoundTrip(sample)
  /\ script # <<>> => LexerSound(script)
=============================================================================
