------------------------------- MODULE MCCli -------------------------------
(***************************************************************************)
(* Cli over all command lines of three words, and over longer ones with    *)
(* repeated options.  The codecs make up to three bytes, so that there is  *)
(* more than one read, and a chunk needs several writes.                   *)
(***************************************************************************)
EXTENDS Cli

Words == {"--engine", "copy", "stream", "--readers", "--writers", "rot13", "json-enc", "bogus", "-h"}

ShortLines == UNION {[1..n -> Words] : n \in 0..3}

LongLines ==
  {<<"--readers", "rot13", "json-enc", "base64-enc", "--writers", "base64-dec", "rot13">>,
   <<"--writers", "rot13", "json-enc", "--engine", "stream", "--readers", "json-enc", "base64-enc">>,
   <<"--writers", "rot13", "--readers", "json-enc", "--writers", "base64-enc">>,
   <<"--engine", "stream", "--readers", "identity", "rot13", "--engine", "copy", "json-enc">>,
   <<"--readers", "rot13", "json-enc", "--writers", "rot13", "--engine">>,
   <<"--readers", "rot13", "json-enc", "--writers", "--help", "rot13">>}

AllLines == ShortLines \cup LongLines

=============================================================================
