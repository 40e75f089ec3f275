---------------------------- MODULE MCArtefacts ----------------------------
(* Small instances of what a session produces: the fallback transactions   *)
(* of a table (as MCFallback sets it up), the outputs of the templates,    *)
(* the deck and the encodings.  They share no state, so each is explored   *)
(* on its own: the others stay in one state in which nothing is due.       *)
EXTENDS MCFallback, Templates, Codec, Deck

VARIABLE part

mcVars == <<fvars, template, witness, cvars, dvars, part>>

(* A session that has ended. *)
FallbackIdle ==
    /\ st = initialState /\ decision = 0
    /\ tip = 1 /\ base = 1
    /\ presigned = {} /\ mempool = {} /\ seen = << >>
    /\ evictions = 0 /\ ended = TRUE

TemplatesIdle == template = "recovery" /\ witness = << >>

(* The shortest of the formats. *)
CodecIdle == CodecInit /\ Len(format) = 2

MCInit ==
    \/ /\ part = "fallback"
       /\ FallbackInit /\ TemplatesIdle /\ CodecIdle /\ DeckInit
    \/ /\ part = "templates"
       /\ FallbackIdle /\ TemplatesInit /\ CodecIdle /\ DeckInit
    \/ /\ part = "codec"
       /\ FallbackIdle /\ TemplatesIdle /\ CodecInit /\ DeckInit
    \/ /\ part = "deck"
       /\ FallbackIdle /\ TemplatesIdle /\ CodecIdle /\ DeckInit

MCNext ==
    \/ /\ part = "fallback" /\ FallbackNext
       /\ UNCHANGED <<template, witness, cvars, dvars, part>>
    \/ /\ part = "templates" /\ TemplatesNext
       /\ UNCHANGED <<fvars, cvars, dvars, part>>
    \/ /\ part = "codec" /\ CodecNext
       /\ UNCHANGED <<fvars, template, witness, dvars, part>>
    \/ /\ part = "deck" /\ DeckNext
       /\ UNCHANGED <<fvars, template, witness, cvars, part>>

MCSpec == MCInit /\ [][MCNext]_mcVars /\ FallbackFairness
=============================================================================
