--------------------------------- MODULE MessageText ---------------------------------
(***************************************************************************)
(* The text of a message on its way to the application, as CQ text and as  *)
(* a list of segments, and back (handlers/message_parser.go and            *)
(* GenerateReplyMessage of handlers/send_guild_channel_msg.go).            *)
(*                                                                         *)
(* What somebody says is a sequence of tokens: words, spaces, slashes and  *)
(* mentions.  A mention stands for itself on both sides: the number the    *)
(* application sees for it is the id map's, and leads back (IdMap).        *)
(* What the application says is a sequence of parts, written as CQ codes   *)
(* in one string or as segments.                                           *)
(***************************************************************************)
EXTENDS Integers, Sequences, SequencesExt, FiniteSets, FiniteSetsExt

CONSTANTS
    People, Bot,     \* who can be mentioned
    Occasions,       \* a message (tokens, attachments), the configuration
                     \* (remove_at, remove_prefix, array, the filters), and
                     \* what the application says (action, parts, segmented)
    ForwardLimit     \* forward_msg_limit

\* Mentions are no spaces and no slashes.
ASSUME TextAssumption ==
    /\ Bot \notin People /\ ForwardLimit \in Nat
    /\ {"space", "slash"} \cap (People \cup {Bot}) = {}
ASSUME OccasionsAssumption ==
    \A o \in Occasions :
        LET T == ToSet(o.said.tokens) \cup ToSet(o.said.attached)
        IN  o.said.tokens \in Seq(T) /\ o.said.attached \in Seq(T)

VARIABLES
    said,       \* the message: tokens and attachments
    set,        \* the configuration
    temporary,  \* idmap.TemporaryCommands, as prefixes
    raw,        \* raw_message, or Unread
    segments,   \* message, when it is an array
    refused,    \* the answer for a message that is not on the white list was sent
    reply,     \* what the application says
    sent        \* the messages made of it for Discord

textVars == <<said, set, temporary, raw, segments, refused, reply, sent>>

Unread == [words |-> <<"unread">>, images |-> <<>>]
NoList == <<>>
Mentions == People \cup {Bot}

TextInit ==
    /\ \E o \in Occasions : said = o.said /\ set = o.set /\ reply = o.reply
    /\ temporary \in SUBSET {<<"code">>}
    /\ raw = Unread /\ segments = NoList /\ refused = FALSE /\ sent = <<>>
---------------------------------------------------------------------------------------
\* Without the spaces at either end.
TrimSpace(s) ==
    LET kept == {k \in DOMAIN s : s[k] # "space"}
    IN  IF kept = {} THEN <<>> ELSE SubSeq(s, Min(kept), Max(kept))

\* A single space is kept: somebody meant it.
Trimmed(s) == IF said.tokens = <<"space">> THEN s ELSE TrimSpace(s)

\* The elements of s that are kept, in their order.  A function rather than
\* SelectSeq, of which the prover knows nothing.
Only(s, kept) ==
    LET only[n \in 0..Len(s)] ==
            IF n = 0 THEN <<>>
            ELSE IF s[n] \in kept THEN Append(only[n - 1], s[n]) ELSE only[n - 1]
    IN  only[Len(s)]
Without(s, gone) == Only(s, ToSet(s) \ gone)
Begins(s, prefixes) == \E p \in prefixes : IsPrefix(p, s)

\* A slip: the bot's mention goes without being asked.
Mentioned_BotDropped(s) == Only(s, People)
---------------------------------------------------------------------------------------
\* RevertTransformedText: the bot's mention is removed if remove_at says so, and
\* the first slash if remove_prefix does.
MentionsReverted(s) ==
    IF set.removeAt THEN Trimmed(Without(Trimmed(s), {Bot})) ELSE Trimmed(s)
PrefixRemoved(s) == IF set.removePrefix THEN RemoveFirst(s, "slash") ELSE s

OnWhiteList(s) ==
    ~set.whiteMode \/ set.bypass \/ Begins(s, set.white \cup temporary)
OnBlackList(s) == set.blackMode /\ Begins(s, set.black)

\* The first of the virtual prefixes that fits goes, if something is left.
VirtualRemoved(s) ==
    LET hits == {k \in DOMAIN set.virtual : IsPrefix(set.virtual[k], s)}
        p == set.virtual[Min(hits)]
    IN  IF hits # {} /\ Len(s) > Len(p) THEN SubSeq(s, Len(p) + 1, Len(s)) ELSE s

Filtered(s) ==
    IF OnWhiteList(s) /\ ~OnBlackList(s) THEN VirtualRemoved(s) ELSE <<>>

\* Pictures among the attachments are written at the end.
RevertTransformedText ==
    LET text == PrefixRemoved(MentionsReverted(said.tokens))
    IN  [words |-> Filtered(text), images |-> Only(said.attached, {"picture"})]

\* The handler of a message: what the filters leave nothing of goes no further.
Read ==
    /\ raw = Unread
    /\ raw' = RevertTransformedText
    /\ refused' = ~OnWhiteList(PrefixRemoved(MentionsReverted(said.tokens)))
    /\ UNCHANGED <<said, set, temporary, segments, reply, sent>>
---------------------------------------------------------------------------------------
\* ConvertToSegmentedMessage starts from the message again: mentions, text,
\* and every attachment as an image, in this order.
Mentioned(s) == IF set.removeAt THEN Only(s, People) ELSE Only(s, Mentions)
SegmentText(s) ==
    PrefixRemoved(IF set.removeAt THEN Trimmed(Without(s, Mentions)) ELSE Without(s, Mentions))

sortMessageSegments(ats, text, images) ==
    [k \in DOMAIN ats |-> [type |-> "at", data |-> ats[k]]]
    \o (IF text = <<>> THEN <<>> ELSE <<[type |-> "text", data |-> text]>>)
    \o [k \in DOMAIN images |-> [type |-> "image", data |-> images[k]]]

ConvertToSegmentedMessage ==
    sortMessageSegments(Mentioned(said.tokens), SegmentText(said.tokens), said.attached)

Passed == raw # Unread /\ (raw.words # <<>> \/ raw.images # <<>>)

Convert ==
    /\ Passed /\ set.array /\ segments = NoList
    /\ segments' = ConvertToSegmentedMessage
    /\ UNCHANGED <<said, set, temporary, raw, refused, reply, sent>>
---------------------------------------------------------------------------------------
\* parseMessageContent: the codes of a string, kind by kind, each with its match
\* taken out of the text.  An "at" code is no pattern and stays in the text; the
\* segments of a list have kinds of their own, a picture's is "image".  A segment
\* without a list is a list of one, except that its unreadable markdown is kept.
Codes == {"local_image", "url_image", "url_images", "base64_image", "markdown",
          "record", "video", "music"}
Found(parts, kind) == SelectSeq(parts, LAMBDA p : p.kind = kind)
TextOf(parts) == SelectSeq(parts, LAMBDA p : p.kind \notin Codes)
SegmentTextOf(parts) == SelectSeq(parts, LAMBDA p : p.kind = "text")

\* Markdown of a segment that comes encoded keeps its base64:// in front.
SegmentMarkdown(parts) ==
    SelectSeq(parts, LAMBDA p : p.kind = "markdown" /\ p.form # "unreadable")
Decodes(p) == p.good /\ p.form # "prefixed"

\* GenerateReplyMessage: local pictures, http, https, base64, each if it can be
\* read, then the markdown after the text.
Usable(items) == SelectSeq(items, LAMBDA p : p.good)
GenerateReplyMessage(text, found) ==
    [content |-> text \o SelectSeq(found["markdown"], Decodes),
     files |-> Usable(found["local_image"])
               \o (IF set.transfer THEN Usable(found["url_image"] \o found["url_images"]) ELSE <<>>)
               \o Usable(found["base64_image"]),
     embeds |-> IF set.transfer THEN <<>> ELSE found["url_image"] \o found["url_images"]]

\* One message in one string.
SendString(parts) ==
    GenerateReplyMessage(TextOf(parts), [k \in Codes |-> Found(parts, k)])

\* One message in segments: their pictures and mentions are noted and not used.
SendSegments(parts) ==
    GenerateReplyMessage(SegmentTextOf(parts),
        [k \in Codes |-> IF k = "markdown" THEN SegmentMarkdown(parts) ELSE <<>>])

\* send_group_forward_msg: nodes are sent while the count is not above the limit;
\* of a node in segments only the text goes on, as a string.
Forward(nodes) ==
    [k \in 1..Min({Len(nodes), ForwardLimit + 1}) |->
        SendString(IF nodes[k].segmented THEN SegmentTextOf(nodes[k].parts) ELSE nodes[k].parts)]

Send ==
    /\ sent = <<>> /\ reply.action = "send"
    /\ sent' = <<IF reply.segmented THEN SendSegments(reply.parts) ELSE SendString(reply.parts)>>
    /\ UNCHANGED <<said, set, temporary, raw, segments, refused, reply>>

SendForward ==
    /\ sent = <<>> /\ reply.action = "forward"
    /\ sent' = Forward([k \in DOMAIN reply.parts |->
                          [parts |-> <<reply.parts[k]>>, segmented |-> reply.segmented]])
    /\ UNCHANGED <<said, set, temporary, raw, segments, refused, reply>>

TextNext == Read \/ Convert \/ Send \/ SendForward
---------------------------------------------------------------------------------------
SegmentData(type) ==
    LET hits == Only(segments, {g \in ToSet(segments) : g.type = type})
    IN  [k \in DOMAIN hits |-> hits[k].data]
SegmentWords == FlattenSeq(SegmentData("text"))

\* The two forms of one message say the same: an application that reads the
\* segments hears of the same people, in the order they were mentioned, and of the
\* same words as one that reads the text, however the bot's mention and the slash
\* were taken out of each.  Not so for spaces, which only the text is trimmed of,
\* for virtual prefixes, which only the text loses, and for what a filter stopped.
FormsAgree ==
    segments # NoList /\ set.virtual = <<>> /\ raw.words # <<>> =>
        /\ SegmentData("at") = Only(raw.words, Mentions)
        /\ Without(SegmentWords, {"space"}) = Without(raw.words, Mentions \cup {"space"})
        /\ Only(SegmentData("image"), {"picture"}) = raw.images
=======================================================================================
