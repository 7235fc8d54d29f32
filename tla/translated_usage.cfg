\* Any upstream that counts its tokens, for a Responses client.
SPECIFICATION TranslationSpec
CONSTANTS
  ToolCalls = {a}
  NoCall = NoCall
  MaxToolCalls = 1
  MaxText = 1
  MaxEvents = 5
INVARIANT UsageReachesResponses
CHECK_DEADLOCK FALSE
