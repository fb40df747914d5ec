SPECIFICATION EncoderSpec
CONSTANTS
  Size = 2
  Logits = {0, 2}
  Zero = 1
  MaxTokens = 3
  MaxTexts = 2
  top_k = 1
  TokenizerMax = 3
  ModelMax = 2
INVARIANTS BatchEqualsSingle VectorsAreStorable
CHECK_DEADLOCK FALSE
