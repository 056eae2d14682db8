\* Programs and what they mean, and texts that need not be programs.
SPECIFICATION Spec
CONSTANT Texts <- AllTexts
INVARIANTS Means ErrorsHeard ReadsTokens SpansNest TokensTile
PROPERTIES Advances
