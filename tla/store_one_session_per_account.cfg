SPECIFICATION RaceSpec
CONSTANTS
  a1 = a1
  a2 = a2
  h1 = h1
  h2 = h2
  h3 = h3
  Account = {a1}
  Handler = {h1, h2}
  MaxTokens = 3
INVARIANT OneSessionPerAccount
