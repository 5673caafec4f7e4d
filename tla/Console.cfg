SPECIFICATION Spec
CONSTANTS
  None = None
  Blank = Blank
  Null = Null
  a = a
  b = b
  c = c
  m = m
  n = n
  x = x
  k1 = k1
  k2 = k2
  MaxOps <- MCMaxOps
  MaxCalls <- MCMaxCalls
  MaxEdits <- MCMaxEdits
  ListedChannel <- MCChannel
  MaxRev = 2
  ChannelTables <- MCChannelTables
  Channel <- MCChannel
  Model <- MCModel
  Credential <- MCCredential
  MaxRows = 2
  MaxSaves = 1
  MaxAsked = 2
  ChannelRows <- MCChannelRows
  RoutedChannel <- MCRoutedChannel
  RoutedName <- MCRoutedName
  LocaleRank <- MCRank
  ByteRank <- MCRank
  Policies <- MCPolicies
  RoutedChannels <- MCRoutedChannels
  RoutedAliases <- MCRoutedAliases
  AliasId = {1, 2, 3}
  Offers <- MCOffers
  MaxTargets = 2
  AliasTables <- MCAliasTables
  RuleName <- MCRuleName
  Fallbacks <- MCFallbacks
  RetryText <- MCRetryText
  MaxRules = 1
  InitialPolicies <- MCInitialPolicies
  KeyId = {1, 2, 3}
  KeyName <- MCKeyName
  KeyModel <- MCKeyModel
  MicroUSDPerUSD = 1000000
  QuotaText <- MCQuotaText
  InitialKeys <- MCInitialKeys
  ListedModel <- MCModel
  MetadataText <- MCMetadataText
  ServedModels <- MCServedModels
  Field <- MCField
  TimeoutText <- MCTimeoutText
  Defaults <- MCDefaults
  InitialTimeouts <- MCInitialTimeouts
VIEW View
CHECK_DEADLOCK FALSE
INVARIANTS
  OneAtATime
  SpinnersBacked
  QuietMeansFresh
  SendsWhatItShows
  MapIsTheGateways
PROPERTIES
  FormsFaithful
