SPECIFICATION FormatsSpec
CONSTANTS
  Files <- AllFiles
  None = None
  Blocks <- MCBlocks
  BlockLength <- MCBlockLength
  ReadsAsFields <- MCReadsAsFields
  Entity <- MCEntity
  HttpUris <- MCHttpUris
  Supported = {"sha1"}
  ExtensionType <- MCExtensionType
  ExtensionNames <- MCExtensionNames
  Untyped <- MCUntyped
  MaxEdits = 1
  NoBlock = NoBlock
  IllFormed = IllFormed
  Before1970 = {"ancient"}
  LineBreak = LineBreak
  Padded = Padded
  Requoted = Requoted
  Misquoted = Misquoted
  NotUtf8 = NotUtf8
  Offered <- MCOffered
  Bodies <- MCBodies
  Profiles <- MCProfiles
  Digested <- MCDigested
  MaxSetters = 2
  MaxExtra = 1
  Captured <- MCCaptured
  HttpsUris = {"h:a"}
  HeadOf <- MCHeadOf
  IdentifiedType <- MCIdentifiedType
  EmptyPayload = "nothing"
  MaxExchanges = 2
  NameOf <- MCNameOf
  FieldsBlock <- MCFieldsBlock
  Values <- MCValues
  Schemas <- MCSchemas
  Shapes <- MCShapes
  NumberOf <- MCNumberOf
  Decimal <- MCDecimal
  Keys <- MCKeys
  MaxChanges = 1
  HeaderBlocks <- MCHeaderBlocks
  Assembled <- MCAssembled
  VersionOf <- MCVersionOf
  StandardName <- MCStandardName
  LowerName <- MCLowerName
  LengthOf <- MCLengthOf
  DigitsOf <- MCDigitsOf
  DateIn <- MCDateIn
  UriTokens = {"u:a"}
  DigestTokens = {"d"}
  AddressOf <- MCAddressOf
  Instants <- MCInstants
  Spellings <- MCSpellings
  Contents = {"one", "two"}
  Uppercase = {{}, {1}}
  CustomLabels = {"x-sum"}
  OtherTexts <- MCOtherTexts
  StoredRecords <- MCStoredRecords
  MaxStored = 3
  MaxFailures = 2
INVARIANTS
  StreamPlacedExactly
  AllRead
  RoundTrip
  DigestsHold
  Writable
  RecordsIdentified
  BlocksReadBack
  ValuesReadBack
  WrittenFramesExact
CHECK_DEADLOCK FALSE
