SPECIFICATION MCSpec
CONSTANTS
  Byte = 8
  FrameSlots = 6
  SideInfo = 2
  Granules = 2
  FracSpF = 2
  OutRate = 5
  ResvLimit = 48
  MaxMp3Buf = 96
  ChannelMax = 40
  HeaderBuf = 4
  TotLimit = 100
  TagBytes = 3
  FrameSize = 1152
  EncDelay = 576
  PostDelay = 1152
  MdctDelay = 48
  Needed = 1904
  MaxBunch = 1152
  EndPadding = 576
  Counts = {600, 1800}
  Sizes = {0, 5}
  Short <- Nearly
  MaxSamples = 2400
  MaxErrors = 1
  Unit = 4
  Controls = {3, 4, 8}
  SoundRates = {1, 2}
  Second = 1
  Slow = 2
  Fast = 8
  SeqSlow = 8
  SeqFast = 5
  SeekSlow = 3
  SeekFast = 2
  AskedLengths = {0, 3}
  OverlapMs = 2
  LowBits = 1
  HighBits = 2
  FilterTaps = 3
  Slack = 4
  Channels = {1}
  Blocks = {1, 6}
  BufferSize = 16
  FlushBlock = 2
  FlushRounds = 3
  MaxCalls = 4
  MaxHeld = 0
  Parts = {"sound", "encoder", "settings", "id3", "xing"}
  TagCalls = 2
CHECK_DEADLOCK FALSE
INVARIANTS
  StreamAgrees
  SettingsHold
  SoundKept
  FlushSendsAll
  TagsHold
PROPERTIES
  CallsReturn
