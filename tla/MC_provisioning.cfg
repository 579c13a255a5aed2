\* Smee, the Hardware backend, auto enrollment and the agent's services.
SPECIFICATION ProvisioningSpec
CONSTANTS
  Nil = Nil
  MAC = {"pc", "pi"}
  IPv4 = {"10.0.0.1", "10.0.0.2", "10.0.0.254", "10.0.0.250", "255.255.255.0"}
  IPv6 = {}
  CIDR = {}
  RaspberryPi = {"pi"}
  MaxUint32 = 700000
  WithMagic = {"undionly.kpxe", "ipxe.efi", "snp-arm64.efi"}
  Machine = {"pc", "pi"}
  Configs <- MCConfigs
  Firmware <- MCFirmware
  HardwareOf <- MCHardwareOf
  Retries = 1
  MaxChanges = 1
  MaxXid = 3
  MaxFaults = 1
  MaxPowerOns = 1
  Image <- MCImage
  Magic <- MCMagic
  PatchSizes = {1, 2, 3}
  BufSize = 3
  MaxRedirects = 2
  Datagrams <- MCDatagrams
  SyMessages = {1, 2, 3}
  Parsers = {"p1", "p2"}
  QueueCap = 1
  MaxDatagrams = 2
  Contents <- MCContents
  Filters <- MCFilters
  Folded <- MCFolded
  MaxWrites = 3
  MaxHbFaults = 1
  MaxToggles = 2
  ENil = ENil
  AgentIds <- MCIds
  AttrsOf <- MCAttrs
  RuleSets <- MCRules
  AutoConfigs <- MCAuto
  MaxName = 6
  GoodMAC = {"m"}
  MaxTroubles = 1
  MaxEdits = 1
  RtActions <- MCRtActions
  MaxRuns = 3
  MaxRtFaults = 2
  Launches <- MCLaunches
  TrBatches <- MCBatches
  MaxTrFaults = 2
  Pieces <- MCPieces
  MaxOutput = 2
INVARIANTS ProvisioningTypeOK LoopFree BootableBoots BootsAsTold IsoServed SyslogDrained
  BackendServes EnrolledOnce ExecuteReleases RunAsAsked BatchAbandoned LogFaithful
CHECK_DEADLOCK FALSE
