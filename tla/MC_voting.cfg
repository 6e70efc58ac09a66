SPECIFICATION Spec
CONSTANTS
  m1 = m1
  m2 = m2
  m3 = m3
  NoMachine = NoMachine
  Machine = {m1, m2, m3}
  Spammers <- NoneOrFirst
  Worlds <- PairAndThree
  MaxUsers = 3
  Kinds = {"kick", "silence", "voice"}
  Bias <- NoBias
  MinVoters = 1
  MaxVotes = 2
  MaxVotesPerVoter = 1
  HarmTime = 1
  KickMinHarm = 1
  Timeout = 1
  TimeoutPerVoter = 0
  StartDecay = 0
  Decay = 1
  MaxPlayers = 4
  MaxItems = 2
  MaxTime = 2
INVARIANTS TypeOK OneVoice HarmsApart PassedRightly
CHECK_DEADLOCK FALSE
